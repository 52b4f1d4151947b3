------------------------------ MODULE Arkistointi ------------------------------
(***************************************************************************)
(* The nightly job that archives haut and their hakukohteet.  A run lists  *)
(* the haut whose time has come, lists their published hakukohteet,        *)
(* archives the hakukohteet and then the haut, each a statement of its     *)
(* own, and announces the haut to the indexer.  The same can be started    *)
(* by hand, beside the nightly run, and people save haut and hakukohteet   *)
(* all the while.                                                          *)
(*                                                                         *)
(* A save is one step here; what happens inside one, its optimistic lock   *)
(* included, is EntitySave's.  Deleted entities take no part.  The job's   *)
(* audit entries and log lines are left out.  "Faulty" definitions show a  *)
(* property can be violated.                                               *)
(***************************************************************************)
EXTENDS Naturals

CONSTANTS
    Haut, Hakukohteet,
    HakuOf,         \* the haku of each hakukohde
    Cron, Manual,   \* the scheduled run, and the runs started by hand
    MaxDay,         \* bound: days told apart
    Scheduled, Ended,  \* bound: the dates people choose from, of archiving and of hakuajat
    MaxEdits,       \* bound: saves by people
    MaxStops        \* bound: runs or announcements that fail

ASSUME HakuOfAssumption == HakuOf \in [Hakukohteet -> Haut]
ASSUME RunsAssumption == Cron \notin Manual

Runs == {Cron} \cup Manual
Days == 0..MaxDay
None == MaxDay + 2              \* no such date; MaxDay + 1 is a date never reached
Dates == 0..None
ASSUME BoundsAssumption ==
    /\ MaxDay \in Nat /\ MaxEdits \in Nat /\ MaxStops \in Nat
    /\ Scheduled \subseteq Dates /\ Ended \subseteq Dates
Tilat == {"tallennettu", "julkaistu", "arkistoitu"}

VARIABLES
    day,
    haku,       \* tila, the scheduled date of archiving, the date ten months after the
                \* first of its hakuajat ends, and whether the job has archived it
    hakukohde,  \* the tila of each hakukohde
    run,
    due,        \* the cron task waits to be executed
    unindexed,  \* haut the job has archived and nobody has announced since
    lost,       \* of those, the ones whose announcement was lost with a stopped run,
                \* in the queue's failure, or in a run by hand
    edits, stops

vars == <<day, haku, hakukohde, run, due, unindexed, lost, edits, stops>>

(* touched: saved by people since the run listed the haut.                 *)
(* fresh: hakukohteet saved by people since the run listed them.           *)
Idle == [stage |-> "idle", haut |-> {}, hakukohteet |-> {}, touched |-> {}, fresh |-> {}]
Stages == {"idle", "hakukohteet", "archive", "haut", "announce"}

Published(a, k) == [tila |-> "julkaistu", ajastettu |-> a, kymmenenKk |-> k, ajettu |-> FALSE]

Init ==
    /\ day = 0
    /\ haku \in [Haut -> {Published(a, k) : a \in Scheduled, k \in Ended}]
    /\ hakukohde \in [Hakukohteet -> {"tallennettu", "julkaistu"}]
    /\ run = [r \in Runs |-> Idle]
    /\ due = FALSE
    /\ unindexed = {} /\ lost = {}
    /\ edits = 0 /\ stops = 0

-----------------------------------------------------------------------------
(* People and time                                                         *)

ValidStateChanges(tila) ==
    CASE tila = "tallennettu" -> {"julkaistu"}
      [] tila = "julkaistu"   -> {"tallennettu", "arkistoitu"}
      [] tila = "arkistoitu"  -> {"julkaistu"}

Touch(what, hakukohteet) ==
    [r \in Runs |-> IF run[r].stage = "idle" THEN run[r]
                    ELSE [run[r] EXCEPT !.touched = @ \cup what, !.fresh = @ \cup hakukohteet]]

(* A published haku scheduled for the future may be archived again. *)
ShouldDeleteSchedulerTimestamp(h) ==
    h.tila = "julkaistu" /\ h.ajastettu # None /\ day < h.ajastettu

(* Whoever saves a haku announces it.  Publishing a draft needs hakuajat that *)
(* end in the future.                                                         *)
SaveHaku(h) ==
    /\ edits < MaxEdits
    /\ \E tila \in {haku[h].tila} \cup ValidStateChanges(haku[h].tila), a \in Scheduled, k \in Ended :
         LET saved == [haku[h] EXCEPT !.tila = tila, !.ajastettu = a, !.kymmenenKk = k] IN
         /\ haku[h].tila = "tallennettu" /\ tila = "julkaistu" => day < k
         /\ haku' = [haku EXCEPT ![h] =
              IF ShouldDeleteSchedulerTimestamp(saved) THEN [saved EXCEPT !.ajettu = FALSE] ELSE saved]
    /\ run' = Touch({h}, {})
    /\ unindexed' = unindexed \ {h} /\ lost' = lost \ {h}
    /\ edits' = edits + 1
    /\ UNCHANGED <<day, hakukohde, due, stops>>

(* The haku of a published hakukohde needs only exist. *)
SaveHakukohde(k) ==
    /\ edits < MaxEdits
    /\ \E tila \in ValidStateChanges(hakukohde[k]) : hakukohde' = [hakukohde EXCEPT ![k] = tila]
    /\ run' = Touch({k}, {k})
    /\ edits' = edits + 1
    /\ UNCHANGED <<day, haku, due, unindexed, lost, stops>>

Midnight ==
    /\ day' = IF day < MaxDay THEN day + 1 ELSE day
    /\ due' = TRUE
    /\ UNCHANGED <<haku, hakukohde, run, unindexed, lost, edits, stops>>

-----------------------------------------------------------------------------
(* A run                                                                   *)

DateReached(h) == haku[h].ajastettu <= day \/ haku[h].kymmenenKk <= day

Archivable(h) == DateReached(h) /\ haku[h].tila = "julkaistu" /\ ~haku[h].ajettu

SelectArchivableHakuOids_Again ==                                 \* faulty
    {h \in Haut : DateReached(h) /\ haku[h].tila = "julkaistu"}

SelectArchivableHakuOids == {h \in Haut : Archivable(h)}

ListHaut(r) ==
    /\ run[r].stage = "idle"
    /\ IF r = Cron THEN due /\ due' = FALSE ELSE UNCHANGED due
    /\ run' = [run EXCEPT ![r] = IF SelectArchivableHakuOids = {} THEN Idle
         ELSE [Idle EXCEPT !.stage = "hakukohteet", !.haut = SelectArchivableHakuOids]]
    /\ UNCHANGED <<day, haku, hakukohde, unindexed, lost, edits, stops>>

SelectArchivableHakukohdeOids_Any(r) ==                           \* faulty
    {k \in Hakukohteet : hakukohde[k] = "julkaistu"}

SelectArchivableHakukohdeOids(r) ==
    {k \in Hakukohteet : HakuOf[k] \in run[r].haut /\ hakukohde[k] = "julkaistu"}

ListHakukohteet(r) ==
    /\ run[r].stage = "hakukohteet"
    /\ run' = [run EXCEPT ![r].stage = "archive", ![r].fresh = {},
                          ![r].hakukohteet = SelectArchivableHakukohdeOids(r)]
    /\ UNCHANGED <<day, haku, hakukohde, due, unindexed, lost, edits, stops>>

ArchiveHakukohteet_WhenAllPublished(r) ==                         \* faulty
    /\ run[r].stage = "archive"
    /\ hakukohde' = IF \E k \in run[r].hakukohteet : hakukohde[k] # "julkaistu" THEN hakukohde
                    ELSE [k \in Hakukohteet |-> IF k \in run[r].hakukohteet THEN "arkistoitu"
                                                ELSE hakukohde[k]]
    /\ run' = [run EXCEPT ![r].stage = "haut"]
    /\ UNCHANGED <<day, haku, due, unindexed, lost, edits, stops>>

(* update hakukohteet ... where oid in (...) and tila = 'julkaistu' *)
ArchiveHakukohteet(r) ==
    /\ run[r].stage = "archive"
    /\ hakukohde' = [k \in Hakukohteet |->
         IF k \in run[r].hakukohteet /\ hakukohde[k] = "julkaistu" THEN "arkistoitu" ELSE hakukohde[k]]
    /\ run' = [run EXCEPT ![r].stage = "haut"]
    /\ UNCHANGED <<day, haku, due, unindexed, lost, edits, stops>>

Updated(r) == {h \in run[r].haut : haku[h].tila = "julkaistu"}

ArchiveHaut_OnlyUpdatedAnnounced(r) ==                            \* faulty
    /\ run[r].stage = "haut"
    /\ haku' = [h \in Haut |-> IF h \in Updated(r)
                               THEN [haku[h] EXCEPT !.tila = "arkistoitu", !.ajettu = TRUE] ELSE haku[h]]
    /\ run' = [run EXCEPT ![r] = IF r = Cron /\ Updated(r) = run[r].haut
                                 THEN [@ EXCEPT !.stage = "announce"] ELSE Idle]
    /\ unindexed' = unindexed \cup Updated(r)
    /\ lost' = IF r = Cron THEN lost \ Updated(r) ELSE lost \cup Updated(r)
    /\ UNCHANGED <<day, hakukohde, due, edits, stops>>

(* update haut ... and tila = 'julkaistu'.  The scheduled run goes on to     *)
(* announce every haku it listed; a run by hand ends here.                   *)
ArchiveHaut(r) ==
    /\ run[r].stage = "haut"
    /\ haku' = [h \in Haut |-> IF h \in Updated(r)
                               THEN [haku[h] EXCEPT !.tila = "arkistoitu", !.ajettu = TRUE] ELSE haku[h]]
    /\ run' = [run EXCEPT ![r] = IF r = Cron THEN [@ EXCEPT !.stage = "announce"] ELSE Idle]
    /\ unindexed' = unindexed \cup Updated(r)
    /\ lost' = IF r = Cron THEN lost \ Updated(r) ELSE lost \cup Updated(r)
    /\ UNCHANGED <<day, hakukohde, due, edits, stops>>

(* hakuService.indexByOid; a failing queue is a warning nobody reads here. *)
Announce(h) ==
    /\ run[Cron].stage = "announce" /\ h \in run[Cron].haut
    /\ run' = [run EXCEPT ![Cron] = IF run[Cron].haut = {h} THEN Idle
                                    ELSE [run[Cron] EXCEPT !.haut = @ \ {h}]]
    /\ \/ unindexed' = unindexed \ {h} /\ lost' = lost \ {h} /\ UNCHANGED stops
       \/ /\ stops < MaxStops /\ stops' = stops + 1
          /\ lost' = lost \cup ({h} \cap unindexed) /\ UNCHANGED unindexed
    /\ UNCHANGED <<day, haku, hakukohde, due, edits>>

Stop_Picked(r) ==                                                 \* faulty
    /\ run[r].stage # "idle" /\ stops < MaxStops
    /\ run' = [run EXCEPT ![r].stage = "stopped"]
    /\ UNCHANGED <<day, haku, hakukohde, due, unindexed, lost, edits, stops>>

(* A statement failed, which ends the run with a line in the log, or the     *)
(* process died, after which the scheduler executes its task again.          *)
Stop(r) ==
    /\ run[r].stage # "idle" /\ stops < MaxStops
    /\ run' = [run EXCEPT ![r] = Idle]
    /\ due' \in IF r = Cron THEN {due, TRUE} ELSE {due}
    /\ lost' = lost \cup (IF run[r].stage = "announce" THEN run[r].haut \cap unindexed ELSE {})
    /\ stops' = stops + 1
    /\ UNCHANGED <<day, haku, hakukohde, unindexed, edits>>

RunStep(r) == ListHaut(r) \/ ListHakukohteet(r) \/ ArchiveHakukohteet(r) \/ ArchiveHaut(r)
AnnounceStep == \E h \in Haut : Announce(h)

Next ==
    \/ \E h \in Haut : SaveHaku(h)
    \/ \E k \in Hakukohteet : SaveHakukohde(k)
    \/ \E r \in Runs : RunStep(r) \/ Stop(r)
    \/ AnnounceStep
    \/ Midnight

(* The scheduler executes a task that is due, and a run goes on until it     *)
(* stops.  Nobody has to start a run by hand.                                *)
Fairness == WF_vars(Midnight) /\ WF_vars(RunStep(Cron)) /\ WF_vars(AnnounceStep)

Spec == Init /\ [][Next]_vars /\ Fairness

-----------------------------------------------------------------------------
(* Properties                                                              *)

TypeOK ==
    /\ day \in Days /\ due \in BOOLEAN /\ edits \in Nat /\ stops \in Nat
    /\ haku \in [Haut -> [tila : Tilat, ajastettu : Dates, kymmenenKk : Dates, ajettu : BOOLEAN]]
    /\ hakukohde \in [Hakukohteet -> Tilat]
    /\ run \in [Runs -> [stage : Stages, haut : SUBSET Haut, hakukohteet : SUBSET Hakukohteet,
                         touched : SUBSET (Haut \cup Hakukohteet), fresh : SUBSET Hakukohteet]]
    /\ unindexed \in SUBSET Haut /\ lost \in SUBSET Haut
    /\ \A r \in Runs : \A k \in run[r].hakukohteet : run[r].stage # "announce" => HakuOf[k] \in run[r].haut

ArchivesHaku(r, h) == /\ run[r].stage = "haut" /\ run'[r].stage # "haut"
                      /\ haku[h].tila = "julkaistu" /\ haku'[h].tila = "arkistoitu"

(* A haku the job archived and a person published again stays published,     *)
(* however many runs overlap, until a person gives it a date to come or      *)
(* saves it after a run listed it.                                           *)
RestoredStaysPublished ==
    [][\A r \in Runs, h \in Haut :
         ArchivesHaku(r, h) => ~haku[h].ajettu \/ h \in run[r].touched]_vars

(* "Jos tyhjä, arkistoidaan automaattisesti 10 kk hakuajan päättymisen       *)
(* jälkeen": a haku with a date of archiving is not archived before it.      *)
(* The query goes by whichever date comes first.                             *)
ScheduledDateIsKept ==
    [][\A r \in Runs, h \in Haut :
         ArchivesHaku(r, h) /\ haku[h].ajastettu # None /\ h \notin run[r].touched
           => haku[h].ajastettu <= day]_vars

(* When the job archives a haku, the only hakukohteet of it still published  *)
(* are those a person saved after the run listed the hakukohteet.            *)
NothingLeftPublished ==
    [][\A r \in Runs, k \in Hakukohteet :
         ArchivesHaku(r, HakuOf[k]) /\ hakukohde[k] = "julkaistu" => k \in run[r].fresh]_vars

(* An archived haku the index does not know of yet is either on the list of  *)
(* the scheduled run announcing it, or its announcement is known to be lost. *)
IndexLagIsExplained ==
    unindexed \subseteq lost \cup {h \in run[Cron].haut : run[Cron].stage = "announce"}

(* However runs stop, overlap and race with people, a haku that the query    *)
(* finds, as either of its dates has come, is in the end archived, or given  *)
(* other dates or another state by a person.                                 *)
DueIsArchived ==
    \A h \in Haut : Archivable(h) ~> ~(DateReached(h) /\ haku[h].tila = "julkaistu")
=============================================================================
