----------------------------- MODULE ModelTraining -----------------------------
(***************************************************************************)
(* The evolved model: DailyReportService harvests completed episodes into  *)
(* the file of TrainingDatasetStore, rebuilds the model and announces that *)
(* it may be promoted; ModelPromotionService promotes and demotes it.  The *)
(* daily thread and the Telegram thread interleave; the process may die    *)
(* inside a write.                                                         *)
(***************************************************************************)
EXTENDS Optional, Naturals, Sequences, FiniteSets

CONSTANTS
  Episode,           \* goal.completed episodes that will be recorded
  HarvestLimit,      \* how many of the newest episodes harvest looks at
  MinExamples,       \* the examples a promotion asks for
  MaxCrashes         \* bound: crashes

VARIABLES
  history,           \* the episodes, oldest first
  lines,             \* dataset.jsonl: an episode, or None for a line that cannot be parsed
  cut,               \* the file ends inside a line
  known,             \* TrainingDatasetStore._known_episode_ids
  lastBuild,         \* LocalModelBuilder.last_build
  fresh,             \* the daily thread has harvested and not yet built
  reportDue,         \* the daily thread has reported and not yet looked at readiness
  active,            \* ActiveModelStore._active_model
  activeFile,        \* its file
  notified,          \* ModelPromotionService._already_notified
  promoteAsked,      \* a promotion waits for its confirmation
  crashCount

trainingVars == <<history, lines, cut, known, lastBuild, fresh, reportDue, active, activeFile,
                  notified, promoteAsked, crashCount>>

Models == {"base", "evolved"}

TrainingTypeOK ==
  /\ history \in Seq(Episode) /\ lines \in Seq(Maybe(Episode)) /\ cut \in BOOLEAN
  /\ known \subseteq Episode /\ lastBuild \in {"none", "ok", "failed"}
  /\ fresh \in BOOLEAN /\ reportDue \in BOOLEAN
  /\ active \in Models /\ activeFile \in Models \cup {"corrupt"}
  /\ notified \in BOOLEAN /\ promoteAsked \in BOOLEAN /\ crashCount \in 0 .. MaxCrashes

TrainingInit ==
  /\ history = <<>> /\ lines = <<>> /\ cut = FALSE /\ known = {}
  /\ lastBuild = "none" /\ fresh = FALSE /\ reportDue = FALSE
  /\ active = "base" /\ activeFile = "base"
  /\ notified = FALSE /\ promoteAsked = FALSE /\ crashCount = 0

Occurs(e, s) == \E i \in DOMAIN s : s[i] = e

\* The cognitive cycle records goal.completed
CompleteGoal(e) ==
  /\ ~Occurs(e, history)
  /\ history' = Append(history, e)
  /\ UNCHANGED <<lines, cut, known, lastBuild, fresh, reportDue, active, activeFile, notified,
                 promoteAsked, crashCount>>

------------------------------------------------------------------------------
(* The dataset *)

\* Newest first: the episodes harvest would add
Unharvested ==
  LET size == Len(history)
      recent == {i \in 1 .. size : i > size - HarvestLimit /\ history[i] \notin known}
  IN [j \in 1 .. Cardinality(recent) |->
        history[CHOOSE i \in recent : Cardinality({k \in recent : k > i}) = j - 1]]

\* The file after these examples: the first is glued to a line that was cut
Written(new) ==
  IF cut /\ new # <<>> THEN lines \o <<None>> \o Tail(new) ELSE lines \o new

AtRest == ~fresh /\ ~reportDue

\* run_once: harvest, and the build that follows it when there was something new
Harvest ==
  /\ AtRest
  /\ LET new == Unharvested
     IN /\ lines' = Written(new) /\ cut' = (cut /\ new = <<>>)
        /\ known' = known \cup {new[j] : j \in DOMAIN new}
        /\ fresh' = (new # <<>>) /\ reportDue' = (new = <<>>)
  /\ UNCHANGED <<history, lastBuild, active, activeFile, notified, promoteAsked, crashCount>>

\* harvest fails when the buffer is flushed: the ids are remembered, the lines lost
HarvestFails ==
  /\ AtRest /\ Unharvested # <<>>
  /\ known' = known \cup {Unharvested[j] : j \in DOMAIN Unharvested}
  /\ UNCHANGED <<history, lines, cut, lastBuild, fresh, reportDue, active, activeFile, notified,
                 promoteAsked, crashCount>>

\* read_all raises at a line it cannot parse, although loading skips such a line
Readable == ~cut /\ ~Occurs(None, lines)

\* LocalModelBuilder.build.  It raises on a file it cannot read and when the command
\* is missing or takes too long; run_once survives that and the last build stays.
BuildModel ==
  /\ fresh
  /\ fresh' = FALSE /\ reportDue' = TRUE
  /\ lastBuild' \in {lastBuild} \cup (IF Readable THEN {"ok", "failed"} ELSE {})
  /\ UNCHANGED <<history, lines, cut, known, active, activeFile, notified, promoteAsked, crashCount>>

------------------------------------------------------------------------------
(* Promotion *)

\* evaluate_readiness.  Its third criterion, a score adjustment below -1.0, is
\* never met: the lowest adjustment is -0.2.
Ready == Cardinality(known) >= MinExamples /\ lastBuild = "ok"

\* notify_if_newly_ready, or the exception run_once logs
NotifyIfNewlyReady ==
  /\ reportDue
  /\ reportDue' = FALSE
  /\ notified' = IF ~Readable THEN notified ELSE Ready /\ (notified \/ active = "base")
  /\ UNCHANGED <<history, lines, cut, known, lastBuild, fresh, active, activeFile, promoteAsked,
                 crashCount>>

\* /promote_model
AskPromotion ==
  /\ Readable /\ Ready /\ ~promoteAsked
  /\ promoteAsked' = TRUE
  /\ UNCHANGED <<history, lines, cut, known, lastBuild, fresh, reportDue, active, activeFile, notified,
                 crashCount>>

CancelPromotion ==
  /\ promoteAsked
  /\ promoteAsked' = FALSE
  /\ UNCHANGED <<history, lines, cut, known, lastBuild, fresh, reportDue, active, activeFile, notified,
                 crashCount>>

\* _execute_promote: what made the model ready is not looked at again
ExecutePromote ==
  /\ promoteAsked
  /\ promoteAsked' = FALSE
  /\ active' = "evolved" /\ activeFile' = "evolved"
  /\ UNCHANGED <<history, lines, cut, known, lastBuild, fresh, reportDue, notified, crashCount>>

\* /demote_model, without a confirmation
Demote ==
  /\ active = "evolved"
  /\ active' = "base" /\ activeFile' = "base" /\ notified' = FALSE
  /\ UNCHANGED <<history, lines, cut, known, lastBuild, fresh, reportDue, promoteAsked, crashCount>>

------------------------------------------------------------------------------
(* Crashes *)

\* Mutant of KnownAfterLoad: the file is not read.
KnownNothing(l) == {}

\* The constructor of the dataset store: the ids of the lines that parse
KnownAfterLoad(l) == {e \in Episode : Occurs(e, l)}

\* The process dies and starts again, with this file and this much of the last line.
\* The start of the store reads a cut line as one it cannot parse.
Reload(l, c, file) ==
  /\ crashCount < MaxCrashes
  /\ crashCount' = crashCount + 1
  /\ lines' = l /\ cut' = c /\ activeFile' = file
  /\ known' = KnownAfterLoad(l)
  /\ active' = IF file = "corrupt" THEN "base" ELSE file
  /\ lastBuild' = "none" /\ fresh' = FALSE /\ reportDue' = FALSE
  /\ notified' = FALSE /\ promoteAsked' = FALSE
  /\ UNCHANGED history

CrashTraining == Reload(lines, cut, activeFile)

\* Inside the write of harvest: some examples are complete and the next is cut
CrashInHarvest ==
  /\ AtRest /\ Unharvested # <<>>
  /\ \E n \in 0 .. Len(Unharvested) - 1 :
        Reload(Written(SubSeq(Unharvested, 1, n)), TRUE, activeFile)

\* Inside the write of set_active, by a promotion or by reset_to_base
CrashInSetActive ==
  /\ promoteAsked \/ active = "evolved"
  /\ Reload(lines, cut, "corrupt")

TrainingNext ==
  \/ \E e \in Episode : CompleteGoal(e)
  \/ Harvest \/ HarvestFails \/ BuildModel \/ NotifyIfNewlyReady
  \/ AskPromotion \/ CancelPromotion \/ ExecutePromote \/ Demote
  \/ CrashTraining \/ CrashInHarvest \/ CrashInSetActive

TrainingSpec == TrainingInit /\ [][TrainingNext]_trainingVars

------------------------------------------------------------------------------
\* No episode is in the training file twice, whatever crashes, failed writes and
\* lines cut short came between the harvests (the ids harvest skips, and the ids
\* the constructor reads back).
EachEpisodeOnce ==
  \A i, j \in DOMAIN lines : lines[i] = lines[j] /\ lines[i] # None => i = j
================================================================================
