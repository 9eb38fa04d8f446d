------------------------ MODULE CheckpointRetention ------------------------
(***************************************************************************)
(* cadgenesis.training.checkpoint.CheckpointManager: save() writes a file, *)
(* ranks it among the best, deletes the one that no longer is one of them, *)
(* and writes meta.json; the process may die between any two of these.  A  *)
(* new manager knows nothing of the files it finds.                        *)
(***************************************************************************)
EXTENDS Integers, Sequences, SequencesExt, FiniteSets, Lists

CONSTANTS
  Checkpoints,   \* the names checkpoint-{epoch}-{step}.pt
  BestFile,      \* best.pt
  Losses,
  KeepBest,      \* of the manager
  Keep,          \* of cleanup_checkpoints()
  MaxSaves       \* bound: calls of save() and save_best()

ASSUME RetentionAssumption == KeepBest \in Nat \ {0} /\ Keep \in Nat /\ Losses \subseteq Nat

VARIABLES
  folder,       \* the files, the one written last at the end
  best,       \* the best losses and their paths, the best one first
  lastPath,   \* of the manager; NoPath at first
  saving,     \* the call under way: what it ranks, and how far it came
  meta,       \* the last path and the best ones that meta.json lists; {} for no file
  saves,
  ranked,     \* ghost: all that this manager ranked
  unsure      \* ghost: the paths saved more than once, and those cleanup removed

retentionVars == <<folder, best, lastPath, saving, meta, saves, ranked, unsure>>

NoPath == "none"
NotSaving == [at |-> "idle", path |-> NoPath, loss |-> -1]
NoLoss == -1

RetentionInit ==
  /\ folder = <<>> /\ best = <<>> /\ lastPath = NoPath /\ saving = NotSaving
  /\ meta = {} /\ saves = 0 /\ ranked = {} /\ unsure = {}

PathNames == Checkpoints \cup {BestFile}

OnDisk(path) == path \in Range(folder)
Without(files, gone) == Filtered(files, PathNames \ gone)
Written(path) == Append(Without(folder, {path}), path)

\* The checkpoint is written, and named as the last one.
Save ==
  \E path \in Checkpoints, loss \in Losses \cup {NoLoss} :
    /\ saving.at = "idle" /\ saves < MaxSaves
    /\ folder' = Written(path) /\ lastPath' = path
    /\ unsure' = IF \E r \in ranked : r.path = path THEN unsure \cup {path} ELSE unsure
    /\ saving' = [at |-> IF loss = NoLoss THEN "meta" ELSE "rank", path |-> path, loss |-> loss]
    /\ saves' = saves + 1
    /\ UNCHANGED <<best, meta, ranked>>

\* save_best() copies the last checkpoint to best.pt, or leaves a placeholder there.
SaveBest ==
  \E loss \in Losses :
    /\ saving.at = "idle" /\ saves < MaxSaves
    /\ folder' = Written(BestFile)
    /\ saving' = [at |-> "rank", path |-> BestFile, loss |-> loss]
    /\ saves' = saves + 1
    /\ UNCHANGED <<best, lastPath, meta, ranked, unsure>>

RankedEntry == [path |-> saving.path, loss |-> saving.loss]

\* Mutant of Ranking: the losses are sorted as for a score.
RankingAsScore ==
  LET higher == {b \in Range(best) : b.loss >= saving.loss}
  IN  Filtered(best, higher) \o <<RankedEntry>> \o Filtered(best, Range(best) \ higher)

\* The sort is stable, and the new entry was appended: it comes after its equals.
Ranking ==
  LET lower == {b \in Range(best) : b.loss <= saving.loss}
  IN  Filtered(best, lower) \o <<RankedEntry>> \o Filtered(best, Range(best) \ lower)

\* _track_best() deletes what falls out of the ranking, best.pt excepted.
Rank ==
  LET stale == {Ranking[i].path : i \in KeepBest + 1 .. Len(Ranking)} IN
  /\ saving.at = "rank"
  /\ folder' = Without(folder, stale \ {BestFile})
  /\ best' = SubSeq(Ranking, 1, Min({KeepBest, Len(Ranking)}))
  /\ ranked' = ranked \cup {RankedEntry}
  /\ saving' = [saving EXCEPT !.at = "meta"]
  /\ UNCHANGED <<lastPath, meta, saves, unsure>>

WriteMeta ==
  /\ saving.at = "meta"
  /\ meta' = {lastPath} \cup {best[i].path : i \in DOMAIN best}
  /\ saving' = NotSaving
  /\ UNCHANGED <<folder, best, lastPath, saves, ranked, unsure>>

\* cleanup_checkpoints() deletes the oldest ones, whatever the manager ranks.
Cleanup ==
  LET files == Without(folder, {BestFile})
      oldest == {files[i] : i \in 1 .. Len(files) - Keep} IN
  /\ saving.at = "idle" /\ oldest # {}
  /\ folder' = Without(folder, oldest) /\ unsure' = unsure \cup oldest
  /\ UNCHANGED <<best, lastPath, saving, meta, saves, ranked>>

\* The process dies, and training is resumed by a new manager, which does not read
\* meta.json.
NewManager ==
  /\ best' = <<>> /\ lastPath' = NoPath /\ saving' = NotSaving
  /\ ranked' = {} /\ unsure' = {}
  /\ UNCHANGED <<folder, meta, saves>>

RetentionNext == Save \/ SaveBest \/ Rank \/ WriteMeta \/ Cleanup \/ NewManager

\* resume_from(): the last path, or the newest file.
ResumeFrom ==
  IF lastPath # NoPath THEN lastPath ELSE IF folder = <<>> THEN NoPath ELSE Last(folder)

RetentionSpec == RetentionInit /\ [][RetentionNext]_retentionVars

-----------------------------------------------------------------------------
(* Properties                                                              *)

RetentionTypeOK ==
  /\ Range(folder) \subseteq PathNames /\ Len(best) <= KeepBest
  /\ lastPath \in Checkpoints \cup {NoPath} /\ saving.at \in {"idle", "rank", "meta"}
  /\ unsure \subseteq Checkpoints

\* What the manager ranks among the best is on disk, and the lowest loss it ever ranked is
\* among them, unless a path was saved again, which leaves two entries for one file, or
\* cleanup took it.
BestIsKept ==
  unsure = {} =>
    /\ \A i \in DOMAIN best : OnDisk(best[i].path)
    /\ \A r \in ranked : \E i \in DOMAIN best : best[i].loss <= r.loss

\* "so training can resume exactly where it left off", "Path of the most recent
\* checkpoint": what resume_from() names is there.
ResumeExists == ResumeFrom # NoPath => OnDisk(ResumeFrom)
=============================================================================
