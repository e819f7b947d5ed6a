------------------------------ MODULE Archive -------------------------------
(***************************************************************************)
(* The nightly export (data/parquet_export.py, jobs/daily_parquet_export): *)
(* the answers of one day and scene become a file, and a manifest beside it*)
(* says what was written, so that the next run can leave the file alone.   *)
(* Both are written under a temporary name and moved. A run is a process   *)
(* that may be killed; nothing keeps two runs apart, and both use the same *)
(* temporary names. A hash stands for the rows it was computed from.       *)
(***************************************************************************)
EXTENDS Integers, FiniteSets

CONSTANTS NONE, Exporters, Answers, Scores, MaxExports

VARIABLES
  recorded,  \* the answers of the day and their scores, as the database has them
  disk,      \* what is under the four names
  export,    \* the runs
  begun,     \* how many there were
  alone      \* no two were ever under way at once

vars == <<recorded, disk, export, begun, alone>>

(* The bytes of a file: whole, or part of what someone began to write. *)
Torn == [whole |-> FALSE, rows |-> NONE]
Bytes(rows) == [whole |-> TRUE, rows |-> rows]
Idle == [at |-> "idle", rows |-> NONE, file |-> NONE, mixed |-> FALSE]
Resting == {"idle", "written", "unchanged", "empty", "failed"}

Init ==
  /\ recorded = [a \in {} |-> NONE]
  /\ disk = [temporary |-> NONE, parquet |-> NONE, draft |-> NONE, manifest |-> NONE]
  /\ export = [e \in Exporters |-> Idle] /\ begun = 0 /\ alone = TRUE

-----------------------------------------------------------------------------
(* What the ledgers add meanwhile: an answer of that day that is committed *)
(* late, and a score beside it; the row shows the latest original score.   *)
Answered(a) ==
  /\ a \notin DOMAIN recorded
  /\ recorded' = [b \in DOMAIN recorded \cup {a} |-> IF b = a THEN NONE ELSE recorded[b]]
  /\ UNCHANGED <<disk, export, begun, alone>>
Scored(a, s) ==
  /\ a \in DOMAIN recorded /\ recorded[a] # s
  /\ recorded' = [recorded EXCEPT ![a] = s] /\ UNCHANGED <<disk, export, begun, alone>>

-----------------------------------------------------------------------------
Goes(e, at) == export' = [export EXCEPT ![e].at = at] /\ UNCHANGED <<recorded, begun, alone>>

(* _fetch_rows: one statement. Without rows nothing is touched. *)
Fetch(e) ==
  /\ export[e].at \in Resting /\ begun < MaxExports
  /\ export' = [export EXCEPT ![e] = [Idle EXCEPT !.at = IF recorded = [a \in {} |-> NONE] THEN "empty" ELSE "fetched",
                                                  !.rows = recorded]]
  /\ begun' = begun + 1
  /\ alone' = (alone /\ \A f \in Exporters : export[f].at \in Resting)
  /\ UNCHANGED <<recorded, disk>>

(* _read_manifest: the same rows were written before. *)
Judge(e) ==
  /\ export[e].at = "fetched"
  /\ Goes(e, IF disk.manifest = export[e].rows THEN "unchanged" ELSE "stale")
  /\ UNCHANGED disk

(* write_table opens the temporary file, which cuts whatever was in it, and*)
(* is done when it is closed; who shares a file with another writes into   *)
(* the other's bytes.                                                      *)
Sharing(e) == {f \in Exporters \ {e} : export[f].at = "writing" /\ export[f].file = "temporary"}
Open(e) ==
  /\ export[e].at = "stale"
  /\ disk' = [disk EXCEPT !.temporary = Torn]
  /\ export' = [f \in Exporters |->
       IF f = e THEN [export[e] EXCEPT !.at = "writing", !.file = "temporary", !.mixed = Sharing(e) # {}]
       ELSE IF f \in Sharing(e) THEN [export[f] EXCEPT !.mixed = TRUE] ELSE export[f]]
  /\ UNCHANGED <<recorded, begun, alone>>
Close(e) ==
  /\ export[e].at = "writing"
  /\ disk' = IF export[e].file = "gone" THEN disk
             ELSE [disk EXCEPT ![export[e].file] = IF export[e].mixed THEN Torn ELSE Bytes(export[e].rows)]
  /\ Goes(e, "closed")

(* os.replace: the file takes the name, whoever is still writing it; it    *)
(* fails if another run has moved it already.                              *)
Moved(f) == CASE f = "temporary" -> "parquet" [] f = "parquet" -> "gone" [] OTHER -> f
Replace(e) ==
  /\ export[e].at = "closed"
  /\ IF disk.temporary = NONE THEN Goes(e, "failed") /\ UNCHANGED disk
     ELSE /\ disk' = [disk EXCEPT !.parquet = disk.temporary, !.temporary = NONE]
          /\ export' = [f \in Exporters |-> [export[f] EXCEPT !.file = Moved(@), !.at = IF f = e THEN "moved" ELSE @]]
          /\ UNCHANGED <<recorded, begun, alone>>

(* _write_manifest_atomic, after the file. *)
Note(e) ==
  /\ export[e].at = "moved"
  /\ disk' = [disk EXCEPT !.draft = export[e].rows] /\ Goes(e, "noted")
Confirm(e) ==
  /\ export[e].at = "noted"
  /\ IF disk.draft = NONE THEN Goes(e, "failed") /\ UNCHANGED disk
     ELSE disk' = [disk EXCEPT !.manifest = disk.draft, !.draft = NONE] /\ Goes(e, "written")

(* The process is killed, or the disk is full: what it has written stays.  *)
Crash(e) == export[e].at \notin Resting /\ Goes(e, "failed") /\ UNCHANGED disk

Next ==
  \/ \E a \in Answers : Answered(a) \/ \E s \in Scores : Scored(a, s)
  \/ \E e \in Exporters :
       \/ Fetch(e) \/ Judge(e) \/ Open(e) \/ Close(e) \/ Replace(e) \/ Note(e) \/ Confirm(e) \/ Crash(e)
Spec == Init /\ [][Next]_vars

-----------------------------------------------------------------------------
(* Runs that were killed anywhere, but never overlapped: a reader finds a  *)
(* whole file or none, and once a run has ended well, whether it wrote or  *)
(* found nothing to do, every answer that it read is in the file.          *)
ArchiveHolds ==
  alone => /\ disk.parquet = NONE \/ disk.parquet.whole
           /\ \A e \in Exporters : export[e].at \in {"written", "unchanged"} =>
                disk.parquet # NONE /\ DOMAIN export[e].rows \subseteq DOMAIN disk.parquet.rows
=============================================================================
