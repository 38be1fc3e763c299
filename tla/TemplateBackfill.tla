--------------------------- MODULE TemplateBackfill ---------------------------
(***************************************************************************)
(* The Eralyon backfill of one template (backend/src/backfill/import.ts):  *)
(* a job that imports one tile of one snapshot per alarm, under the        *)
(* archive operations of its server.  An export reads its state in pages;  *)
(* a restore puts them into another server, where the job goes on, or      *)
(* discards them.                                                          *)
(*                                                                         *)
(* Commands that change the state, and the steps, run one at a time        *)
(* (blockConcurrencyWhile, exclusive); between their awaits the database   *)
(* changes, operations begin and end, calls fail and the object dies.      *)
(* Each tile has artwork; what a frame counts is one.                      *)
(***************************************************************************)
EXTENDS Integers

CONSTANTS
    MaxTiles,      \* tiles that the template covers
    MaxSnapshots,  \* snapshots of the external archive, in the order of time
    Budget         \* bounds: how many "requests", "changes" of the template, "exports"
                   \* and "throws" (commands that fail or die) there may be

ASSUME TemplateBackfillAssumption ==
    /\ MaxTiles \in Nat \ {0} /\ MaxSnapshots \in Nat \ {0}
    /\ Budget \subseteq [{"requests", "changes", "exports", "throws"} -> Nat]

VARIABLES
    kept,       \* the durable keys: the job, the samples and the frames
    armed,      \* whether an alarm is set, or one that fired is on its way
    command,    \* the command under way
    admitted,   \* requests that passed the routes' archive gate
    template,   \* its row, and the first snapshots too late to import
    operation,  \* the archive operation that holds the server
    archive,    \* what it has of the keys, and which
    left,       \* what is left of the bounds
    unsaved,    \* history: frames that were counted and not stored
    late        \* history: a request that was admitted before the operation wrote

backfillVars == <<kept, armed, command, admitted, template, operation, archive, left, unsaved, late>>

Planned == 1 .. MaxTiles
Snapshot == 1 .. MaxSnapshots
Cell == Snapshot \X Planned
\* No sample, and one whose counts are null.
NoSample == -1
Unknown == -2

\* completed counts the tiles of all snapshots since "from"; counted are the
\* frames of the current snapshot, and incomplete that one of them is missing.
NoImport == [status |-> "none", from |-> 1, to |-> 1, completed |-> 0, failed |-> FALSE,
             counted |-> 0, incomplete |-> FALSE]
Page == {"job", "samples", "frames"}
Nothing == [job |-> NoImport, samples |-> [s \in Snapshot |-> NoSample],
            frames |-> [c \in Cell |-> "none"]]
NoArchive == [pages |-> {}, keys |-> Nothing]
\* step: what its job was read as, and the observation of its tile.
NoCommand == [at |-> "idle", held |-> NoImport, seen |-> "none", failed |-> FALSE]

BackfillTypeOK ==
    /\ kept.job.status \in {"none", "running", "completed", "failed", "cancelled"}
    /\ kept.job.completed \in 0 .. MaxSnapshots * MaxTiles /\ kept.job.counted \in Nat
    /\ kept.samples \in [Snapshot -> {NoSample, Unknown} \cup Nat]
    /\ kept.frames \in [Cell -> {"none", "gap", "image"}]
    /\ armed \in BOOLEAN
    /\ command.at \in {"idle", "gate", "read", "fetch", "sample", "save", "rearm", "schedule",
                       "start", "wake", "forget"}
    /\ command.seen \in {"none", "gap", "image"}
    /\ admitted \subseteq {"start", "cancel"}
    /\ template \in [there : BOOLEAN, live : 1 .. MaxSnapshots + 1, cut : 1 .. MaxSnapshots + 1]
    /\ operation \in {"none", "export", "import", "discard", "discarded"}
    /\ archive.pages \subseteq Page

BackfillInit ==
    /\ kept = Nothing /\ armed = FALSE /\ command = NoCommand /\ admitted = {}
    /\ template \in [there : {TRUE}, live : {MaxSnapshots + 1}, cut : {MaxSnapshots + 1}]
    /\ operation = "none" /\ archive = NoArchive /\ left \in Budget /\ unsaved = {} /\ late = FALSE

Spend(what) == left[what] > 0 /\ left' = [left EXCEPT ![what] = @ - 1]
outside == <<admitted, template, operation, archive, left>>

\* The place of a job: its snapshot, and its tile.
At(j) == <<j.from + j.completed \div MaxTiles, (j.completed % MaxTiles) + 1>>
LastTile(j) == (j.completed + 1) % MaxTiles = 0
Total(j) == (j.to - j.from + 1) * MaxTiles
Cancelled(j) == [j EXCEPT !.status = IF @ = "running" THEN "cancelled" ELSE @]
Ended(j, failed) == [j EXCEPT !.status = IF failed THEN "failed" ELSE "completed"]

-----------------------------------------------------------------------------
(* The outside world.                                                      *)

\* Native observations are committed, the template is finished, frozen, opened
\* again or deleted: all of it is fenced while an operation holds the server.
ChangeTemplate ==
    /\ operation = "none" /\ template.there /\ Spend("changes")
    /\ \/ \E s \in Snapshot : s < template.live /\ template' = [template EXCEPT !.live = s]
       \/ \E s \in 1 .. MaxSnapshots + 1 : s # template.cut /\ template' = [template EXCEPT !.cut = s]
       \/ template' = [template EXCEPT !.there = FALSE]
    /\ UNCHANGED <<kept, armed, command, admitted, operation, archive, unsaved, late>>

\* The route reads the gate; its command may come any time later.
Admit ==
    /\ operation = "none" /\ Spend("requests")
    /\ \E r \in {"start", "cancel"} \ admitted : admitted' = admitted \cup {r}
    /\ UNCHANGED <<kept, armed, command, template, operation, archive, unsaved, late>>

\* An operation that ends was finished, cancelled or activated.
BeginExport ==
    /\ operation = "none" /\ Spend("exports")
    /\ operation' = "export"
    /\ UNCHANGED <<kept, armed, command, admitted, template, archive, unsaved, late>>

\* The keys in their order.
NextPage(pages) == CHOOSE p \in Page \ pages :
    /\ p = "samples" => "job" \in pages
    /\ p = "frames" => "samples" \in pages

\* exportState, which waits for its turn.
ReadPage ==
    /\ operation = "export" /\ archive.pages # Page /\ command.at = "idle"
    /\ LET p == NextPage(archive.pages)
       IN  archive' = [pages |-> archive.pages \cup {p},
                       keys |-> [archive.keys EXCEPT ![p] = kept[p]]]
    /\ UNCHANGED <<kept, armed, command, admitted, template, operation, left,
                   unsaved, late>>

EndExport ==
    /\ operation = "export"
    /\ operation' = "none" /\ archive' = NoArchive /\ late' = FALSE
    /\ UNCHANGED <<kept, armed, command, admitted, template, left, unsaved>>

\* The rows of a whole archive are restored into an empty server.
BeginImport ==
    /\ operation = "export" /\ archive.pages = Page
    /\ operation' = "import" /\ archive' = [archive EXCEPT !.pages = {}]
    /\ kept' = Nothing /\ armed' = FALSE /\ command' = NoCommand /\ admitted' = {} /\ late' = FALSE
    /\ UNCHANGED <<template, left, unsaved>>

\* importState: the keys, then the alarm of a running job.
ImportPage ==
    /\ operation = "import" /\ archive.pages # Page /\ command.at = "idle"
    /\ LET p == NextPage(archive.pages)
       IN  /\ kept' = [kept EXCEPT ![p] = archive.keys[p]]
           /\ IF p = "job" /\ archive.keys.job.status = "running"
              THEN command' = [NoCommand EXCEPT !.at = "wake"] /\ UNCHANGED archive
              ELSE archive' = [archive EXCEPT !.pages = @ \cup {p}] /\ UNCHANGED command
    /\ UNCHANGED <<armed, admitted, template, operation, left, unsaved, late>>
WakeImported ==
    /\ command.at = "wake"
    /\ armed' = TRUE /\ command' = NoCommand
    /\ archive' = [archive EXCEPT !.pages = @ \cup {"job"}]
    /\ UNCHANGED <<kept, admitted, template, operation, left, unsaved, late>>

Activate ==
    /\ operation = "import" /\ archive.pages = Page
    /\ operation' = "none" /\ archive' = NoArchive
    /\ UNCHANGED <<kept, armed, command, admitted, template, left, unsaved, late>>

BeginDiscard ==
    /\ operation = "import"
    /\ operation' = "discard" /\ archive' = NoArchive
    /\ template' = [template EXCEPT !.there = FALSE]
    /\ UNCHANGED <<kept, armed, command, admitted, left, unsaved, late>>

\* discardState: as many keys as its limit, in their order, then the alarm.
DiscardPage ==
    /\ operation = "discard" /\ command.at = "idle"
    /\ \/ kept' = [kept EXCEPT !.job = NoImport] /\ UNCHANGED command
       \/ kept' = [Nothing EXCEPT !.frames = kept.frames] /\ UNCHANGED command
       \/ kept' = Nothing /\ command' = [NoCommand EXCEPT !.at = "forget"]
    /\ UNCHANGED <<armed, admitted, template, operation, archive, left, unsaved,
                   late>>
ForgetAlarm ==
    /\ command.at = "forget"
    /\ armed' = FALSE /\ command' = NoCommand /\ operation' = "discarded"
    /\ UNCHANGED <<kept, admitted, template, archive, left, unsaved, late>>

-----------------------------------------------------------------------------
(* start and cancel.                                                       *)

\* A command that writes under an export was admitted before it began.
Late == late' = (late \/ operation = "export")

\* A running job is woken; of the snapshots not too late one is the first.
StartReads ==
    /\ "start" \in admitted /\ command.at = "idle" /\ admitted' = admitted \ {"start"}
    /\ IF kept.job.status = "running"
       THEN armed' = TRUE /\ UNCHANGED command
       ELSE /\ UNCHANGED armed
            /\ LET last == (IF template.live < template.cut THEN template.live ELSE template.cut) - 1
               IN  IF ~template.there \/ last = 0 THEN UNCHANGED command
                   ELSE \E s \in 1 .. last :
                          command' = [NoCommand EXCEPT !.at = "schedule", !.held =
                              [NoImport EXCEPT !.status = "running", !.from = s, !.to = last]]
    /\ UNCHANGED <<kept, template, operation, archive, left, unsaved, late>>
StartArms ==
    /\ command.at = "schedule"
    /\ armed' = TRUE /\ command' = [command EXCEPT !.at = "start"]
    /\ UNCHANGED kept /\ UNCHANGED outside /\ UNCHANGED <<unsaved, late>>
StartPuts ==
    /\ command.at = "start"
    /\ kept' = [kept EXCEPT !.job = command.held] /\ command' = NoCommand /\ Late
    /\ UNCHANGED armed /\ UNCHANGED outside /\ UNCHANGED unsaved

Cancel ==
    /\ "cancel" \in admitted /\ command.at = "idle" /\ admitted' = admitted \ {"cancel"}
    /\ kept' = [kept EXCEPT !.job = Cancelled(@)]
    /\ IF kept' = kept THEN UNCHANGED late ELSE Late
    /\ UNCHANGED <<armed, command, template, operation, archive, left, unsaved>>

-----------------------------------------------------------------------------
(* step.                                                                   *)

stepRest == <<unsaved, late>>
StepTo(at) == command' = [command EXCEPT !.at = at]

\* Mutant: the alarm is set when the step has done its work.
BeginsUnarmed ==
    /\ armed /\ command.at = "idle"
    /\ armed' = FALSE
    /\ IF kept.job.status = "running"
       THEN command' = [NoCommand EXCEPT !.at = "gate", !.held = kept.job]
       ELSE UNCHANGED command
    /\ UNCHANGED kept /\ UNCHANGED outside /\ UNCHANGED stepRest
\* The alarm fires, and is set again before anything is read elsewhere.
StepBegins ==
    /\ armed /\ command.at = "idle"
    /\ IF kept.job.status = "running"
       THEN command' = [NoCommand EXCEPT !.at = "gate", !.held = kept.job] /\ UNCHANGED armed
       ELSE armed' = FALSE /\ UNCHANGED command
    /\ UNCHANGED kept /\ UNCHANGED outside /\ UNCHANGED stepRest

\* The read is fresh.
ReadGate ==
    /\ command.at = "gate"
    /\ IF operation = "none" THEN StepTo("read") ELSE command' = NoCommand
    /\ UNCHANGED <<kept, armed>> /\ UNCHANGED outside /\ UNCHANGED stepRest

\* The template, the first native observation, and the tile's observation.
StepReads ==
    /\ command.at = "read"
    /\ LET j == command.held
           snapshot == At(j)[1]
           stop(next) == kept' = [kept EXCEPT !.job = next] /\ command' = NoCommand
       IN  IF ~template.there THEN stop(Cancelled(kept.job))
           ELSE IF snapshot >= template.live THEN stop(Ended(j, j.failed))
           ELSE IF snapshot >= template.cut THEN stop(Cancelled(kept.job))
           ELSE /\ command' = [command EXCEPT !.seen = kept.frames[At(j)],
                     !.at = IF kept.frames[At(j)] = "none" THEN "fetch" ELSE "sample"]
                /\ UNCHANGED kept
    /\ UNCHANGED armed /\ UNCHANGED outside /\ UNCHANGED stepRest

\* The tile is fetched, compared and stored; what fails before its observation
\* is made leaves none, and when it is not stored it counts all the same.
FetchTileFrame ==
    /\ command.at = "fetch"
    /\ \/ \E seen \in {"gap", "image"} :
            /\ command' = [command EXCEPT !.at = "sample", !.seen = seen]
            /\ kept' = [kept EXCEPT !.frames[At(command.held)] = seen] /\ UNCHANGED unsaved
       \/ \E seen \in {"none", "gap", "image"} :
            /\ command' = [command EXCEPT !.at = "sample", !.seen = seen, !.failed = TRUE]
            /\ UNCHANGED kept
            /\ unsaved' = IF seen = "none" THEN unsaved ELSE unsaved \cup {At(command.held)}
    /\ UNCHANGED armed /\ UNCHANGED outside /\ UNCHANGED late

\* The job with this tile's counts.
Counted ==
    LET j == command.held
    IN  [j EXCEPT !.counted = @ + (IF command.seen = "image" THEN 1 ELSE 0),
                  !.incomplete = @ \/ command.seen # "image", !.failed = @ \/ command.failed]

\* Mutant: the counts go on into the next snapshot.
NextJobUnreset ==
    LET j == [Counted EXCEPT !.completed = @ + 1]
    IN  IF j.completed = Total(j) THEN Ended(j, j.failed) ELSE j
NextJob ==
    LET j == [Counted EXCEPT !.completed = @ + 1]
        next == IF LastTile(command.held) THEN [j EXCEPT !.counted = 0, !.incomplete = FALSE] ELSE j
    IN  IF j.completed = Total(j) THEN Ended(next, j.failed) ELSE next

\* After the last tile of a snapshot.
PutSample ==
    /\ command.at = "sample" /\ StepTo("save")
    /\ kept' = IF ~LastTile(command.held) THEN kept
               ELSE [kept EXCEPT !.samples[At(command.held)[1]] =
                       IF Counted.incomplete THEN Unknown ELSE Counted.counted]
    /\ UNCHANGED armed /\ UNCHANGED outside /\ UNCHANGED stepRest

SaveJob ==
    /\ command.at = "save"
    /\ kept' = [kept EXCEPT !.job = NextJob]
    /\ command' = [NoCommand EXCEPT !.at = IF NextJob.status = "running" THEN "rearm" ELSE "idle"]
    /\ UNCHANGED armed /\ UNCHANGED outside /\ UNCHANGED stepRest
Rearm ==
    /\ command.at = "rearm"
    /\ armed' = TRUE /\ command' = NoCommand
    /\ UNCHANGED kept /\ UNCHANGED outside /\ UNCHANGED stepRest

\* A call of a command rejects, or its object or process dies: an alarm that was
\* firing fires again.
Throws ==
    /\ command.at # "idle" /\ Spend("throws")
    /\ command' = NoCommand
    /\ UNCHANGED <<kept, armed, admitted, template, operation, archive, unsaved, late>>

-----------------------------------------------------------------------------
CommandStep ==
    \/ WakeImported \/ ForgetAlarm \/ StartArms \/ StartPuts
    \/ ReadGate \/ StepReads \/ FetchTileFrame \/ PutSample \/ SaveJob \/ Rearm

BackfillNext ==
    \/ ChangeTemplate \/ Admit \/ BeginExport \/ ReadPage \/ EndExport
    \/ BeginImport \/ ImportPage \/ Activate \/ BeginDiscard \/ DiscardPage
    \/ StartReads \/ Cancel \/ StepBegins \/ CommandStep \/ Throws

BackfillSpec == BackfillInit /\ [][BackfillNext]_backfillVars

\* Alarms fire, and a command that began goes on.
BackfillFair == WF_backfillVars(StepBegins) /\ WF_backfillVars(CommandStep)

-----------------------------------------------------------------------------
(* Properties.                                                             *)

Settled == operation \in {"none", "export"}

\* A sample that shows counts has counted every tile of its snapshot once, and
\* there is a frame for each, unless its put failed.
SamplesTrue ==
    Settled => \A s \in Snapshot : kept.samples[s] >= 0 =>
        /\ kept.samples[s] = MaxTiles
        /\ \A t \in Planned : kept.frames[<<s, t>>] = "image" \/ <<s, t>> \in unsaved

\* A job that has completed without a failure has an observation of every tile
\* of every snapshot before its end, whatever was retried, moved or restarted.
CompletedMeansAll ==
    Settled /\ kept.job.status = "completed" => \A n \in 0 .. kept.job.completed - 1 :
        kept.frames[At([kept.job EXCEPT !.completed = n])] # "none"

\* server-archives.md, Consistency: what an export has read of an import stands
\* still, whatever step was under way when it began; but a start or a cancel
\* that was admitted before may come later.
ArchivedStands ==
    operation = "export" /\ ~late =>
        \A p \in archive.pages : archive.keys[p] = kept[p]

\* A discarded restore leaves no key and no alarm of the import behind.
DiscardedClean == operation = "discarded" => kept = Nothing /\ ~armed

BackfillSound == BackfillTypeOK /\ SamplesTrue /\ CompletedMeansAll /\ ArchivedStands /\ DiscardedClean

\* A running job ends, across failures, restarts and a move to another server,
\* unless an operation holds the server.
JobsEnd == kept.job.status = "running" ~> kept.job.status # "running" \/ operation # "none"
=============================================================================
