----------------------------- MODULE LocalApply -----------------------------
(***************************************************************************)
(* Applying a reviewed local candidate to the user's repository, and       *)
(* rolling it back: apply_selected, apply_creation, apply_mixed,           *)
(* rollback_selected, rollback_creation and rollback_mixed of              *)
(* src/phonton-worker/src/local_run/apply.rs, for journals of schema 2     *)
(* (existing files), 3 (one new file) and 4 (both).                        *)
(*                                                                         *)
(* One command runs at a time: the callers hold an exclusive lease.  It    *)
(* may end at any step: it is killed, a check refuses, or a system call    *)
(* fails (Stop), and the machine may lose power (PowerLoss).  Meanwhile    *)
(* the user edits the files it works on.                                   *)
(*                                                                         *)
(* A repository name has a content the processes see (live) and one that   *)
(* is certain to survive a loss of power (durable).  Backups, anchor and   *)
(* journal are written with a file and a directory sync before the next    *)
(* step, so they have one value.  A journal save is a single step: the     *)
(* file is replaced by a rename.                                           *)
(***************************************************************************)
EXTENDS Naturals, Sequences

CONSTANTS
    File,       \* existing files a candidate may edit
    New,        \* the file a candidate may create
    Requests,   \* the changesets under consideration
    OnWindows   \* created files are rolled back on Windows only

ASSUME NewAssumption == New \notin File
ASSUME RequestsAssumption ==
    \A r \in Requests :
        /\ r \in [edits : Seq(File), create : BOOLEAN]
        /\ r.create \/ r.edits # <<>>
        /\ \A i, j \in DOMAIN r.edits : r.edits[i] = r.edits[j] => i = j

VARIABLES
    request,    \* the reviewed changeset: files to edit in order, and New or not
    live,       \* content of each name as processes see it
    durable,    \* content of each name as last synced
    backups,    \* files whose original bytes are saved in the run directory
    anchor,     \* the new file's identity anchor exists
    journal,    \* apply.json
    cmd,        \* the running command and its local variables
    clean,      \* index, inventory, unchanged files and evidence as reviewed
    raced       \* history: files the user edited after their last check

disk == <<live, durable>>
saved == <<backups, anchor, journal>>
vars == <<request, live, durable, backups, anchor, journal, cmd, clean, raced>>

\* A file, its forward temporary and its rollback temporary: three names in
\* the file's directory.  New's forward temporary is a link to the anchor.
Source(f) == <<"source", f>>
Forward(f) == <<"forward", f>>
Backward(f) == <<"backward", f>>
Name == {"source", "forward", "backward"} \X (File \cup {New})

\* Bytes of a source: captured, candidate, or anything else.  New is absent
\* at first, "deleted" once the user has removed what was there.
SourceContent == {"before", "after", "other", "absent", "deleted"}
\* A temporary is "torn" from its creation to the sync of its bytes.
TempContent == {"absent", "torn", "full"}

Edits == {request.edits[i] : i \in DOMAIN request.edits}
All(content) == \A f \in Edits : live[Source(f)] = content
Present == live[Source(New)] \in {"after", "other"}
Published == live[Source(New)] = "after"
NoTornTemp == \A f \in Edits : "torn" \notin {live[Forward(f)], live[Backward(f)]}
\* classify_sources: every file has its captured or its candidate bytes.
Classified == \A f \in Edits : live[Source(f)] \in {"before", "after"}

Started == journal.state \in {"rollback_prepared", "rolled_back"}
Idle == [op |-> "none", pc |-> "idle", i |-> 1, done |-> {}, published |-> FALSE]

Put(n, content) ==
    /\ live' = [live EXCEPT ![n] = content]
    /\ UNCHANGED durable
Remove(names) ==
    /\ live' = [n \in Name |-> IF n \in names THEN "absent" ELSE live[n]]
    /\ UNCHANGED durable
Sync(names) ==
    /\ durable' = [n \in Name |-> IF n \in names THEN live[n] ELSE durable[n]]
    /\ UNCHANGED live
Save(record) == journal' = record /\ UNCHANGED <<backups, anchor>>

At(op, pc) == cmd.op = op /\ cmd.pc = pc
Goto(pc) == cmd' = [cmd EXCEPT !.pc = pc]
FirstFile(pc) == cmd' = [cmd EXCEPT !.pc = pc, !.i = 1]
NextFile(pc) == cmd' = [cmd EXCEPT !.pc = pc, !.i = @ + 1]
MoreFiles == cmd.i <= Len(request.edits)
ThisFile == request.edits[cmd.i]
Env == UNCHANGED <<request, clean, raced>>

Init ==
    /\ request \in Requests
    /\ live = [n \in Name |->
                  IF n \in {Source(f) : f \in File} THEN "before" ELSE "absent"]
    /\ durable = live
    /\ backups = {}
    /\ anchor = FALSE
    /\ journal = [state |-> "none", identity |-> FALSE, attempted |-> FALSE,
                  deletion |-> FALSE]
    /\ cmd = Idle
    /\ clean = TRUE
    /\ raced = {}

-----------------------------------------------------------------------------
(* Apply: the checks before the first write.                               *)

CanCreate ==
    IF journal.state = "none"
    THEN ~Present /\ live[Forward(New)] = "absent"
    ELSE /\ IF journal.attempted THEN Published ELSE ~Present
         /\ journal.identity \/ live[Forward(New)] = "absent"

\* Mutant: recorded temporaries are not verified.
CanApplyAnyTemp ==
    /\ clean
    /\ journal.state \in {"none", "prepared", "applied"}
    /\ IF journal.state = "none" THEN All("before") ELSE Edits \subseteq backups
    /\ request.create => CanCreate

CanApply ==
    /\ clean
    /\ journal.state \in {"none", "prepared", "applied"}
    /\ IF journal.state = "none"
       THEN All("before") /\ \A f \in Edits : live[Forward(f)] = "absent"
       ELSE NoTornTemp /\ Edits \subseteq backups
    /\ request.create => CanCreate

BeginApply ==
    /\ cmd = Idle
    /\ CanApply
    /\ cmd' = [Idle EXCEPT !.op = "apply",
                           !.pc = IF journal.state = "none" THEN "backup" ELSE "classify",
                           !.published = request.create /\ Published]
    /\ UNCHANGED <<disk, saved>> /\ Env

WriteBackup ==
    /\ At("apply", "backup") /\ MoreFiles
    /\ backups' = backups \cup {ThisFile}
    /\ NextFile("backup")
    /\ UNCHANGED <<disk, anchor, journal>> /\ Env

SavePrepared ==
    /\ At("apply", "backup") /\ ~MoreFiles
    /\ Save([journal EXCEPT !.state = "prepared"])
    /\ Goto("classify")
    /\ UNCHANGED disk /\ Env

\* Which files are already applied is remembered for the whole command.
Classify ==
    /\ At("apply", "classify")
    /\ Classified
    /\ journal.state = "applied" => All("after") /\ (request.create => cmd.published)
    /\ cmd' = [cmd EXCEPT
                  !.i = 1,
                  !.done = {f \in Edits : live[Source(f)] = "after"},
                  !.pc = IF journal.state = "applied" THEN "clean"
                        ELSE IF ~request.create THEN "next"
                        ELSE IF ~cmd.published THEN "anchor"
                        ELSE IF Edits = {} THEN "clean"
                        ELSE "stage"]
    /\ UNCHANGED <<disk, saved>> /\ Env

-----------------------------------------------------------------------------
(* Apply: staging and publishing the new file.                             *)

\* Unless the identity is journaled, what lies at the anchor is not ours.
WriteAnchor ==
    /\ At("apply", "anchor")
    /\ ~journal.identity
    /\ ~journal.attempted /\ ~anchor /\ live[Forward(New)] = "absent"
    /\ anchor' = TRUE
    /\ Goto("identity")
    /\ UNCHANGED <<disk, backups, journal>> /\ Env

SaveIdentity ==
    /\ At("apply", "identity")
    /\ Save([journal EXCEPT !.identity = TRUE])
    /\ Goto("link_temporary")
    /\ UNCHANGED disk /\ Env

ReuseAnchor ==
    /\ At("apply", "anchor")
    /\ journal.identity /\ anchor
    /\ Goto("link_temporary")
    /\ UNCHANGED <<disk, saved>> /\ Env

LinkTemporary ==
    /\ At("apply", "link_temporary")
    /\ Put(Forward(New), "full")
    /\ FirstFile("stage")
    /\ UNCHANGED saved /\ Env

\* A mixed apply writes every temporary before it publishes the new file.
StageSkip ==
    /\ At("apply", "stage") /\ MoreFiles
    /\ ThisFile \in cmd.done
    /\ NextFile("stage")
    /\ UNCHANGED <<disk, saved>> /\ Env

StageOpen ==
    /\ At("apply", "stage") /\ MoreFiles
    /\ ThisFile \notin cmd.done
    /\ live[Forward(ThisFile)] # "torn"
    /\ Put(Forward(ThisFile), "torn")
    /\ Goto("stage_write")
    /\ UNCHANGED saved /\ Env

StageWrite ==
    /\ At("apply", "stage_write")
    /\ Put(Forward(ThisFile), "full")
    /\ NextFile("stage")
    /\ UNCHANGED saved /\ Env

CheckStaged ==
    /\ At("apply", "stage") /\ ~MoreFiles
    /\ clean /\ NoTornTemp /\ Classified
    /\ IF cmd.published
       THEN Goto("published")
       ELSE ~Present /\ Goto("mark")
    /\ UNCHANGED <<disk, saved>> /\ Env

MarkPublication ==
    /\ At("apply", "mark")
    /\ Save([journal EXCEPT !.attempted = TRUE])
    /\ Goto("link")
    /\ UNCHANGED disk /\ Env

\* A hard link: it fails if anything is at the target.
PublishNew ==
    /\ At("apply", "link")
    /\ ~Present
    /\ Put(Source(New), "after")
    /\ Goto("published")
    /\ UNCHANGED saved /\ Env

ConfirmPublished ==
    /\ At("apply", "published")
    /\ Published /\ clean
    /\ Goto(IF Edits = {} THEN "clean" ELSE "sync_target")
    /\ UNCHANGED <<disk, saved>> /\ Env

\* Mutant: the new name is not synced before the replacements.
SyncTargetSkipped ==
    /\ At("apply", "sync_target")
    /\ FirstFile("next")
    /\ UNCHANGED <<disk, saved>> /\ Env

SyncTarget ==
    /\ At("apply", "sync_target")
    /\ Sync({Source(New), Forward(New)})
    /\ FirstFile("next")
    /\ UNCHANGED saved /\ Env

-----------------------------------------------------------------------------
(* Replacing the existing files one by one, forward or backward.           *)

From == IF cmd.op = "apply" THEN "before" ELSE "after"
To == IF cmd.op = "apply" THEN "after" ELSE "before"
Temp(f) == IF cmd.op = "apply" THEN Forward(f) ELSE Backward(f)
StagedAhead == cmd.op = "apply" /\ request.create

\* The checks before each replacement.
Checked ==
    /\ clean /\ NoTornTemp /\ Classified
    /\ StagedAhead => Published

SkipFile ==
    /\ cmd.pc = "next" /\ MoreFiles
    /\ \/ ~StagedAhead /\ ThisFile \in cmd.done
       \/ live[Source(ThisFile)] = To /\ (StagedAhead \/ Checked)
    /\ NextFile("next")
    /\ UNCHANGED <<disk, saved>> /\ Env

OpenTemp ==
    /\ cmd.pc = "next" /\ MoreFiles /\ ~StagedAhead
    /\ ThisFile \notin cmd.done
    /\ Checked /\ live[Source(ThisFile)] = From
    /\ Put(Temp(ThisFile), "torn")
    /\ Goto("write")
    /\ UNCHANGED saved /\ Env

WriteTemp ==
    /\ cmd.pc = "write"
    /\ Put(Temp(ThisFile), "full")
    /\ Goto("verify")
    /\ UNCHANGED saved /\ Env

\* Mutant: the source is not read again after the temporary was written.
LastCheckOfTemp ==
    /\ \/ cmd.pc = "verify"
       \/ cmd.pc = "next" /\ MoreFiles /\ StagedAhead /\ Checked
    /\ clean /\ NoTornTemp
    /\ Goto("replace")
    /\ UNCHANGED <<disk, saved>> /\ Env

LastCheck ==
    /\ \/ cmd.pc = "verify"
       \/ cmd.pc = "next" /\ MoreFiles /\ StagedAhead /\ Checked
    /\ clean /\ NoTornTemp /\ live[Source(ThisFile)] = From
    /\ Goto("replace")
    /\ UNCHANGED <<disk, saved>> /\ Env

\* replace_source_path renames the temporary over whatever is there now.
Replace ==
    /\ cmd.pc = "replace"
    /\ live[Temp(ThisFile)] = "full"
    /\ live' = [live EXCEPT ![Source(ThisFile)] = To, ![Temp(ThisFile)] = "absent"]
    /\ raced' = raced \ {ThisFile}
    /\ Goto("replaced")
    /\ UNCHANGED <<durable, saved, request, clean>>

ConfirmReplaced ==
    /\ cmd.pc = "replaced"
    /\ live[Source(ThisFile)] = To /\ clean
    /\ NextFile("next")
    /\ UNCHANGED <<disk, saved>> /\ Env

\* The whole set is checked again, then the temporaries go.
FinalCheck ==
    /\ cmd.pc = "next" /\ ~MoreFiles
    /\ clean /\ NoTornTemp /\ All(To)
    /\ StagedAhead => Published
    /\ Goto("clean")
    /\ UNCHANGED <<disk, saved>> /\ Env

\* Mutant: the second link to the new file is left behind.
RemoveTempsOfEdits ==
    /\ cmd.pc = "clean"
    /\ NoTornTemp
    /\ Remove({Temp(f) : f \in Edits})
    /\ Goto(IF cmd.op = "rollback" /\ request.create THEN "sync_sources" ELSE "sync")
    /\ UNCHANGED saved /\ Env

RemoveTemps ==
    /\ cmd.pc = "clean"
    /\ NoTornTemp
    /\ IF cmd.op = "apply"
       THEN /\ Remove({Forward(f) : f \in Edits \cup {New}})
            /\ Goto("sync")
       ELSE /\ Remove({Backward(f) : f \in Edits})
            /\ Goto(IF request.create THEN "sync_sources" ELSE "sync")
    /\ UNCHANGED saved /\ Env

\* Mutant: the state is saved without syncing the directories.
SyncParentsSkipped ==
    /\ cmd.pc = "sync"
    /\ Goto("acknowledge")
    /\ UNCHANGED <<disk, saved>> /\ Env

SyncParents ==
    /\ cmd.pc = "sync"
    /\ Sync({"source", "forward", "backward"} \X
                (Edits \cup IF request.create THEN {New} ELSE {}))
    /\ Goto("acknowledge")
    /\ UNCHANGED saved /\ Env

Acknowledge ==
    /\ cmd.pc = "acknowledge"
    /\ Save([journal EXCEPT
                !.state = IF cmd.op = "apply" THEN "applied" ELSE "rolled_back"])
    /\ cmd' = Idle
    /\ UNCHANGED disk /\ Env

-----------------------------------------------------------------------------
(* Rollback.                                                               *)

RollbackTempsOK ==
    \A f \in Edits :
        IF Started THEN live[Backward(f)] # "torn" ELSE live[Backward(f)] = "absent"

CanRollBackExisting ==
    /\ \A f \in Edits :
        IF journal.state = "applied"
        THEN live[Forward(f)] = "absent"
        ELSE live[Forward(f)] # "torn"
    /\ journal.state = "rolled_back" =>
        All("before") /\ \A f \in Edits : {live[Forward(f)], live[Backward(f)]} = {"absent"}

CanRollBackCreation ==
    /\ OnWindows
    /\ journal.state # "prepared" /\ journal.attempted /\ journal.identity /\ anchor
    /\ \A f \in Edits \cup {New} : live[Forward(f)] = "absent"
    /\ IF journal.deletion THEN ~Present ELSE Published
    /\ journal.state = "applied" => All("after")
    /\ journal.deletion =>
        All("before") /\ \A f \in Edits : live[Backward(f)] = "absent"

CanRollBack ==
    /\ clean
    /\ journal.state # "none"
    /\ Edits \subseteq backups
    /\ RollbackTempsOK
    /\ Classified
    /\ IF request.create THEN CanRollBackCreation ELSE CanRollBackExisting

BeginRollback ==
    /\ cmd = Idle
    /\ CanRollBack
    /\ cmd' = [Idle EXCEPT !.op = "rollback",
                           !.pc = CASE journal.state = "rolled_back" -> "sync"
                                    [] journal.state = "rollback_prepared" -> "forward"
                                    [] OTHER -> "prepare"]
    /\ UNCHANGED <<disk, saved>> /\ Env

SaveRollbackPrepared ==
    /\ At("rollback", "prepare")
    /\ Save([journal EXCEPT !.state = "rollback_prepared"])
    /\ Goto("forward")
    /\ UNCHANGED disk /\ Env

\* Once the deletion is marked, the sources are checked and not written.
RemoveForward ==
    /\ At("rollback", "forward")
    /\ NoTornTemp
    /\ Remove({Forward(f) : f \in Edits})
    /\ cmd' = [cmd EXCEPT !.pc = "next",
                          !.i = IF journal.deletion THEN Len(request.edits) + 1 ELSE 1]
    /\ UNCHANGED saved /\ Env

SyncSources ==
    /\ At("rollback", "sync_sources")
    /\ Sync({"source", "forward", "backward"} \X Edits)
    /\ Goto(IF journal.deletion THEN "disposed" ELSE "mark_deletion")
    /\ UNCHANGED saved /\ Env

MarkDeletion ==
    /\ At("rollback", "mark_deletion")
    /\ Save([journal EXCEPT !.deletion = TRUE])
    /\ Goto("dispose")
    /\ UNCHANGED disk /\ Env

\* The target is deleted through the handle held since the command began.
Dispose ==
    /\ At("rollback", "dispose")
    /\ Put(Source(New), "absent")
    /\ Goto("disposed")
    /\ UNCHANGED saved /\ Env

ConfirmDisposed ==
    /\ At("rollback", "disposed")
    /\ ~Present /\ clean /\ NoTornTemp /\ All("before")
    /\ Goto("sync")
    /\ UNCHANGED <<disk, saved>> /\ Env

-----------------------------------------------------------------------------
(* The world around a command.                                             *)

\* A kill, a refused check or a failed call: the command ends where it is.
Stop ==
    /\ cmd # Idle
    /\ cmd' = Idle
    /\ raced' = {}
    /\ UNCHANGED <<disk, saved, request, clean>>

\* Each unsynced name keeps its last content or falls back to the synced one.
PowerLoss ==
    \E lost \in SUBSET {n \in Name : live[n] # durable[n]} :
        /\ live' = [n \in Name |-> IF n \in lost THEN durable[n] ELSE live[n]]
        /\ durable' = live'
        /\ cmd' = Idle
        /\ raced' = {}
        /\ UNCHANGED <<saved, request, clean>>

UserEdits(f) ==
    /\ live[Source(f)] # "other"
    /\ Put(Source(f), "other")
    /\ raced' = IF cmd.pc = "replace" /\ ThisFile = f THEN raced \cup {f} ELSE raced
    /\ UNCHANGED <<saved, request, clean, cmd>>

\* A rollback of a created file holds it open and denies writes and deletes.
Pinned == cmd.op = "rollback" /\ Published

UserTouchesTarget ==
    /\ request.create /\ ~Pinned
    /\ \E content \in CASE live[Source(New)] = "after" -> {"other", "deleted"}
                        [] live[Source(New)] = "other" -> {"deleted"}
                        [] OTHER -> {"other"} :
           Put(Source(New), content)
    /\ UNCHANGED <<saved, request, clean, cmd, raced>>

\* The index, an unchanged file or the inventory differs, and is put back.
UserTouchesElsewhere ==
    /\ clean' = ~clean
    /\ UNCHANGED <<disk, saved, request, cmd, raced>>

Apply ==
    \/ BeginApply \/ WriteBackup \/ SavePrepared \/ Classify
    \/ WriteAnchor \/ SaveIdentity \/ ReuseAnchor \/ LinkTemporary
    \/ StageSkip \/ StageOpen \/ StageWrite \/ CheckStaged
    \/ MarkPublication \/ PublishNew \/ ConfirmPublished \/ SyncTarget

ReplaceFiles ==
    \/ SkipFile \/ OpenTemp \/ WriteTemp \/ LastCheck \/ Replace
    \/ ConfirmReplaced \/ FinalCheck \/ RemoveTemps \/ SyncParents \/ Acknowledge

Rollback ==
    \/ BeginRollback \/ SaveRollbackPrepared \/ RemoveForward
    \/ SyncSources \/ MarkDeletion \/ Dispose \/ ConfirmDisposed

User ==
    \/ \E f \in Edits : UserEdits(f)
    \/ UserTouchesTarget
    \/ UserTouchesElsewhere

Command == Apply \/ ReplaceFiles \/ Rollback

Next == Command \/ Stop \/ PowerLoss \/ User

Spec == Init /\ [][Next]_vars

-----------------------------------------------------------------------------
(* Properties.                                                             *)

JournalStates == {"none", "prepared", "applied", "rollback_prepared", "rolled_back"}

\* Types of the names, the journal and the command.
TypeOK ==
    /\ request \in Requests
    /\ \A view \in {live, durable} :
        /\ view \in [Name -> SourceContent \cup TempContent]
        /\ \A f \in File : view[Source(f)] \in {"before", "after", "other"}
        /\ view[Source(New)] \in SourceContent \ {"before"}
        /\ \A f \in File \cup {New} : {view[Forward(f)], view[Backward(f)]} \subseteq TempContent
    /\ backups \subseteq Edits /\ anchor \in BOOLEAN /\ clean \in BOOLEAN
    /\ journal \in [state : JournalStates, identity : BOOLEAN, attempted : BOOLEAN,
                    deletion : BOOLEAN]
    /\ cmd.op \in {"none", "apply", "rollback"} /\ cmd.i \in 1..Len(request.edits) + 1
    /\ cmd.done \subseteq Edits /\ raced \subseteq Edits

\* What a loss of power may leave at a name.
MayHold(n) == {live[n], durable[n]}

\* A journal that says "applied" or "rolled_back" is believed after a loss of
\* power too: nothing the command had to replace can come back by itself.
\* The directories are synced before the state is saved.
AcknowledgedIsDurable ==
    /\ journal.state = "applied" =>
        /\ \A f \in Edits : "before" \notin MayHold(Source(f))
        /\ request.create => "absent" \notin MayHold(Source(New))
    /\ journal.state = "rolled_back" =>
        \A f \in Edits \cup {New} : "after" \notin MayHold(Source(f))

\* The edits of a mixed changeset never stand without the file they were
\* reviewed with, even after a loss of power: publishing is synced before the
\* first replacement, and the restored sources before the deletion.
EditsStandWithCreation ==
    request.create /\ (\E f \in Edits : "after" \in MayHold(Source(f))) =>
        "absent" \notin MayHold(Source(New))

\* The deletion marker, which forbids recovering candidate sources, is saved
\* only when no loss of power can bring one back.
MarkerMeansRestored ==
    journal.deletion => \A f \in Edits : "after" \notin MayHold(Source(f))

\* Whatever the commands changed in the repository can be undone from the run
\* directory: a journal and every original are saved before the first write.
WriteAhead ==
    (\E f \in Edits \cup {New} : \/ "after" \in MayHold(Source(f))
                                 \/ MayHold(Forward(f)) # {"absent"}
                                 \/ MayHold(Backward(f)) # {"absent"}) =>
        /\ journal.state # "none"
        /\ Edits \subseteq backups
        /\ Published => journal.attempted /\ journal.identity /\ anchor

\* The journal and the marker on disk never say more than the repository will
\* show after a loss of power, and never less than is needed to undo it.
JournalInv ==
    /\ TypeOK
    /\ AcknowledgedIsDurable
    /\ EditsStandWithCreation
    /\ MarkerMeansRestored
    /\ WriteAhead

\* Nothing the user or another program did is in the way.
Undisturbed ==
    /\ clean
    /\ Classified
    /\ live[Source(New)] \notin {"other", "deleted"}

\* The interruptions the code hands to a person: an anchor without a recorded
\* identity, a publication or a deletion that was marked and did not happen.
NeedsPerson ==
    /\ request.create
    /\ \/ anchor /\ ~journal.identity
       \/ journal.attempted /\ ~Published /\ journal.state = "prepared"
       \/ journal.deletion /\ Published

\* Any other interruption, at any step and with any power loss, leaves a
\* state that a new command carries on from: Apply finishes what is prepared,
\* Rollback restores what is applied or half restored (with a created file on
\* Windows only), and a batch can be rolled back from a half finished Apply.
\* A temporary that was being written is the exception.
InterruptionsRecoverable ==
    cmd = Idle /\ Undisturbed /\ ~NeedsPerson /\ NoTornTemp =>
        /\ journal.state \in {"prepared", "applied"} => CanApply
        /\ /\ journal.state \in {"applied", "rollback_prepared", "rolled_back"}
           /\ request.create => OnWindows
           => CanRollBack
        /\ journal.state = "prepared" /\ ~request.create => CanRollBack

\* The guards of the steps of a running command, by where it stands.
StepAhead ==
    CASE cmd.pc = "classify"  ->
           /\ Classified
           /\ journal.state = "applied" => All("after") /\ (request.create => cmd.published)
      [] cmd.pc = "anchor"    ->
           IF journal.identity THEN anchor
           ELSE ~journal.attempted /\ ~anchor /\ live[Forward(New)] = "absent"
      [] cmd.pc = "stage"     ->
           IF MoreFiles
           THEN ThisFile \in cmd.done \/ live[Forward(ThisFile)] # "torn"
           ELSE clean /\ NoTornTemp /\ Classified /\ (cmd.published \/ ~Present)
      [] cmd.pc = "link"      -> ~Present
      [] cmd.pc = "published" -> Published /\ clean
      [] cmd.pc = "next"      ->
           IF MoreFiles
           THEN \/ ~StagedAhead /\ ThisFile \in cmd.done
                \/ StagedAhead /\ live[Source(ThisFile)] = To
                \/ Checked /\ live[Source(ThisFile)] \in {From, To}
           ELSE clean /\ NoTornTemp /\ All(To) /\ (StagedAhead => Published)
      [] cmd.pc = "verify"    -> clean /\ NoTornTemp /\ live[Source(ThisFile)] = From
      [] cmd.pc = "replace"   -> live[Temp(ThisFile)] = "full"
      [] cmd.pc = "replaced"  -> live[Source(ThisFile)] = To /\ clean
      [] cmd.pc \in {"clean", "forward"} -> NoTornTemp
      [] cmd.pc = "disposed"  -> ~Present /\ clean /\ NoTornTemp /\ All("before")
      [] OTHER                -> TRUE

\* Nothing interferes with the running command.  An anchor of an earlier
\* command that never recorded its identity is in the way, too.
LeftAlone == cmd # Idle /\ Undisturbed /\ ~(cmd.pc = "anchor" /\ anchor /\ ~journal.identity)

\* A command whose first checks pass is stopped by a later check only if
\* something interferes: left alone it always has a next step.
CommandsCarryOn ==
    /\ LeftAlone => StepAhead
    /\ cmd # Idle => (StepAhead <=> ENABLED Command)

\* InterruptionsRecoverable without the exception, for existing files only
\* (docs/local-harness-reference.md:328).
BatchRecoverable ==
    cmd = Idle /\ Undisturbed /\ journal.state = "prepared" /\ ~request.create => CanApply

\* A step of a command (one that leaves it running) replaces an edit of the
\* user's only if it was made between the last check of that file and its
\* replacement, and never touches a file of the user's at New's name.
UserEditsKept ==
    [][cmd' # Idle =>
        /\ \A f \in Edits :
            live[Source(f)] = "other" /\ live'[Source(f)] # "other" => f \in raced
        /\ live[Source(New)] = "other" /\ live'[Source(New)] # "other" => cmd' = cmd
      ]_vars

=============================================================================
