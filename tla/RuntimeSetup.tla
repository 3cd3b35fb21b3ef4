---------------------------- MODULE RuntimeSetup ----------------------------
(***************************************************************************)
(* `models setup`: install the pinned runtime into its folder and start it *)
(* (src/phonton-local/src/provision.rs), and bind later operations to the  *)
(* process that was started (src/phonton-local/src/managed_store.rs).      *)
(*                                                                         *)
(* An installation downloads the archive into a staging directory, resumes *)
(* it there, moves it to its name when its hash is the pinned one, unpacks *)
(* it into another staging directory and renames that to its final name    *)
(* when its tree is the pinned one.  A marker file says which staging      *)
(* directories are Phonton's.  Nothing is ever replaced by a rename.       *)
(*                                                                         *)
(* Setups of several processes share the folder and a lease on it.  They   *)
(* fail, are cancelled or killed at any step; the user puts, changes and   *)
(* removes files; the origin may send wrong bytes; programs take the port, *)
(* end, and leave their process identifiers to others.                     *)
(*                                                                         *)
(* Left out: links and reparse points, which are refused wherever they are *)
(* met; free space, whose check refuses; losses of power.                  *)
(***************************************************************************)
EXTENDS Naturals, FiniteSets

CONSTANTS
    Process,        \* processes that run setups
    Stage,          \* names of staging directories
    Pid,            \* identifiers of runtimes and of other programs
    None,
    Bytes,          \* the pinned size of the archive
    MaxStarts,      \* bound on the programs started under one identifier
    MaxChanges      \* bound on what the user does to the folder

ASSUME SetupAssumption ==
    /\ None \notin Process \cup Stage \cup Pid \cup [pid : Pid, start : Nat]
    /\ Bytes \in Nat \ {0} /\ MaxStarts \in Nat /\ MaxChanges \in Nat

VARIABLES
    setup,      \* each process's setup: how far, its staging directory, its child
    lease,      \* runtime-install-state.lock
    final,      \* the directory ollama-<version>
    archive,    \* the file ollama-<version>.<extension>
    stages,     \* the staging directories
    workers,    \* blocking workers that outlive their setup
    proc,       \* the programs that run
    port,       \* who listens at 127.0.0.1:11434
    receipt,    \* managed-process.json
    changes,    \* history: what the user did to the folder
    honest      \* history: the origin has sent only the pinned bytes

folder  == <<final, archive, stages>>
system  == <<proc, port, receipt>>
history == <<changes, honest>>
vars == <<setup, lease, folder, workers, system, history>>

(***************************************************************************)
(* A staging directory.  It holds nothing, the first bytes of the archive, *)
(* part of the tree, a whole tree, the pinned one or not, or that tree     *)
(* with its receipt.  `alien`: the user's, or with something of the user.  *)
(***************************************************************************)
Trees == {"part", "wrong", "pinned", "sealed"}
NoStage == [kind |-> "none", marked |-> FALSE, alien |-> FALSE,
            holds |-> "nothing", bytes |-> 0, good |-> TRUE]

\* A program: none, the managed runtime, one that has ended and that its parent
\* still holds, another one.
NoProgram == [kind |-> "none", start |-> 0, ready |-> FALSE]

NoSetup == [pc |-> "idle", stage |-> None, child |-> None]

Init ==
    /\ setup = [p \in Process |-> NoSetup]
    /\ lease = None
    /\ final = "none" /\ archive = "none"
    /\ stages = [s \in Stage |-> NoStage]
    /\ workers = {}
    /\ proc = [i \in Pid |-> NoProgram]
    /\ port = None /\ receipt = None
    /\ changes = 0 /\ honest = TRUE

-----------------------------------------------------------------------------
At(p, pc) == setup[p].pc = pc
Go(p, pc) == setup' = [setup EXCEPT ![p].pc = pc]
Mine(p)   == stages[setup[p].stage]

\* Its directory becomes d, and it goes on at pc.
Write(p, d, pc) == /\ stages' = [stages EXCEPT ![setup[p].stage] = d]
                   /\ Go(p, pc)
                   /\ UNCHANGED <<lease, final, archive, workers, system>>

Release(p) == lease' = IF lease = p THEN None ELSE lease

\* StartupChild: a child that is not ready is killed when it is dropped.
Drop(child) ==
    /\ proc' = [i \in Pid |-> IF i = child THEN [proc[i] EXCEPT !.kind = "none"] ELSE proc[i]]
    /\ port' = IF port = child THEN None ELSE port
    /\ UNCHANGED receipt

-----------------------------------------------------------------------------
(***************************************************************************)
(* Nothing listens at the port.  (A service that answers there is bound or *)
(* refused, and nothing is installed.)  Then the lease, and the workers of *)
(* an earlier, cancelled setup of this process.                            *)
(***************************************************************************)
Begin(p) ==
    /\ At(p, "idle")
    /\ port = None
    /\ Go(p, "asked")
    /\ UNCHANGED <<lease, folder, workers, system, history>>

\* Faulty: the folder is free for everyone.
FreeAlways == TRUE

LeaseFree == lease = None

Acquire(p) ==
    /\ At(p, "asked")
    /\ LeaseFree
    /\ lease' = p
    /\ Go(p, "hashes")
    /\ UNCHANGED <<folder, workers, system, history>>

HashesEnded(p) ==
    /\ At(p, "hashes")
    /\ \A w \in workers : ~(w.does = "hash" /\ w.of = p)
    /\ Go(p, "final")
    /\ UNCHANGED <<lease, folder, workers, system, history>>

\* installed_executable: what is there must be the pinned tree and its receipt.
AlreadyInstalled(p) ==
    /\ At(p, "final")
    /\ final = "pinned"
    /\ lease' = None
    /\ Go(p, "installed")
    /\ UNCHANGED <<folder, workers, system, history>>

NotInstalled(p) ==
    /\ At(p, "final")
    /\ final = "none"
    /\ Go(p, "retire")
    /\ UNCHANGED <<lease, folder, workers, system, history>>

-----------------------------------------------------------------------------
(***************************************************************************)
(* cleanup_owned_stages: marked directories of earlier extractions are     *)
(* removed with all they hold, the user's files among it, now and again    *)
(* before the extraction.  A removal that fails half way may have removed  *)
(* the marker, or those files.                                             *)
(***************************************************************************)
\* Faulty: the name is believed.
OwnedByName(d) == d.kind = "tree"

OwnedTree(d) == d.kind = "tree" /\ d.marked

RetireStage(p) ==
    /\ setup[p].pc \in {"retire", "retire again"}
    /\ \E s \in Stage :
         /\ OwnedTree(stages[s])
         /\ \/ stages' = [stages EXCEPT ![s] = NoStage] /\ UNCHANGED <<setup, lease>>
            \/ /\ \E m \in BOOLEAN, a \in {FALSE, stages[s].alien} :
                    stages' = [stages EXCEPT ![s].marked = m, ![s].alien = a, ![s].holds = "part"]
               /\ setup' = [setup EXCEPT ![p] = NoSetup] /\ Release(p)
    /\ UNCHANGED <<final, archive, workers, system, history>>

AllRetired(p) ==
    /\ \A s \in Stage : ~OwnedTree(stages[s])
    /\ \/ At(p, "retire") /\ Go(p, "archive")
       \/ At(p, "retire again") /\ Go(p, "new tree")
    /\ UNCHANGED <<lease, folder, workers, system, history>>

-----------------------------------------------------------------------------
(***************************************************************************)
(* The archive: verified where it is, or downloaded.                       *)
(***************************************************************************)
ArchiveThere(p) ==
    /\ At(p, "archive")
    /\ archive # "none"
    /\ Go(p, "verify")
    /\ UNCHANGED <<lease, folder, workers, system, history>>

ArchiveVerified(p) ==
    /\ At(p, "verify")
    /\ archive = "pinned"
    /\ Go(p, "retire again")
    /\ UNCHANGED <<lease, folder, workers, system, history>>

Resumable(d) == d.kind = "download" /\ d.marked /\ d.holds = "partial" /\ ~d.alien

\* find_owned_download_stage; two that could be resumed are refused.
\* Faulty: every download starts anew.
FindNone(p) ==
    /\ At(p, "archive")
    /\ archive = "none"
    /\ Go(p, "request")
    /\ UNCHANGED <<lease, folder, workers, system, history>>

FindDownload(p) ==
    LET found == {s \in Stage : Resumable(stages[s])}
    IN  /\ At(p, "archive")
        /\ archive = "none"
        /\ Cardinality(found) <= 1
        /\ \/ found = {} /\ Go(p, "request")
           \/ \E s \in found : setup' = [setup EXCEPT ![p].stage = s, ![p].pc = "request"]
        /\ UNCHANGED <<lease, folder, workers, system, history>>

\* A complete download asks for nothing; else the answer must continue it.
Respond(p) ==
    /\ At(p, "request")
    /\ Go(p, IF setup[p].stage = None THEN "new download"
             ELSE IF Mine(p).bytes = Bytes THEN "hash" ELSE "chunks")
    /\ UNCHANGED <<lease, folder, workers, system, history>>

\* create_owned_stage: a name of its own, then the marker.
NewStage(p, kind, pc) ==
    /\ At(p, pc)
    /\ \E s \in Stage :
         /\ stages[s] = NoStage
         /\ \A w \in workers : w.in # s
         /\ stages' = [stages EXCEPT ![s].kind = kind]
         /\ setup' = [setup EXCEPT ![p].stage = s, ![p].pc = "mark"]
    /\ UNCHANGED <<lease, final, archive, workers, system, history>>

NewDownload(p) == NewStage(p, "download", "new download")
NewTree(p) == NewStage(p, "tree", "new tree")

Mark(p) ==
    /\ At(p, "mark")
    /\ Write(p, [Mine(p) EXCEPT !.marked = TRUE],
                IF Mine(p).kind = "tree" THEN "extract" ELSE "new partial")
    /\ UNCHANGED history

NewPartial(p) ==
    /\ At(p, "new partial")
    /\ Write(p, [Mine(p) EXCEPT !.holds = "partial"], "chunks")
    /\ UNCHANGED history

Chunk(p) ==
    /\ At(p, "chunks")
    /\ Mine(p).bytes < Bytes
    /\ \E right \in BOOLEAN :
         /\ Write(p, [Mine(p) EXCEPT !.bytes = @ + 1, !.good = @ /\ right], "chunks")
         /\ honest' = (honest /\ right)
    /\ UNCHANGED changes

Received(p) ==
    /\ At(p, "chunks")
    /\ Mine(p).bytes = Bytes
    /\ Go(p, "hash")
    /\ UNCHANGED <<lease, folder, workers, system, history>>

\* Wrong bytes are kept for inspection.
HashMatches(p) ==
    /\ At(p, "hash")
    /\ Mine(p).good
    /\ Go(p, "move")
    /\ UNCHANGED <<lease, folder, workers, system, history>>

MoveArchive(p) ==
    /\ At(p, "move")
    /\ archive = "none"
    /\ archive' = IF Mine(p).good THEN "pinned" ELSE "bad"
    /\ stages' = [stages EXCEPT ![setup[p].stage].holds = "nothing",
                                ![setup[p].stage].bytes = 0, ![setup[p].stage].good = TRUE]
    /\ Go(p, "unmark")
    /\ UNCHANGED <<lease, final, workers, system, history>>

\* The directory is removed when only the marker is left.
Unmark(p) ==
    /\ At(p, "unmark")
    /\ IF Mine(p).alien THEN Write(p, Mine(p), "verify")
       ELSE Write(p, [Mine(p) EXCEPT !.marked = FALSE], "remove")
    /\ UNCHANGED history

RemoveDirectory(p) ==
    /\ At(p, "remove")
    /\ ~Mine(p).alien
    /\ Write(p, NoStage, "verify")
    /\ UNCHANGED history

-----------------------------------------------------------------------------
(***************************************************************************)
(* publish_verified_archive.                                               *)
(***************************************************************************)
Extract(p) ==
    /\ At(p, "extract")
    /\ \E tree \in {"wrong"} \cup (IF archive = "pinned" THEN {"pinned"} ELSE {}) :
         Write(p, [Mine(p) EXCEPT !.holds = tree], "tree")
    /\ UNCHANGED history

\* Faulty: the extraction was told to succeed.
MatchesAnyhow(d) == TRUE

\* The marker, the executable and the whole tree, file by file.
MatchesPinned(d) == d.marked /\ d.holds = "pinned" /\ ~d.alien

CheckTree(p) ==
    /\ At(p, "tree")
    /\ MatchesPinned(Mine(p))
    /\ Go(p, "seal")
    /\ UNCHANGED <<lease, folder, workers, system, history>>

Seal(p) ==
    /\ At(p, "seal")
    /\ Write(p, [Mine(p) EXCEPT !.holds = IF @ = "pinned" THEN "sealed" ELSE @], "publish")
    /\ UNCHANGED history

Published(d) ==
    IF d.holds # "sealed" THEN "bad" ELSE IF d.alien THEN "changed" ELSE "pinned"

Publish(p) ==
    /\ At(p, "publish")
    /\ final = "none"
    /\ final' = Published(Mine(p))
    /\ stages' = [stages EXCEPT ![setup[p].stage] = NoStage]
    /\ lease' = None
    /\ setup' = [setup EXCEPT ![p].pc = "installed", ![p].stage = None]
    /\ UNCHANGED <<archive, workers, system, history>>

-----------------------------------------------------------------------------
(***************************************************************************)
(* start_command: the lease again, the child, and its listener.            *)
(***************************************************************************)
Spawn(p) ==
    /\ At(p, "installed")
    /\ final # "none"
    /\ LeaseFree
    /\ lease' = p
    /\ \E i \in Pid :
         /\ proc[i].kind = "none" /\ proc[i].start < MaxStarts
         /\ proc' = [proc EXCEPT ![i] = [kind |-> "managed", start |-> @.start + 1, ready |-> FALSE]]
         /\ setup' = [setup EXCEPT ![p].child = i, ![p].pc = "waiting"]
    /\ UNCHANGED <<folder, workers, port, receipt, history>>

OwnsPort(p) == port = setup[p].child /\ proc[setup[p].child].kind = "managed"

\* The version request is answered; then the owner is looked at again, and once
\* more by record_launch.
Answers(p) ==
    /\ At(p, "waiting") /\ OwnsPort(p)
    /\ Go(p, "answered")
    /\ UNCHANGED <<lease, folder, workers, system, history>>

StillOwner(p) ==
    /\ At(p, "answered") /\ OwnsPort(p)
    /\ Go(p, "record")
    /\ UNCHANGED <<lease, folder, workers, system, history>>

RecordLaunch(p) ==
    /\ At(p, "record") /\ OwnsPort(p)
    /\ Go(p, "save")
    /\ UNCHANGED <<lease, folder, workers, system, history>>

SaveReceipt(p) ==
    LET i == setup[p].child
    IN  /\ At(p, "save")
        /\ receipt' = [pid |-> i, start |-> proc[i].start]
        /\ proc' = [proc EXCEPT ![i].ready = TRUE, ![i].kind = IF @ = "dead" THEN "none" ELSE @]
        /\ setup' = [setup EXCEPT ![p] = NoSetup]
        /\ lease' = None
        /\ UNCHANGED <<folder, workers, port, history>>

(***************************************************************************)
(* bind: the receipt's process lives, it is the one that was started, and  *)
(* it owns the listener.                                                   *)
(***************************************************************************)
Lives(i) == proc[i].kind \in {"managed", "other"}

\* Faulty: the identifier is enough.
BindableByPid == receipt # None /\ Lives(receipt.pid) /\ port = receipt.pid

Bindable ==
    /\ receipt # None
    /\ Lives(receipt.pid)
    /\ proc[receipt.pid].start = receipt.start
    /\ port = receipt.pid

-----------------------------------------------------------------------------
(***************************************************************************)
(* A setup ends with an error or is cancelled; a hash and, on Unix, an     *)
(* extraction that run in a blocking worker go on.                         *)
(***************************************************************************)
Left(p) ==
    IF setup[p].pc \in {"hash", "verify"} THEN {[does |-> "hash", of |-> p, in |-> None]}
    ELSE IF At(p, "extract") THEN {[does |-> "unpack", of |-> p, in |-> setup[p].stage]}
    ELSE {}

Cancel(p) ==
    /\ ~At(p, "idle")
    /\ setup' = [setup EXCEPT ![p] = NoSetup]
    /\ Release(p)
    /\ Drop(setup[p].child)
    /\ workers' \in {workers, workers \cup Left(p)}
    /\ UNCHANGED <<folder, history>>

\* The process is killed: its workers go, its child stays.
Kill(p) ==
    /\ ~At(p, "idle")
    /\ setup' = [setup EXCEPT ![p] = NoSetup]
    /\ Release(p)
    /\ workers' = {w \in workers : w.of # p}
    /\ proc' = [i \in Pid |-> IF proc[i].kind = "dead" /\ i = setup[p].child
                              THEN [proc[i] EXCEPT !.kind = "none"] ELSE proc[i]]
    /\ UNCHANGED <<folder, port, receipt, history>>

\* An extraction has put something of the tree in its directory.
Unpacks ==
    /\ \E s \in Stage :
         /\ \/ \E p \in Process : At(p, "extract") /\ setup[p].stage = s
            \/ \E w \in workers : w.in = s
         /\ stages[s].kind = "tree"
         /\ stages' = [stages EXCEPT ![s].holds = "part"]
    /\ UNCHANGED <<setup, lease, final, archive, workers, system, history>>

WorkerEnds ==
    /\ \E w \in workers : workers' = workers \ {w}
    /\ UNCHANGED <<setup, lease, folder, system, history>>

-----------------------------------------------------------------------------
(***************************************************************************)
(* The user, and other programs.                                           *)
(***************************************************************************)
UserChanges ==
    /\ changes < MaxChanges
    /\ changes' = changes + 1
    /\ \/ \E s \in Stage : /\ stages' = [stages EXCEPT ![s].alien = TRUE,
                                                      ![s].kind = IF @ = "none" THEN "tree" ELSE @]
                           /\ UNCHANGED <<final, archive>>
       \/ /\ \E a \in {"none", "changed"} \ {archive} : archive' = a
          /\ UNCHANGED <<final, stages>>
       \/ /\ \E d \in {"none", "changed"} \ {final} : final' = d
          /\ UNCHANGED <<archive, stages>>
    /\ UNCHANGED <<setup, lease, workers, system, honest>>

ProgramStarts ==
    /\ \E i \in Pid :
         /\ proc[i].kind = "none" /\ proc[i].start < MaxStarts
         /\ proc' = [proc EXCEPT ![i] = [kind |-> "other", start |-> @.start + 1, ready |-> FALSE]]
    /\ UNCHANGED <<setup, lease, folder, workers, port, receipt, history>>

Listens ==
    /\ port = None
    /\ \E i \in Pid : Lives(i) /\ port' = i
    /\ UNCHANGED <<setup, lease, folder, workers, proc, receipt, history>>

\* A parent that lives holds the identifier of a child that has ended.
ProgramEnds ==
    /\ \E i \in Pid :
         /\ Lives(i)
         /\ proc' = [proc EXCEPT ![i].kind =
                        IF \E p \in Process : setup[p].child = i THEN "dead" ELSE "none"]
         /\ port' = IF port = i THEN None ELSE port
    /\ UNCHANGED <<setup, lease, folder, workers, receipt, history>>

Step(p) ==
    \/ Begin(p) \/ Acquire(p) \/ HashesEnded(p) \/ AlreadyInstalled(p) \/ NotInstalled(p)
    \/ RetireStage(p) \/ AllRetired(p) \/ ArchiveThere(p) \/ ArchiveVerified(p)
    \/ FindDownload(p) \/ Respond(p) \/ NewDownload(p) \/ NewTree(p) \/ Mark(p) \/ NewPartial(p)
    \/ Chunk(p) \/ Received(p) \/ HashMatches(p) \/ MoveArchive(p) \/ Unmark(p)
    \/ RemoveDirectory(p) \/ Extract(p) \/ CheckTree(p) \/ Seal(p) \/ Publish(p)
    \/ Spawn(p) \/ Answers(p) \/ StillOwner(p) \/ RecordLaunch(p) \/ SaveReceipt(p)
    \/ Cancel(p) \/ Kill(p)

Others == Unpacks \/ WorkerEnds \/ UserChanges \/ ProgramStarts \/ Listens \/ ProgramEnds

Next == (\E p \in Process : Step(p)) \/ Others

Spec == Init /\ [][Next]_vars
-----------------------------------------------------------------------------
(* Properties *)

TypeOK ==
    /\ \A p \in Process : /\ setup[p].stage \in Stage \cup {None}
                          /\ setup[p].child \in Pid \cup {None}
    /\ lease \in Process \cup {None}
    /\ final \in {"none", "pinned", "changed", "bad"}
    /\ archive \in {"none", "pinned", "changed", "bad"}
    /\ \A s \in Stage : stages[s].bytes \in 0 .. Bytes
    /\ port \in Pid \cup {None}

(***************************************************************************)
(* What Phonton puts under the final name is the pinned tree, with its     *)
(* receipt, and nothing else, whatever setups, cancelled extractions and   *)
(* retired directories came before.                                        *)
(***************************************************************************)
PublishedIsPinned == final # "bad" /\ archive # "bad"

FilesInv ==
    /\ TypeOK
    /\ PublishedIsPinned

(***************************************************************************)
(* What setups leave behind in the runtime's folder, wherever they were    *)
(* cut off, is no reason for the next one to refuse, unless the user       *)
(* changed the folder or the origin sent wrong bytes.  The folder only:    *)
(* the runtime that a killed setup leaves on the port keeps the next one   *)
(* from beginning until it is stopped.                                     *)
(***************************************************************************)
FolderBlocks ==
    \/ final \notin {"none", "pinned"}
    \/ archive \notin {"none", "pinned"}
    \/ \E s, t \in Stage : s # t /\ Resumable(stages[s]) /\ Resumable(stages[t])
    \/ \E s \in Stage : Resumable(stages[s]) /\ stages[s].bytes = Bytes /\ ~stages[s].good

FolderNeverBlocks == (changes = 0 /\ honest) => ~FolderBlocks

(***************************************************************************)
(* Phonton removes nothing but its own: published files stay as they are,  *)
(* the bytes of a download stay until they are the archive, and so does a  *)
(* directory with something of the user in it, or it was published.  Its   *)
(* own is what carries the marker of an extraction: a setup that holds the *)
(* lease removes such a directory with all it holds, and what the user put *)
(* into it is lost.                                                        *)
(***************************************************************************)
Retiring(s) ==
    /\ stages[s].kind = "tree" /\ stages[s].marked
    /\ \E p \in Process : lease = p /\ setup[p].pc \in {"retire", "retire again"}

KeepsUsers ==
    /\ \A s \in Stage : stages[s].alien =>
          stages'[s].alien \/ Retiring(s) \/ (final = "none" /\ final' = "changed")
    /\ final # "none" => final' = final
    /\ archive # "none" => archive' = archive

KeepsBytes ==
    \A s \in Stage : stages[s].holds = "partial" =>
        \/ stages'[s].holds = "partial" /\ stages'[s].bytes >= stages[s].bytes
        \/ archive = "none" /\ archive' # "none"

RemovesOnlyItsOwn == [][changes' = changes => KeepsUsers /\ KeepsBytes]_vars

(***************************************************************************)
(* An operation is bound to the runtime that Phonton reported as started,  *)
(* never to a program that came to have its identifier or its port; the    *)
(* runtime is recognised as long as it listens; and setups start one       *)
(* runtime at a time.                                                      *)
(***************************************************************************)
RuntimeInv ==
    /\ Bindable => proc[receipt.pid].kind = "managed" /\ proc[receipt.pid].ready
    /\ \A i \in Pid :
         (proc[i].kind = "managed" /\ proc[i].ready /\ port = i) => Bindable
    /\ \A p, q \in Process : (setup[p].child # None /\ setup[q].child # None) => p = q
=============================================================================
