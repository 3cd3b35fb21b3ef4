---------------------------- MODULE RuntimeProofs ----------------------------
(***************************************************************************)
(* What setups of the managed runtime keep, for every number of processes, *)
(* staging directories and identifiers and every size of the archive: what *)
(* they publish is the pinned tree (FilesInv), they remove nothing but     *)
(* what carries their marker (RemovesOnlyItsOwn), operations are bound to  *)
(* the runtime that was started (RuntimeInv), and what a setup that was    *)
(* cut off left in the folder is no reason for the next one to refuse      *)
(* (FolderNeverBlocks).                                                    *)
(***************************************************************************)
EXTENDS RuntimeSetup, TLAPS

-----------------------------------------------------------------------------
(***************************************************************************)
(* The folder.  Whoever works in it holds the lease, so that what a setup  *)
(* found or put into its staging directory is there when it comes to use   *)
(* it; no worker that outlived its setup writes into a directory of a      *)
(* later one.                                                              *)
(***************************************************************************)
Outside == {"idle", "asked", "installed"}
Looking == {"hashes", "final", "retire", "retire again", "archive", "verify",
            "new download", "new tree"}
Starting == {"waiting", "answered", "record", "save"}
Downloading == {"chunks", "hash", "move"}
Emptied == {"new partial", "unmark", "remove"}
Extracting == {"extract", "tree", "seal", "publish"}
Using == Downloading \cup Emptied \cup Extracting \cup {"mark"}
Pcs == Outside \cup Looking \cup Starting \cup Using \cup {"request"}

Setups == [pc : Pcs, stage : Stage \cup {None}, child : Pid \cup {None}]
Directories == [kind : {"none", "download", "tree"}, marked : BOOLEAN, alien : BOOLEAN,
                holds : {"nothing", "partial"} \cup Trees, bytes : 0 .. Bytes, good : BOOLEAN]

Sound(d) == /\ d.kind = "none" => d.holds = "nothing"
            /\ d.holds = "partial" => d.kind = "download"

\* The directory a setup works in, by how far the setup is.
Fits(pc, d) ==
    /\ pc \in Downloading \cup {"request"} => d.kind = "download" /\ d.holds = "partial"
    /\ pc = "move" => d.good
    /\ pc \in Emptied => d.kind = "download" /\ d.holds = "nothing"
    /\ pc = "mark" => d.kind \in {"download", "tree"} /\ d.holds = "nothing"
    /\ pc \in Extracting => d.kind = "tree" /\ d.marked
    /\ pc = "seal" => d.holds = "pinned"
    /\ pc = "publish" => d.holds = "sealed"

\* So far a setup has no directory.
Fresh == {"idle", "asked", "hashes", "final", "retire", "archive"}

Placed(x, f) ==
    /\ x.pc \in Fresh => x.stage = None
    /\ x.pc \in Using => x.stage # None
    /\ (x.pc \in Using \/ (x.pc = "request" /\ x.stage # None)) => Fits(x.pc, f[x.stage])

Apart(x, ws) == x.pc \in Extracting \cup {"mark"} => \A w \in ws : w.in # x.stage

FolderInv ==
    /\ setup \in [Process -> Setups]
    /\ stages \in [Stage -> Directories]
    /\ lease \in Process \cup {None}
    /\ \A p \in Process : setup[p].pc \notin Outside => lease = p
    /\ \A p \in Process : Placed(setup[p], stages) /\ Apart(setup[p], workers)
    /\ \A s \in Stage : Sound(stages[s])

-----------------------------------------------------------------------------
(***************************************************************************)
(* A step of setup p: the others, if they work in the folder, hold the     *)
(* lease, and then p changes nothing there.                                *)
(***************************************************************************)
LEMMA Elsewhere ==
    ASSUME NEW x, NEW f, NEW g, NEW ws, x.pc \in Outside, Placed(x, f)
    PROVE  Placed(x, g) /\ Apart(x, ws)
BY DEF Placed, Apart, Outside, Using, Downloading, Emptied, Extracting

LEMMA StepOf ==
    ASSUME FolderInv,
           NEW p \in Process, NEW x \in Setups,
           setup' = [setup EXCEPT ![p] = x],
           stages' \in [Stage -> Directories],
           lease' \in Process \cup {None},
           \A s \in Stage : Sound(stages'[s]),
           x.pc \notin Outside => lease' = p,
           lease = p \/ (stages' = stages /\ workers' \subseteq workers
                         /\ (lease = None \/ lease' = lease)),
           Placed(x, stages'), Apart(x, workers')
    PROVE  FolderInv'
<1>1. setup' \in [Process -> Setups] /\ setup'[p] = x
      /\ \A q \in Process \ {p} : setup'[q] = setup[q]
  BY DEF FolderInv
<1>2. ASSUME NEW q \in Process \ {p}
      PROVE  /\ setup'[q].pc \notin Outside => lease' = q
             /\ Placed(setup'[q], stages') /\ Apart(setup'[q], workers')
  <2>1. CASE setup[q].pc \in Outside
    BY <1>1, <2>1, Elsewhere DEF FolderInv
  <2>2. CASE setup[q].pc \notin Outside
    <3>1. lease = q /\ lease # p /\ lease # None
      BY <2>2, SetupAssumption DEF FolderInv
    <3>2. stages' = stages /\ workers' \subseteq workers /\ lease' = q
      BY <3>1
    <3>3. Placed(setup[q], stages) /\ Apart(setup[q], workers)
      BY DEF FolderInv
    <3> QED
      BY <1>1, <3>2, <3>3 DEF Apart
  <2> QED
    BY <2>1, <2>2
<1> QED
  BY <1>1, <1>2 DEF FolderInv

\* It goes on, and the folder stays as it is.
LEMMA GoStep ==
    ASSUME FolderInv,
           NEW p \in Process, NEW pc \in Pcs, Go(p, pc),
           stages' = stages, workers' = workers,
           pc \notin Outside => lease' = p,
           lease' \in Process \cup {None},
           lease = p \/ lease = None \/ lease' = lease,
           LET x == [setup[p] EXCEPT !.pc = pc] IN Placed(x, stages) /\ Apart(x, workers)
    PROVE  FolderInv'
<1> DEFINE x == [setup[p] EXCEPT !.pc = pc]
<1>1. setup[p] \in Setups
  BY DEF FolderInv
<1>2. x \in Setups /\ x.pc = pc
  BY <1>1 DEF Setups
<1>3. setup' = [setup EXCEPT ![p] = x]
  BY DEF Go, FolderInv
<1>4. stages' \in [Stage -> Directories] /\ \A s \in Stage : Sound(stages'[s])
  BY DEF FolderInv
<1> QED
  BY <1>2, <1>3, <1>4, StepOf

\* It writes into its directory.
LEMMA WriteStep ==
    ASSUME FolderInv,
           NEW p \in Process, NEW pc \in Looking \cup (Using \ {"mark"}), NEW d \in Directories,
           stages' = [stages EXCEPT ![setup[p].stage] = d], Go(p, pc),
           lease' = lease, workers' = workers,
           setup[p].pc \in Using, Sound(d), pc \in Using => Fits(pc, d),
           pc \notin Fresh, pc \in Extracting => setup[p].pc \in Extracting \cup {"mark"}
    PROVE  FolderInv'
<1> DEFINE s == setup[p].stage
           x == [setup[p] EXCEPT !.pc = pc]
<1>1. setup[p] \in Setups /\ Placed(setup[p], stages) /\ Apart(setup[p], workers)
  BY DEF FolderInv
<1>2. s \in Stage
  BY <1>1 DEF Setups, Placed
<1>3. pc \in Pcs /\ pc \notin Outside /\ setup[p].pc \notin Outside /\ pc # "request"
  BY DEF Pcs, Outside, Looking, Using, Downloading, Emptied, Extracting
<1>4. x \in Setups /\ x.pc = pc /\ x.stage = s
  BY <1>1, <1>3 DEF Setups
<1>5. setup' = [setup EXCEPT ![p] = x] /\ workers' = workers /\ lease' = lease /\ lease = p
  BY <1>3 DEF Go, FolderInv
<1>6. stages' = [stages EXCEPT ![s] = d]
  OBVIOUS
<1>7. stages \in [Stage -> Directories]
  BY DEF FolderInv
<1>8. stages' \in [Stage -> Directories] /\ stages'[s] = d
  BY <1>2, <1>6, <1>7
<1>9. \A t \in Stage : Sound(stages'[t])
  <2> SUFFICES ASSUME NEW t \in Stage PROVE Sound(stages'[t])
    OBVIOUS
  <2>1. CASE t = s
    BY <2>1, <1>8
  <2>2. CASE t # s
    <3>1. stages'[t] = stages[t]
      BY <2>2, <1>6, <1>7
    <3> QED
      BY <3>1 DEF FolderInv
  <2> QED
    BY <2>1, <2>2
<1>10. Placed(x, stages')
  BY <1>2, <1>3, <1>4, <1>8, SetupAssumption DEF Placed
<1>11. Apart(x, workers')
  <2>1. pc \in Extracting \cup {"mark"} => setup[p].pc \in Extracting \cup {"mark"}
    BY DEF Looking, Using, Extracting
  <2> QED
    BY <1>1, <1>4, <1>5, <2>1 DEF Apart
<1> QED
  BY <1>3, <1>4, <1>5, <1>8, <1>9, <1>10, <1>11, StepOf
-----------------------------------------------------------------------------
\* It goes on to where it uses no directory.
LEMMA PassStep ==
    ASSUME FolderInv, NEW p \in Process, NEW pc \in Outside \cup Looking \cup Starting,
           Go(p, pc), stages' = stages, workers' = workers,
           pc \notin Outside => lease' = p,
           lease' \in Process \cup {None},
           lease = p \/ lease = None \/ lease' = lease,
           pc \in Fresh => setup[p].pc \in Fresh
    PROVE  FolderInv'
<1>1. setup[p] \in Setups /\ Placed(setup[p], stages) /\ Apart(setup[p], workers)
  BY DEF FolderInv
<1>2. pc \in Pcs /\ pc \notin Using /\ pc # "request" /\ pc \notin Extracting \cup {"mark"}
  BY DEF Pcs, Outside, Looking, Starting, Using, Downloading, Emptied, Extracting
<1>3. LET x == [setup[p] EXCEPT !.pc = pc] IN Placed(x, stages) /\ Apart(x, workers)
  BY <1>1, <1>2 DEF Placed, Apart, Setups
<1> QED
  BY <1>2, <1>3, GoStep

LEMMA WorksAlone ==
    ASSUME FolderInv, NEW p \in Process, setup[p].pc \notin Outside
    PROVE  lease = p
BY DEF FolderInv

LEMMA Passes ==
    ASSUME FolderInv, NEW p \in Process,
           \/ Begin(p) \/ Acquire(p) \/ HashesEnded(p) \/ NotInstalled(p) \/ AllRetired(p)
           \/ ArchiveThere(p) \/ ArchiveVerified(p) \/ AlreadyInstalled(p)
           \/ Answers(p) \/ StillOwner(p) \/ RecordLaunch(p)
    PROVE  FolderInv'
<1> USE DEF At, folder, Outside, Looking, Starting, Fresh
<1>1. CASE Begin(p)
  BY <1>1, PassStep DEF Begin, FolderInv
<1>2. CASE Acquire(p)
  BY <1>2, PassStep DEF Acquire, LeaseFree
<1>3. CASE HashesEnded(p)
  BY <1>3, PassStep, WorksAlone DEF HashesEnded
<1>4. CASE NotInstalled(p)
  BY <1>4, PassStep, WorksAlone DEF NotInstalled
<1>5. CASE AllRetired(p)
  BY <1>5, PassStep, WorksAlone DEF AllRetired
<1>6. CASE ArchiveThere(p)
  BY <1>6, PassStep, WorksAlone DEF ArchiveThere
<1>7. CASE ArchiveVerified(p)
  BY <1>7, PassStep, WorksAlone DEF ArchiveVerified
<1>8. CASE AlreadyInstalled(p)
  BY <1>8, PassStep, WorksAlone DEF AlreadyInstalled
<1>9. CASE Answers(p)
  BY <1>9, PassStep, WorksAlone DEF Answers
<1>10. CASE StillOwner(p)
  BY <1>10, PassStep, WorksAlone DEF StillOwner
<1>11. CASE RecordLaunch(p)
  BY <1>11, PassStep, WorksAlone DEF RecordLaunch
<1> QED
  BY <1>1, <1>2, <1>3, <1>4, <1>5, <1>6, <1>7, <1>8, <1>9, <1>10, <1>11

\* What a setup that uses a directory knows of it.
LEMMA UsesOwn ==
    ASSUME FolderInv, NEW p \in Process,
           setup[p].pc \in Using \/ (setup[p].pc = "request" /\ setup[p].stage # None)
    PROVE  /\ setup[p] \in Setups /\ setup[p].stage \in Stage /\ lease = p
           /\ Mine(p) \in Directories /\ Sound(Mine(p)) /\ Fits(setup[p].pc, Mine(p))
           /\ Apart(setup[p], workers)
<1>1. setup[p] \in Setups /\ Placed(setup[p], stages) /\ Apart(setup[p], workers)
  BY DEF FolderInv
<1>2. setup[p].stage \in Stage /\ Fits(setup[p].pc, Mine(p))
  BY <1>1 DEF Placed, Mine, Setups
<1>3. setup[p].pc \notin Outside
  BY DEF Outside, Using, Downloading, Emptied, Extracting
<1> QED
  BY <1>1, <1>2, <1>3 DEF FolderInv, Mine

LEMMA NoStageSound == NoStage \in Directories /\ Sound(NoStage)
BY SetupAssumption DEF NoStage, Directories, Sound

LEMMA Writes ==
    ASSUME FolderInv, NEW p \in Process,
           \/ Mark(p) \/ NewPartial(p) \/ Chunk(p) \/ Unmark(p) \/ RemoveDirectory(p)
           \/ Extract(p) \/ Seal(p)
    PROVE  FolderInv'
<1> USE DEF At, Looking, Using, Downloading, Emptied, Extracting, Fresh
<1>1. CASE Mark(p)
  <2> DEFINE d == [Mine(p) EXCEPT !.marked = TRUE]
  <2>1. At(p, "mark") /\ Mine(p) \in Directories /\ Sound(Mine(p)) /\ Fits("mark", Mine(p))
    BY <1>1, UsesOwn DEF Mark
  <2>2. d \in Directories /\ d.marked /\ d.kind = Mine(p).kind /\ d.holds = Mine(p).holds
    BY <2>1 DEF Directories
  <2>3. CASE Mine(p).kind = "tree"
    <3>1. Write(p, d, "extract")
      BY <1>1, <2>3 DEF Mark
    <3>2. Sound(d) /\ Fits("extract", d)
      BY <2>1, <2>2, <2>3 DEF Sound, Fits
    <3> HIDE DEF d
    <3> QED
      BY <2>1, <2>2, <3>1, <3>2, WriteStep DEF Write
  <2>4. CASE Mine(p).kind # "tree"
    <3>1. Write(p, d, "new partial")
      BY <1>1, <2>4 DEF Mark
    <3>2. Sound(d) /\ Fits("new partial", d)
      BY <2>1, <2>2, <2>4 DEF Sound, Fits
    <3> HIDE DEF d
    <3> QED
      BY <2>1, <2>2, <3>1, <3>2, WriteStep DEF Write
  <2> QED
    BY <2>3, <2>4
<1>2. CASE NewPartial(p)
  <2> DEFINE d == [Mine(p) EXCEPT !.holds = "partial"]
  <2>1. At(p, "new partial") /\ Mine(p) \in Directories /\ Fits("new partial", Mine(p))
    BY <1>2, UsesOwn DEF NewPartial
  <2>2. d \in Directories /\ d.kind = "download" /\ d.holds = "partial"
    BY <2>1 DEF Directories, Fits
  <2>3. Sound(d) /\ Fits("chunks", d)
    BY <2>2 DEF Sound, Fits
  <2>4. Write(p, d, "chunks")
    BY <1>2 DEF NewPartial
  <2> HIDE DEF d
  <2> QED
    BY <2>1, <2>2, <2>3, <2>4, WriteStep DEF Write
<1>3. CASE Chunk(p)
  <2>1. At(p, "chunks") /\ Mine(p) \in Directories /\ Fits("chunks", Mine(p))
    BY <1>3, UsesOwn DEF Chunk
  <2>2. PICK right \in BOOLEAN :
           Write(p, [Mine(p) EXCEPT !.bytes = @ + 1, !.good = @ /\ right], "chunks")
    BY <1>3 DEF Chunk
  <2> DEFINE d == [Mine(p) EXCEPT !.bytes = @ + 1, !.good = @ /\ right]
  <2>3. Mine(p).bytes \in 0 .. Bytes /\ Mine(p).bytes < Bytes /\ Bytes \in Nat
    BY <1>3, <2>1, SetupAssumption DEF Chunk, Directories
  <2>4. Mine(p).bytes + 1 \in 0 .. Bytes
    BY <2>3
  <2>5. (Mine(p).good /\ right) \in BOOLEAN
    BY Zenon
  <2>6. d \in Directories /\ d.kind = "download" /\ d.holds = "partial"
    BY <2>1, <2>4, <2>5 DEF Directories, Fits
  <2>7. Sound(d) /\ Fits("chunks", d)
    BY <2>6 DEF Sound, Fits
  <2>8. Write(p, d, "chunks")
    BY <2>2
  <2> HIDE DEF d
  <2> QED
    BY <2>1, <2>6, <2>7, <2>8, WriteStep DEF Write
<1>4. CASE Unmark(p)
  <2> DEFINE d == [Mine(p) EXCEPT !.marked = FALSE]
  <2>1. /\ At(p, "unmark") /\ Mine(p) \in Directories /\ Sound(Mine(p))
        /\ Fits("unmark", Mine(p))
    BY <1>4, UsesOwn DEF Unmark
  <2>2. CASE Mine(p).alien
    <3>1. Write(p, Mine(p), "verify")
      BY <1>4, <2>2 DEF Unmark
    <3> QED
      BY <2>1, <3>1, WriteStep DEF Write
  <2>3. CASE ~Mine(p).alien
    <3>1. d \in Directories /\ d.kind = "download" /\ d.holds = "nothing"
      BY <2>1 DEF Directories, Fits
    <3>2. Sound(d) /\ Fits("remove", d)
      BY <3>1 DEF Sound, Fits
    <3>3. Write(p, d, "remove")
      BY <1>4, <2>3 DEF Unmark
    <3> HIDE DEF d
    <3> QED
      BY <2>1, <3>1, <3>2, <3>3, WriteStep DEF Write
  <2> QED
    BY <2>2, <2>3
<1>5. CASE RemoveDirectory(p)
  <2>2. At(p, "remove") /\ Write(p, NoStage, "verify")
    BY <1>5 DEF RemoveDirectory
  <2> QED
    BY <2>2, NoStageSound, WriteStep DEF Write
<1>6. CASE Extract(p)
  <2>1. At(p, "extract") /\ Mine(p) \in Directories /\ Fits("extract", Mine(p))
    BY <1>6, UsesOwn DEF Extract
  <2>2. PICK tree \in {"wrong", "pinned"} : Write(p, [Mine(p) EXCEPT !.holds = tree], "tree")
    BY <1>6 DEF Extract
  <2> DEFINE d == [Mine(p) EXCEPT !.holds = tree]
  <2>3. d \in Directories /\ d.kind = "tree" /\ d.marked /\ d.holds = tree
    BY <2>1 DEF Directories, Trees, Fits
  <2>4. Sound(d) /\ Fits("tree", d)
    BY <2>3 DEF Sound, Fits
  <2>5. Write(p, d, "tree")
    BY <2>2
  <2> HIDE DEF d
  <2> QED
    BY <2>1, <2>3, <2>4, <2>5, WriteStep DEF Write
<1>7. CASE Seal(p)
  <2> DEFINE d == [Mine(p) EXCEPT !.holds = IF @ = "pinned" THEN "sealed" ELSE @]
  <2>1. At(p, "seal") /\ Mine(p) \in Directories /\ Fits("seal", Mine(p))
    BY <1>7, UsesOwn DEF Seal
  <2>2. d \in Directories /\ d.kind = "tree" /\ d.marked /\ d.holds = "sealed"
    BY <2>1 DEF Directories, Trees, Fits
  <2>3. Sound(d) /\ Fits("publish", d)
    BY <2>2 DEF Sound, Fits
  <2>4. Write(p, d, "publish")
    BY <1>7 DEF Seal
  <2> HIDE DEF d
  <2> QED
    BY <2>1, <2>2, <2>3, <2>4, WriteStep DEF Write
<1> QED
  BY <1>1, <1>2, <1>3, <1>4, <1>5, <1>6, <1>7

\* It goes on with the directory it uses, or takes one up.
LEMMA UseStep ==
    ASSUME FolderInv, NEW p \in Process, setup[p].pc \notin Outside,
           NEW pc \in Using \cup Looking \cup {"request"}, NEW s \in Stage \cup {None},
           setup' = [setup EXCEPT ![p].pc = pc, ![p].stage = s],
           stages' \in [Stage -> Directories], \A t \in Stage : Sound(stages'[t]),
           workers' = workers, lease' = lease,
           pc \in Using => s # None, pc \notin Fresh,
           pc \in Using \/ (pc = "request" /\ s # None) => Fits(pc, stages'[s]),
           pc \in Extracting \cup {"mark"} => \A w \in workers : w.in # s
    PROVE  FolderInv'
<1> DEFINE x == [setup[p] EXCEPT !.pc = pc, !.stage = s]
<1>1. setup[p] \in Setups /\ lease = p
  BY WorksAlone DEF FolderInv
<1>2. pc \in Pcs
  BY DEF Pcs
<1>3. x \in Setups /\ x.pc = pc /\ x.stage = s
  BY <1>1, <1>2 DEF Setups
<1>4. setup' = [setup EXCEPT ![p] = x]
  OBVIOUS
<1>5. Placed(x, stages') /\ Apart(x, workers')
  BY <1>3 DEF Placed, Apart
<1> HIDE DEF x
<1> QED
  BY <1>1, <1>3, <1>4, <1>5, StepOf DEF FolderInv

LEMMA OwnStep ==
    ASSUME FolderInv, NEW p \in Process,
           setup[p].pc \in Using \/ (setup[p].pc = "request" /\ setup[p].stage # None),
           NEW pc \in Using, Go(p, pc), Fits(pc, Mine(p)),
           stages' = stages, workers' = workers, lease' = lease,
           pc \in Extracting \cup {"mark"} => setup[p].pc \in Extracting \cup {"mark"}
    PROVE  FolderInv'
<1> DEFINE x == [setup[p] EXCEPT !.pc = pc]
<1>1. setup[p] \in Setups /\ setup[p].stage \in Stage /\ lease = p /\ Apart(setup[p], workers)
  BY UsesOwn
<1>2. pc \in Pcs /\ pc \notin Fresh
  BY DEF Pcs, Using, Downloading, Emptied, Extracting, Fresh
<1>3. x.pc = pc /\ x.stage = setup[p].stage
  BY <1>1 DEF Setups
<1> HIDE DEF x
<1>4. Placed(x, stages) /\ Apart(x, workers)
  BY <1>1, <1>2, <1>3, SetupAssumption DEF Placed, Apart, Mine
<1> QED
  BY <1>1, <1>2, <1>4, GoStep DEF x

LEMMA Uses ==
    ASSUME FolderInv, NEW p \in Process,
           \/ Respond(p) \/ Received(p) \/ HashMatches(p) \/ CheckTree(p)
           \/ FindDownload(p) \/ NewDownload(p) \/ NewTree(p)
    PROVE  FolderInv'
<1> USE DEF At, folder, Looking, Using, Downloading, Emptied, Extracting, Fresh
<1>0. stages \in [Stage -> Directories] /\ \A t \in Stage : Sound(stages[t])
  BY DEF FolderInv
<1>s. setup[p] \in Setups /\ setup[p].stage \in Stage \cup {None}
  BY DEF FolderInv, Setups
<1>1. CASE Respond(p)
  <2>1. At(p, "request") /\ setup[p].pc \notin Outside
    BY <1>1 DEF Respond, Outside
  <2>2. CASE setup[p].stage = None
    BY <1>1, <2>1, <2>2, WorksAlone, PassStep DEF Respond
  <2>3. CASE setup[p].stage # None
    <3>1. Fits("request", Mine(p))
      BY <2>1, <2>3, UsesOwn
    <3>2. PICK pc \in {"hash", "chunks"} : Go(p, pc)
      BY <1>1, <2>3 DEF Respond
    <3>3. Fits(pc, Mine(p))
      BY <3>1, <3>2 DEF Fits
    <3> QED
      BY <1>1, <2>1, <2>3, <3>2, <3>3, OwnStep DEF Respond
  <2> QED
    BY <2>2, <2>3
<1>2. CASE Received(p)
  <2>1. At(p, "chunks") /\ Go(p, "hash")
    BY <1>2 DEF Received
  <2>2. Fits("hash", Mine(p))
    BY <2>1, UsesOwn DEF Fits
  <2> QED
    BY <1>2, <2>1, <2>2, OwnStep DEF Received
<1>3. CASE HashMatches(p)
  <2>1. At(p, "hash") /\ Go(p, "move") /\ Mine(p).good
    BY <1>3 DEF HashMatches
  <2>2. Fits("move", Mine(p))
    BY <2>1, UsesOwn DEF Fits
  <2> QED
    BY <1>3, <2>1, <2>2, OwnStep DEF HashMatches
<1>4. CASE CheckTree(p)
  <2>1. At(p, "tree") /\ Go(p, "seal") /\ Mine(p).holds = "pinned"
    BY <1>4 DEF CheckTree, MatchesPinned
  <2>2. Fits("seal", Mine(p))
    BY <2>1, UsesOwn DEF Fits
  <2> QED
    BY <1>4, <2>1, <2>2, OwnStep DEF CheckTree
<1>5. CASE FindDownload(p)
  <2>1. At(p, "archive") /\ setup[p].pc \notin Outside
    BY <1>5 DEF FindDownload, Outside
  <2>2. CASE Go(p, "request")
    <3> DEFINE x == [setup[p] EXCEPT !.pc = "request"]
    <3>1. setup[p].stage = None
      BY <2>1 DEF FolderInv, Placed
    <3>2. x.pc = "request" /\ x.stage = None
      BY <1>s, <3>1 DEF Setups
    <3> HIDE DEF x
    <3>3. Placed(x, stages) /\ Apart(x, workers)
      BY <3>2 DEF Placed, Apart
    <3>4. stages' = stages /\ workers' = workers /\ lease' = lease /\ lease = p
      BY <1>5, <2>1, WorksAlone DEF FindDownload
    <3> QED
      BY <2>2, <3>3, <3>4, GoStep DEF x, Pcs
  <2>3. ASSUME NEW s \in Stage, Resumable(stages[s]),
               setup' = [setup EXCEPT ![p].stage = s, ![p].pc = "request"]
        PROVE  FolderInv'
    <3>1. setup' = [setup EXCEPT ![p].pc = "request", ![p].stage = s]
      BY <1>s, <2>3 DEF FolderInv, Setups
    <3>2. Fits("request", stages[s])
      BY <2>3 DEF Fits, Resumable
    <3>3. stages' = stages /\ workers' = workers /\ lease' = lease
      BY <1>5 DEF FindDownload
    <3>4. s # None /\ "request" \notin Using /\ "request" \notin Fresh
          /\ "request" \notin Extracting \cup {"mark"}
      BY SetupAssumption
    <3> HIDE DEF Looking, Using, Downloading, Emptied, Extracting, Fresh
    <3> QED
      BY <1>0, <2>1, <3>1, <3>2, <3>3, <3>4, UseStep
  <2> QED
    BY <1>5, <2>2, <2>3 DEF FindDownload
<1>6. ASSUME NEW kind \in {"download", "tree"}, NEW pc \in {"new download", "new tree"},
             NewStage(p, kind, pc)
      PROVE  FolderInv'
  <2>1. setup[p].pc \notin Outside
    BY <1>6 DEF NewStage, Outside
  <2>2. PICK s \in Stage :
           /\ stages[s] = NoStage
           /\ \A w \in workers : w.in # s
           /\ stages' = [stages EXCEPT ![s].kind = kind]
           /\ setup' = [setup EXCEPT ![p].stage = s, ![p].pc = "mark"]
    BY <1>6 DEF NewStage
  <2> DEFINE d == [NoStage EXCEPT !.kind = kind]
  <2>3. d \in Directories /\ Sound(d) /\ Fits("mark", d)
    <3>1. NoStage \in Directories /\ NoStage.holds = "nothing"
      BY NoStageSound DEF NoStage
    <3>2. d \in Directories /\ d.kind = kind /\ d.holds = "nothing"
      BY <3>1 DEF Directories
    <3> QED
      BY <3>2 DEF Sound, Fits
  <2>4. stages' = [stages EXCEPT ![s] = d]
    BY <2>2
  <2> HIDE DEF d
  <2>5. stages' \in [Stage -> Directories] /\ \A t \in Stage : Sound(stages'[t])
    BY <1>0, <2>3, <2>4
  <2>6. stages'[s] = d
    BY <1>0, <2>4
  <2>7. setup' = [setup EXCEPT ![p].pc = "mark", ![p].stage = s]
    BY <1>s, <2>2 DEF FolderInv, Setups
  <2>8. workers' = workers /\ lease' = lease /\ s # None
    BY <1>6, SetupAssumption DEF NewStage
  <2>9. "mark" \in Using /\ "mark" \notin Fresh
    OBVIOUS
  <2> HIDE DEF Looking, Using, Downloading, Emptied, Extracting, Fresh
  <2> QED
    BY <2>1, <2>2, <2>3, <2>5, <2>6, <2>7, <2>8, <2>9, UseStep
<1> QED
  BY <1>1, <1>2, <1>3, <1>4, <1>5, <1>6 DEF NewDownload, NewTree

-----------------------------------------------------------------------------
\* It ends; what it leaves is nobody's.
LEMMA EndStep ==
    ASSUME FolderInv, NEW p \in Process, setup' = [setup EXCEPT ![p] = NoSetup],
           stages' \in [Stage -> Directories], \A s \in Stage : Sound(stages'[s]),
           lease' = None \/ lease' = lease, lease = p \/ lease' = lease,
           lease = p \/ (stages' = stages /\ workers' \subseteq workers)
    PROVE  FolderInv'
<1>1. NoSetup \in Setups /\ NoSetup.pc = "idle" /\ NoSetup.stage = None
  BY DEF NoSetup, Setups, Pcs, Outside
<1>2. Placed(NoSetup, stages') /\ Apart(NoSetup, workers')
  BY <1>1 DEF Placed, Apart, Using, Downloading, Emptied, Extracting
<1>3. NoSetup.pc \in Outside
  BY <1>1 DEF Outside
<1>4. lease' \in Process \cup {None}
  BY DEF FolderInv
<1> QED
  BY <1>1, <1>2, <1>3, <1>4, StepOf

LEMMA Changed ==
    ASSUME FolderInv, NEW s \in Stage, NEW d \in Directories, Sound(d),
           stages' = [stages EXCEPT ![s] = d]
    PROVE  /\ stages' \in [Stage -> Directories] /\ \A t \in Stage : Sound(stages'[t])
           /\ stages'[s] = d /\ \A t \in Stage \ {s} : stages'[t] = stages[t]
BY DEF FolderInv

LEMMA Lasts ==
    ASSUME FolderInv, NEW p \in Process,
           \/ MoveArchive(p) \/ Publish(p) \/ RetireStage(p)
    PROVE  FolderInv'
<1> USE DEF At
<1>0. stages \in [Stage -> Directories] /\ \A s \in Stage : Sound(stages[s])
  BY DEF FolderInv
<1>1. CASE MoveArchive(p)
  <2> DEFINE d == [Mine(p) EXCEPT !.holds = "nothing", !.bytes = 0, !.good = TRUE]
  <2>1. setup[p].pc = "move" /\ setup[p].pc \in Using /\ Go(p, "unmark")
    BY <1>1 DEF MoveArchive, Using, Downloading
  <2>2. Mine(p) \in Directories /\ Sound(Mine(p)) /\ Fits("move", Mine(p))
        /\ setup[p].stage \in Stage
    BY <2>1, UsesOwn
  <2>3. stages' = [stages EXCEPT ![setup[p].stage] = d]
    BY <1>0, <1>1, <2>2 DEF MoveArchive, Mine
  <2>4. d \in Directories /\ d.kind = Mine(p).kind /\ d.holds = "nothing"
    <3>1. 0 \in 0 .. Bytes
      BY NoStageSound DEF NoStage, Directories
    <3> QED
      BY <2>2, <3>1 DEF Directories
  <2>5. Sound(d) /\ Fits("unmark", d)
    BY <2>2, <2>4 DEF Sound, Fits, Downloading, Emptied, Extracting
  <2>6. "unmark" \in Using \ {"mark"} /\ "unmark" \notin Fresh /\ "unmark" \notin Extracting
    BY DEF Using, Downloading, Emptied, Extracting, Fresh
  <2>7. lease' = lease /\ workers' = workers
    BY <1>1 DEF MoveArchive
  <2> HIDE DEF d
  <2> QED
    BY <2>1, <2>3, <2>4, <2>5, <2>6, <2>7, WriteStep
<1>2. CASE Publish(p)
  <2> DEFINE x == [setup[p] EXCEPT !.pc = "installed", !.stage = None]
  <2>1. setup[p].pc = "publish" /\ setup[p].pc \in Using
    BY <1>2 DEF Publish, Using, Extracting
  <2>2. setup[p] \in Setups /\ setup[p].stage \in Stage /\ lease = p
    BY <2>1, UsesOwn
  <2>3. x \in Setups /\ x.pc = "installed" /\ x.stage = None
    BY <2>2 DEF Setups, Pcs, Outside
  <2>4. setup' = [setup EXCEPT ![p] = x]
    BY <1>2 DEF Publish
  <2> HIDE DEF x
  <2>5. stages' \in [Stage -> Directories] /\ \A t \in Stage : Sound(stages'[t])
    BY <1>2, <2>2, Changed, NoStageSound DEF Publish
  <2>6. Placed(x, stages') /\ Apart(x, workers')
    BY <2>3 DEF Placed, Apart, Using, Downloading, Emptied, Extracting
  <2>7. lease' = None /\ x.pc \in Outside
    BY <1>2, <2>3 DEF Publish, Outside
  <2> QED
    BY <2>2, <2>3, <2>4, <2>5, <2>6, <2>7, StepOf
<1>3. CASE RetireStage(p)
  <2>1. setup[p].pc \in {"retire", "retire again"} /\ workers' = workers
    BY <1>3 DEF RetireStage
  <2>2. lease = p
    BY <2>1, WorksAlone DEF Outside
  <2>3. PICK s \in Stage :
           /\ OwnedTree(stages[s])
           /\ \/ stages' = [stages EXCEPT ![s] = NoStage] /\ UNCHANGED <<setup, lease>>
              \/ /\ \E m \in BOOLEAN, a \in {FALSE, stages[s].alien} :
                      stages' = [stages EXCEPT ![s].marked = m, ![s].alien = a,
                                               ![s].holds = "part"]
                 /\ setup' = [setup EXCEPT ![p] = NoSetup] /\ Release(p)
    BY <1>3 DEF RetireStage
  <2>4. CASE stages' = [stages EXCEPT ![s] = NoStage] /\ UNCHANGED <<setup, lease>>
    <3>1. setup[p] \in Setups /\ setup' = [setup EXCEPT ![p] = setup[p]]
      BY <2>4 DEF FolderInv
    <3>2. stages' \in [Stage -> Directories] /\ \A t \in Stage : Sound(stages'[t])
      BY <2>4, Changed, NoStageSound
    <3>3. Placed(setup[p], stages)
      BY DEF FolderInv
    <3>4. Placed(setup[p], stages') /\ Apart(setup[p], workers')
      BY <2>1, <3>3 DEF Placed, Apart, Using, Downloading, Emptied, Extracting
    <3>5. lease' \in Process \cup {None} /\ lease' = p
      BY <2>2, <2>4
    <3> QED
      BY <2>2, <3>1, <3>2, <3>4, <3>5, StepOf
  <2>5. ASSUME NEW m \in BOOLEAN, NEW a \in {FALSE, stages[s].alien},
               stages' = [stages EXCEPT ![s].marked = m, ![s].alien = a,
                                        ![s].holds = "part"],
               setup' = [setup EXCEPT ![p] = NoSetup], Release(p)
        PROVE  FolderInv'
    <3> DEFINE d == [stages[s] EXCEPT !.marked = m, !.alien = a, !.holds = "part"]
    <3>1. d \in Directories /\ d.kind = "tree"
      BY <1>0, <2>3 DEF Directories, OwnedTree, Trees
    <3>2. Sound(d)
      BY <1>0, <3>1 DEF Sound
    <3>3. stages' = [stages EXCEPT ![s] = d]
      BY <1>0, <2>5
    <3> HIDE DEF d
    <3>4. stages' \in [Stage -> Directories] /\ \A t \in Stage : Sound(stages'[t])
      BY <3>1, <3>2, <3>3, Changed
    <3>5. lease' = None
      BY <2>2, <2>5 DEF Release
    <3> QED
      BY <2>2, <2>5, <3>4, <3>5, EndStep
  <2> QED
    BY <2>3, <2>4, <2>5
<1> QED
  BY <1>1, <1>2, <1>3

LEMMA Launches ==
    ASSUME FolderInv, NEW p \in Process,
           \/ Spawn(p) \/ SaveReceipt(p) \/ Cancel(p) \/ Kill(p)
    PROVE  FolderInv'
<1> USE DEF At, folder
<1>0. stages \in [Stage -> Directories] /\ \A s \in Stage : Sound(stages[s])
  BY DEF FolderInv
<1>1. CASE Spawn(p)
  <2>1. PICK i \in Pid : setup' = [setup EXCEPT ![p].child = i, ![p].pc = "waiting"]
    BY <1>1 DEF Spawn
  <2> DEFINE x == [setup[p] EXCEPT !.child = i, !.pc = "waiting"]
  <2>2. setup[p] \in Setups
    BY DEF FolderInv
  <2>3. x \in Setups /\ x.pc = "waiting"
    BY <2>2 DEF Setups, Pcs, Starting
  <2>4. setup' = [setup EXCEPT ![p] = x]
    BY <2>1
  <2> HIDE DEF x
  <2>5. Placed(x, stages') /\ Apart(x, workers')
    BY <2>3 DEF Placed, Apart, Using, Downloading, Emptied, Extracting, Fresh
  <2>6. lease = None /\ lease' = p /\ stages' = stages /\ workers' = workers
    BY <1>1 DEF Spawn, LeaseFree
  <2> QED
    BY <1>0, <2>3, <2>4, <2>5, <2>6, StepOf
<1>2. CASE SaveReceipt(p)
  <2>1. setup[p].pc = "save" /\ setup' = [setup EXCEPT ![p] = NoSetup] /\ stages' = stages
        /\ lease' = None
    BY <1>2 DEF SaveReceipt
  <2>2. lease = p
    BY <2>1, WorksAlone DEF Outside
  <2> QED
    BY <1>0, <2>1, <2>2, EndStep
<1>3. CASE Cancel(p)
  <2>1. setup' = [setup EXCEPT ![p] = NoSetup] /\ stages' = stages /\ Release(p)
        /\ workers' \in {workers, workers \cup Left(p)}
    BY <1>3 DEF Cancel
  <2>2. setup[p].pc \in Outside => Left(p) = {}
    BY DEF Left, Outside
  <2>3. lease = p \/ workers' \subseteq workers
    BY <2>1, <2>2, WorksAlone
  <2> QED
    BY <1>0, <2>1, <2>3, EndStep DEF Release
<1>4. CASE Kill(p)
  <2>1. setup' = [setup EXCEPT ![p] = NoSetup] /\ stages' = stages /\ Release(p)
        /\ workers' \subseteq workers
    BY <1>4 DEF Kill
  <2> QED
    BY <1>0, <2>1, EndStep DEF Release
<1> QED
  BY <1>1, <1>2, <1>3, <1>4

LEMMA OthersKeepFolder ==
    ASSUME FolderInv, Others
    PROVE  FolderInv'
<1>0. stages \in [Stage -> Directories] /\ \A s \in Stage : Sound(stages[s])
  BY DEF FolderInv
<1>1. ASSUME UNCHANGED <<setup, lease>>, workers' \subseteq workers,
             stages' \in [Stage -> Directories], \A s \in Stage : Sound(stages'[s]),
             \A p \in Process : Placed(setup[p], stages')
      PROVE  FolderInv'
  BY <1>1 DEF FolderInv, Apart
<1>2. CASE Unpacks
  <2>1. PICK s \in Stage :
           /\ \/ \E p \in Process : At(p, "extract") /\ setup[p].stage = s
              \/ \E w \in workers : w.in = s
           /\ stages[s].kind = "tree"
           /\ stages' = [stages EXCEPT ![s].holds = "part"]
    BY <1>2 DEF Unpacks
  <2> DEFINE d == [stages[s] EXCEPT !.holds = "part"]
  <2>2. d \in Directories /\ d.kind = "tree" /\ d.marked = stages[s].marked
    BY <1>0, <2>1 DEF Directories, Trees
  <2>3. Sound(d)
    BY <1>0, <2>2 DEF Sound
  <2>4. stages' = [stages EXCEPT ![s] = d]
    BY <1>0, <2>1
  <2> HIDE DEF d
  <2>5. /\ stages' \in [Stage -> Directories] /\ \A t \in Stage : Sound(stages'[t])
        /\ stages'[s] = d /\ \A t \in Stage \ {s} : stages'[t] = stages[t]
    BY <2>2, <2>3, <2>4, Changed
  <2>6. ASSUME NEW p \in Process PROVE Placed(setup[p], stages')
    <3> DEFINE x == setup[p]
    <3>1. x \in Setups /\ Placed(x, stages) /\ Apart(x, workers)
      BY DEF FolderInv
    <3>2. CASE x.stage # s
      BY <2>5, <3>1, <3>2 DEF Placed, Setups
    <3>3. CASE x.stage = s /\ x.pc = "extract"
      BY <2>2, <2>5, <3>1, <3>3 DEF Placed, Fits, Using, Downloading, Emptied, Extracting, Fresh
    <3>4. CASE x.stage = s /\ x.pc # "extract"
      <4>1. CASE \E w \in workers : w.in = s
        <5>1. x.pc \notin Extracting \cup {"mark"}
          BY <3>1, <3>4, <4>1 DEF Apart
        <5>2. x.pc \notin Using \cup {"request"} \/ Fits(x.pc, stages[s])
          BY <3>1, <3>4, SetupAssumption DEF Placed
        <5>3. x.pc \notin Using \cup {"request"}
          BY <2>1, <5>1, <5>2 DEF Fits, Using
        <5> QED
          BY <3>1, <5>3 DEF Placed
      <4>2. CASE \E q \in Process : At(q, "extract") /\ setup[q].stage = s
        <5>1. x.pc \in Outside
          BY <3>4, <4>2 DEF FolderInv, At, Outside
        <5> QED
          BY <3>1, <5>1, Elsewhere
      <4> QED
        BY <2>1, <4>1, <4>2
    <3> QED
      BY <3>2, <3>3, <3>4
  <2> QED
    BY <1>1, <1>2, <2>5, <2>6 DEF Unpacks
<1>3. CASE UserChanges
  <2>1. CASE stages' = stages
    BY <1>1, <1>3, <2>1 DEF UserChanges, FolderInv
  <2>2. ASSUME NEW s \in Stage,
               stages' = [stages EXCEPT ![s].alien = TRUE,
                                        ![s].kind = IF @ = "none" THEN "tree" ELSE @]
        PROVE  FolderInv'
    <3> DEFINE k == IF stages[s].kind = "none" THEN "tree" ELSE stages[s].kind
               d == [stages[s] EXCEPT !.alien = TRUE, !.kind = k]
    <3>1. k \in {"none", "download", "tree"} /\ (stages[s].kind # "none" => k = stages[s].kind)
          /\ k # "none"
      BY <1>0 DEF Directories
    <3>2. stages' = [stages EXCEPT ![s] = d]
      BY <1>0, <2>2
    <3> HIDE DEF k
    <3>3. /\ d \in Directories /\ d.kind = k /\ d.holds = stages[s].holds
          /\ d.marked = stages[s].marked /\ d.good = stages[s].good
      BY <1>0, <3>1 DEF Directories
    <3>4. Sound(d)
      BY <1>0, <3>1, <3>3 DEF Sound
    <3> HIDE DEF d
    <3>5. /\ stages' \in [Stage -> Directories] /\ \A t \in Stage : Sound(stages'[t])
          /\ stages'[s] = d /\ \A t \in Stage \ {s} : stages'[t] = stages[t]
      BY <3>2, <3>3, <3>4, Changed
    <3>6. ASSUME NEW p \in Process PROVE Placed(setup[p], stages')
      <4> DEFINE x == setup[p]
      <4>1. x \in Setups /\ Placed(x, stages)
        BY DEF FolderInv
      <4>2. CASE x.stage # s
        BY <3>5, <4>1, <4>2 DEF Placed, Setups
      <4>3. CASE x.stage = s /\ stages[s].kind # "none"
        BY <3>1, <3>3, <3>5, <4>1, <4>3 DEF Placed, Fits
      <4>4. CASE x.stage = s /\ stages[s].kind = "none"
        <5>1. x.pc \notin Using \cup {"request"} \/ Fits(x.pc, stages[s])
          BY <4>1, <4>4, SetupAssumption DEF Placed
        <5>2. x.pc \notin Using \cup {"request"}
          BY <4>4, <5>1 DEF Fits, Using
        <5> QED
          BY <4>1, <5>2 DEF Placed
      <4> QED
        BY <4>2, <4>3, <4>4
    <3> QED
      BY <1>1, <1>3, <3>5, <3>6 DEF UserChanges
  <2> QED
    BY <1>3, <2>1, <2>2 DEF UserChanges
<1>4. CASE WorkerEnds \/ ProgramStarts \/ Listens \/ ProgramEnds
  BY <1>1, <1>4 DEF WorkerEnds, ProgramStarts, Listens, ProgramEnds, folder, FolderInv
<1> QED
  BY <1>2, <1>3, <1>4 DEF Others

-----------------------------------------------------------------------------
(***************************************************************************)
(* What has been published: a setup that publishes holds the pinned tree   *)
(* with its receipt, and one that moves an archive has found its bytes to  *)
(* be the pinned ones.  The identifiers keep their types besides.          *)
(***************************************************************************)
NothingBad == /\ final \in {"none", "pinned", "changed"}
              /\ archive \in {"none", "pinned", "changed"}

PublishedInv == NothingBad /\ port \in Pid \cup {None} /\ changes \in Nat

LEMMA InitFolder == Init => FolderInv /\ PublishedInv
<1> SUFFICES ASSUME Init PROVE FolderInv /\ PublishedInv
  OBVIOUS
<1>1. NoSetup \in Setups /\ NoSetup.pc = "idle" /\ NoSetup.stage = None
  BY DEF NoSetup, Setups, Pcs, Outside
<1>2. Placed(NoSetup, stages) /\ Apart(NoSetup, workers)
  BY <1>1 DEF Placed, Apart, Using, Downloading, Emptied, Extracting
<1>3. NoSetup.pc \in Outside
  BY <1>1 DEF Outside
<1> QED
  BY <1>1, <1>2, <1>3, NoStageSound DEF Init, FolderInv, PublishedInv, NothingBad

LEMMA FolderStep == FolderInv /\ [Next]_vars => FolderInv'
<1> SUFFICES ASSUME FolderInv, [Next]_vars PROVE FolderInv'
  OBVIOUS
<1>1. CASE UNCHANGED vars
  BY <1>1 DEF FolderInv, vars, folder, Apart
<1>2. ASSUME NEW p \in Process, Step(p) PROVE FolderInv'
  BY <1>2, Passes, Writes, Uses, Lasts, Launches DEF Step
<1> QED
  BY <1>1, <1>2, OthersKeepFolder DEF Next

LEMMA PublishedStep == FolderInv /\ PublishedInv /\ [Next]_vars => PublishedInv'
<1> SUFFICES ASSUME FolderInv, PublishedInv, [Next]_vars PROVE PublishedInv'
  OBVIOUS
<1> USE DEF PublishedInv, NothingBad
<1>0. ASSUME changes' = changes, NothingBad', port' \in Pid \cup {None} PROVE PublishedInv'
  BY <1>0
<1>1. ASSUME UNCHANGED <<final, archive, port, changes>> PROVE PublishedInv'
  BY <1>1
<1>2. CASE UNCHANGED vars
  BY <1>1, <1>2 DEF vars, folder, system, history
<1>3. ASSUME NEW p \in Process, Step(p) PROVE PublishedInv'
  <2>1. CASE Publish(p)
    <3>1. setup[p].pc = "publish"
      BY <2>1 DEF Publish, At
    <3>2. Mine(p).holds = "sealed"
      BY <3>1, UsesOwn DEF Fits, Using, Extracting
    <3>3. final' \in {"pinned", "changed"}
      BY <2>1, <3>2 DEF Publish, Published
    <3> QED
      BY <2>1, <3>3 DEF Publish, system, history
  <2>2. CASE MoveArchive(p)
    <3>1. setup[p].pc = "move"
      BY <2>2 DEF MoveArchive, At
    <3>2. Mine(p).good
      BY <3>1, UsesOwn DEF Fits, Using, Downloading
    <3>3. archive' = "pinned"
      BY <2>2, <3>2 DEF MoveArchive
    <3> QED
      BY <2>2, <3>3 DEF MoveArchive, system, history
  <2>3. CASE Cancel(p)
    BY <2>3 DEF Cancel, Drop, folder, history
  <2>4. CASE Begin(p) \/ Acquire(p) \/ HashesEnded(p) \/ AlreadyInstalled(p) \/ NotInstalled(p)
             \/ RetireStage(p) \/ AllRetired(p) \/ ArchiveThere(p) \/ ArchiveVerified(p)
    BY <1>1, <2>4 DEF Begin, Acquire, HashesEnded, AlreadyInstalled, NotInstalled,
         RetireStage, AllRetired, ArchiveThere, ArchiveVerified, folder, system, history
  <2>5. CASE FindDownload(p) \/ Respond(p) \/ NewDownload(p) \/ NewTree(p) \/ Mark(p)
             \/ NewPartial(p) \/ Chunk(p) \/ Received(p) \/ HashMatches(p)
    BY <1>1, <2>5 DEF FindDownload, Respond, NewDownload, NewTree, NewStage, Mark, NewPartial,
         Chunk, Received, HashMatches, Write, folder, system, history
  <2>6. CASE Unmark(p) \/ RemoveDirectory(p) \/ Extract(p) \/ CheckTree(p) \/ Seal(p)
    BY <1>1, <2>6 DEF Unmark, RemoveDirectory, Extract, CheckTree, Seal, Write, folder, system, history
  <2>7. CASE Spawn(p) \/ Answers(p) \/ StillOwner(p) \/ RecordLaunch(p) \/ SaveReceipt(p)
             \/ Kill(p)
    BY <1>1, <2>7 DEF Spawn, Answers, StillOwner, RecordLaunch, SaveReceipt, Kill, folder, system, history
  <2> QED
    BY <1>3, <2>1, <2>2, <2>3, <2>4, <2>5, <2>6, <2>7 DEF Step
<1>4. CASE Unpacks \/ WorkerEnds \/ ProgramStarts
  BY <1>1, <1>4 DEF Unpacks, WorkerEnds, ProgramStarts, folder, system, history
<1>5. CASE UserChanges
  <2>1. changes' \in Nat /\ port' = port
    BY <1>5 DEF UserChanges, system
  <2>2. NothingBad'
    BY <1>5 DEF UserChanges
  <2> QED
    BY <2>1, <2>2
<1>6. CASE Listens \/ ProgramEnds
  BY <1>6 DEF Listens, ProgramEnds, folder, history
<1> QED
  BY <1>2, <1>3, <1>4, <1>5, <1>6 DEF Next, Others

LEMMA SetupInductive == Spec => [](FolderInv /\ PublishedInv)
<1>1. Init => FolderInv /\ PublishedInv
  BY InitFolder
<1>2. FolderInv /\ PublishedInv /\ [Next]_vars => (FolderInv /\ PublishedInv)'
  BY FolderStep, PublishedStep
<1> QED
  BY <1>1, <1>2, PTL DEF Spec

(***************************************************************************)
(* Whatever setups run, are cancelled or killed, the directory and the     *)
(* archive they put under their final names are the pinned ones.           *)
(***************************************************************************)
THEOREM PublishesPinned == Spec => []FilesInv
<1>1. FolderInv /\ PublishedInv => FilesInv
  <2> SUFFICES ASSUME FolderInv, PublishedInv PROVE FilesInv
    OBVIOUS
  <2>1. \A p \in Process : setup[p].stage \in Stage \cup {None}
                           /\ setup[p].child \in Pid \cup {None}
    BY DEF FolderInv, Setups
  <2>2. \A s \in Stage : stages[s].bytes \in 0 .. Bytes
    BY DEF FolderInv, Directories
  <2>3. lease \in Process \cup {None}
    BY DEF FolderInv
  <2> QED
    BY <2>1, <2>2, <2>3 DEF FilesInv, TypeOK, PublishedIsPinned, PublishedInv, NothingBad
<1> QED
  BY <1>1, SetupInductive, PTL

-----------------------------------------------------------------------------
(***************************************************************************)
(* What a step may throw away.                                             *)
(***************************************************************************)
Keeps == KeepsUsers /\ KeepsBytes

LEMMA KeepsAll ==
    ASSUME FolderInv, stages' = stages, final # "none" => final' = final,
           archive # "none" => archive' = archive
    PROVE  Keeps
<1>1. \A s \in Stage : stages[s].bytes \in Nat
  BY SetupAssumption DEF FolderInv, Directories
<1> QED
  BY <1>1 DEF Keeps, KeepsUsers, KeepsBytes

LEMMA KeepsRest ==
    ASSUME FolderInv, NEW s \in Stage, NEW d, stages' = [stages EXCEPT ![s] = d],
           final # "none" => final' = final, archive # "none" => archive' = archive,
           stages[s].alien =>
               d.alien \/ Retiring(s) \/ (final = "none" /\ final' = "changed"),
           stages[s].holds = "partial" =>
               \/ d.holds = "partial" /\ d.bytes >= stages[s].bytes
               \/ archive = "none" /\ archive' # "none"
    PROVE  Keeps
<1>1. \A t \in Stage : stages[t].bytes \in Nat
  BY SetupAssumption DEF FolderInv, Directories
<1>2. stages'[s] = d /\ \A t \in Stage \ {s} : stages'[t] = stages[t]
  BY DEF FolderInv
<1> QED
  BY <1>1, <1>2 DEF Keeps, KeepsUsers, KeepsBytes

LEMMA WritesKeep ==
    ASSUME FolderInv, NEW p \in Process,
           \/ Mark(p) \/ NewPartial(p) \/ Chunk(p) \/ Unmark(p) \/ RemoveDirectory(p)
           \/ Extract(p) \/ Seal(p)
    PROVE  Keeps
<1> USE DEF At, Using, Downloading, Emptied, Extracting
<1>1. setup[p].pc \in Using
  BY DEF Mark, NewPartial, Chunk, Unmark, RemoveDirectory, Extract, Seal
<1>2. /\ setup[p].stage \in Stage /\ Mine(p) \in Directories /\ Sound(Mine(p))
      /\ Fits(setup[p].pc, Mine(p))
  BY <1>1, UsesOwn
<1>3. Mine(p).bytes \in Nat
  BY <1>2, SetupAssumption DEF Directories
<1>4. ASSUME NEW d, NEW pc, Write(p, d, pc), Mine(p).alien => d.alien,
             Mine(p).holds = "partial" => d.holds = "partial" /\ d.bytes >= Mine(p).bytes
      PROVE  Keeps
  BY <1>2, <1>4, KeepsRest DEF Write, Mine
<1>5. CASE Mark(p)
  <2> DEFINE d == [Mine(p) EXCEPT !.marked = TRUE]
  <2>1. \E pc : Write(p, d, pc)
    BY <1>5 DEF Mark
  <2>2. d.alien = Mine(p).alien /\ d.holds = Mine(p).holds /\ d.bytes = Mine(p).bytes
    BY <1>2 DEF Directories
  <2> HIDE DEF d
  <2> QED
    BY <1>3, <1>4, <2>1, <2>2
<1>6. CASE NewPartial(p)
  <2> DEFINE d == [Mine(p) EXCEPT !.holds = "partial"]
  <2>1. Write(p, d, "chunks") /\ Mine(p).holds = "nothing"
    BY <1>2, <1>6 DEF NewPartial, Fits
  <2>2. d.alien = Mine(p).alien
    BY <1>2 DEF Directories
  <2> HIDE DEF d
  <2> QED
    BY <1>4, <2>1, <2>2
<1>7. CASE Chunk(p)
  <2>1. PICK right \in BOOLEAN :
           Write(p, [Mine(p) EXCEPT !.bytes = @ + 1, !.good = @ /\ right], "chunks")
    BY <1>7 DEF Chunk
  <2> DEFINE d == [Mine(p) EXCEPT !.bytes = @ + 1, !.good = @ /\ right]
  <2>2. d.alien = Mine(p).alien /\ d.holds = Mine(p).holds /\ d.bytes = Mine(p).bytes + 1
    BY <1>2 DEF Directories
  <2>3. Write(p, d, "chunks")
    BY <2>1
  <2> HIDE DEF d
  <2> QED
    BY <1>3, <1>4, <2>2, <2>3
<1>8. CASE Unmark(p)
  <2> DEFINE d == [Mine(p) EXCEPT !.marked = FALSE]
  <2>1. Write(p, Mine(p), "verify") \/ Write(p, d, "remove")
    BY <1>8 DEF Unmark
  <2>2. d.alien = Mine(p).alien /\ Mine(p).holds = "nothing"
    BY <1>2, <1>8 DEF Directories, Unmark, Fits
  <2> HIDE DEF d
  <2> QED
    BY <1>4, <2>1, <2>2
<1>9. CASE RemoveDirectory(p)
  <2>1. Write(p, NoStage, "verify") /\ ~Mine(p).alien /\ Mine(p).holds = "nothing"
    BY <1>2, <1>9 DEF RemoveDirectory, Fits
  <2> QED
    BY <1>4, <2>1
<1>10. CASE Extract(p)
  <2>1. PICK tree : Write(p, [Mine(p) EXCEPT !.holds = tree], "tree")
    BY <1>10 DEF Extract
  <2> DEFINE d == [Mine(p) EXCEPT !.holds = tree]
  <2>2. d.alien = Mine(p).alien /\ Mine(p).holds # "partial"
    BY <1>2, <1>10 DEF Directories, Extract, Fits, Sound
  <2>3. Write(p, d, "tree")
    BY <2>1
  <2> HIDE DEF d
  <2> QED
    BY <1>4, <2>2, <2>3
<1>11. CASE Seal(p)
  <2> DEFINE d == [Mine(p) EXCEPT !.holds = IF @ = "pinned" THEN "sealed" ELSE @]
  <2>1. Write(p, d, "publish")
    BY <1>11 DEF Seal
  <2>2. d.alien = Mine(p).alien /\ Mine(p).holds = "pinned"
    BY <1>2, <1>11 DEF Directories, Seal, Fits
  <2> HIDE DEF d
  <2> QED
    BY <1>4, <2>1, <2>2
<1> QED
  BY <1>5, <1>6, <1>7, <1>8, <1>9, <1>10, <1>11

LEMMA LastsKeep ==
    ASSUME FolderInv, NEW p \in Process,
           \/ MoveArchive(p) \/ Publish(p) \/ RetireStage(p) \/ NewDownload(p) \/ NewTree(p)
    PROVE  Keeps
<1> USE DEF At, Using, Downloading, Emptied, Extracting
<1>0. stages \in [Stage -> Directories] /\ \A s \in Stage : Sound(stages[s])
  BY DEF FolderInv
<1>1. CASE MoveArchive(p)
  <2> DEFINE s == setup[p].stage
             d == [Mine(p) EXCEPT !.holds = "nothing", !.bytes = 0, !.good = TRUE]
  <2>1. s \in Stage /\ Mine(p) \in Directories
    BY <1>1, UsesOwn DEF MoveArchive
  <2>2. stages' = [stages EXCEPT ![s] = d]
    BY <1>0, <1>1, <2>1 DEF MoveArchive, Mine
  <2>3. d.alien = stages[s].alien
    BY <2>1 DEF Directories, Mine
  <2>4. archive = "none" /\ archive' # "none" /\ final' = final
    BY <1>1 DEF MoveArchive
  <2> HIDE DEF d
  <2> QED
    BY <2>1, <2>2, <2>3, <2>4, KeepsRest
<1>2. CASE Publish(p)
  <2>1. /\ setup[p].stage \in Stage /\ Sound(Mine(p)) /\ Fits("publish", Mine(p))
    BY <1>2, UsesOwn DEF Publish
  <2>2. Mine(p).holds = "sealed"
    BY <2>1 DEF Fits
  <2>3. final = "none" /\ (Mine(p).alien => final' = "changed") /\ archive' = archive
    BY <1>2, <2>2 DEF Publish, Published
  <2> QED
    BY <1>2, <2>1, <2>2, <2>3, KeepsRest DEF Publish, Mine
<1>3. CASE RetireStage(p)
  <2>1. PICK s \in Stage :
           /\ OwnedTree(stages[s])
           /\ \/ stages' = [stages EXCEPT ![s] = NoStage]
              \/ \E m \in BOOLEAN, a \in {FALSE, stages[s].alien} :
                   stages' = [stages EXCEPT ![s].marked = m, ![s].alien = a,
                                            ![s].holds = "part"]
    BY <1>3 DEF RetireStage
  <2>2. stages[s].holds # "partial" /\ final' = final /\ archive' = archive
    BY <1>0, <1>3, <2>1 DEF RetireStage, OwnedTree, Sound
  <2>3. \E d : stages' = [stages EXCEPT ![s] = d]
    BY <2>1
  <2>4. setup[p].pc \in {"retire", "retire again"} /\ lease = p
    BY <1>3, WorksAlone DEF RetireStage, Outside
  <2>5. Retiring(s)
    BY <2>1, <2>4 DEF Retiring, OwnedTree
  <2> QED
    BY <2>2, <2>3, <2>5, KeepsRest
<1>4. ASSUME NEW kind, NEW pc, NewStage(p, kind, pc) PROVE Keeps
  <2>1. PICK s \in Stage : stages[s] = NoStage /\ stages' = [stages EXCEPT ![s].kind = kind]
    BY <1>4 DEF NewStage
  <2>2. ~stages[s].alien /\ stages[s].holds = "nothing"
    BY <2>1 DEF NoStage
  <2>3. \E d : stages' = [stages EXCEPT ![s] = d]
    BY <2>1
  <2> QED
    BY <1>4, <2>2, <2>3, KeepsRest DEF NewStage
<1> QED
  BY <1>1, <1>2, <1>3, <1>4 DEF NewDownload, NewTree

LEMMA OthersKeep ==
    ASSUME FolderInv, changes \in Nat, changes' = changes, Others
    PROVE  Keeps
<1>0. stages \in [Stage -> Directories] /\ \A s \in Stage : Sound(stages[s])
  BY DEF FolderInv
<1>1. CASE Unpacks
  <2>1. PICK s \in Stage : stages[s].kind = "tree" /\ stages' = [stages EXCEPT ![s].holds = "part"]
    BY <1>1 DEF Unpacks
  <2> DEFINE d == [stages[s] EXCEPT !.holds = "part"]
  <2>2. d.alien = stages[s].alien /\ stages[s].holds # "partial"
    BY <1>0, <2>1 DEF Directories, Sound
  <2>3. stages' = [stages EXCEPT ![s] = d]
    BY <1>0, <2>1
  <2> HIDE DEF d
  <2> QED
    BY <1>1, <2>2, <2>3, KeepsRest DEF Unpacks
<1>2. CASE UserChanges
  BY <1>2 DEF UserChanges
<1>3. CASE WorkerEnds \/ ProgramStarts \/ Listens \/ ProgramEnds
  BY <1>3, KeepsAll DEF WorkerEnds, ProgramStarts, Listens, ProgramEnds, folder
<1> QED
  BY <1>1, <1>2, <1>3 DEF Others

(***************************************************************************)
(* No step but the user's removes or replaces what was published, the      *)
(* bytes of a download before they are the archive, or a directory with    *)
(* something of the user in it, unless that carries the marker of an       *)
(* extraction and is retired by the setup that holds the lease.            *)
(***************************************************************************)
THEOREM OnlyOwnIsRemoved == Spec => RemovesOnlyItsOwn
<1>1. FolderInv /\ PublishedInv /\ [Next]_vars
          => [changes' = changes => KeepsUsers /\ KeepsBytes]_vars
  <2> SUFFICES ASSUME FolderInv, PublishedInv, Next, changes' = changes
               PROVE  Keeps
    BY DEF Keeps
  <2>1. ASSUME NEW p \in Process, Step(p) PROVE Keeps
    <3>1. CASE Begin(p) \/ Acquire(p) \/ HashesEnded(p) \/ AlreadyInstalled(p)
               \/ NotInstalled(p) \/ AllRetired(p) \/ ArchiveThere(p) \/ ArchiveVerified(p)
      BY <3>1, KeepsAll DEF Begin, Acquire, HashesEnded, AlreadyInstalled, NotInstalled,
           AllRetired, ArchiveThere, ArchiveVerified, folder
    <3>2. CASE FindDownload(p) \/ Respond(p) \/ Received(p) \/ HashMatches(p) \/ CheckTree(p)
      BY <3>2, KeepsAll DEF FindDownload, Respond, Received, HashMatches, CheckTree, folder
    <3>3. CASE Spawn(p) \/ Answers(p) \/ StillOwner(p) \/ RecordLaunch(p) \/ SaveReceipt(p)
               \/ Cancel(p) \/ Kill(p)
      BY <3>3, KeepsAll DEF Spawn, Answers, StillOwner, RecordLaunch, SaveReceipt, Cancel,
           Kill, folder
    <3> QED
      BY <2>1, <3>1, <3>2, <3>3, WritesKeep, LastsKeep DEF Step
  <2> QED
    BY <2>1, OthersKeep DEF Next, PublishedInv
<1> QED
  BY <1>1, SetupInductive, PTL DEF Spec, RemovesOnlyItsOwn

-----------------------------------------------------------------------------
(***************************************************************************)
(* The processes.  A setup that starts the runtime holds the lease, and    *)
(* its child keeps its identifier until the setup is over.  A runtime that *)
(* was reported as started keeps the port until it ends; so a later setup, *)
(* whose child owns the port, finds none of them alive.  Under one         *)
(* identifier programs start one after the other: the receipt's start is   *)
(* the runtime's or lies in the past.                                      *)
(***************************************************************************)
Programs == [kind : {"none", "managed", "dead", "other"}, start : Nat, ready : BOOLEAN]
Receipts == [pid : Pid, start : Nat]

Started(i) == proc[i].kind = "managed" /\ proc[i].ready

Holds(p) == LET i == setup[p].child IN
    /\ i # None <=> setup[p].pc \in Starting
    /\ i # None => proc[i].kind \in {"managed", "dead"} /\ ~proc[i].ready
    /\ setup[p].pc = "save" => /\ proc[i].kind = "managed" => port = i
                              /\ \A j \in Pid : ~Started(j)

Recorded ==
    receipt # None =>
        LET i == receipt.pid IN
        /\ receipt.start <= proc[i].start
        /\ receipt.start = proc[i].start => proc[i].kind \in {"none", "dead"} \/ Started(i)

LaunchInv ==
    /\ proc \in [Pid -> Programs]
    /\ receipt \in Receipts \cup {None}
    /\ \A p \in Process : Holds(p)
    /\ \A i \in Pid : Started(i) => port = i /\ receipt = [pid |-> i, start |-> proc[i].start]
    /\ Recorded

LEMMA InitLaunch == Init => LaunchInv
<1> SUFFICES ASSUME Init PROVE LaunchInv
  OBVIOUS
<1>1. NoProgram \in Programs /\ ~NoProgram.ready
  BY DEF NoProgram, Programs
<1>2. NoSetup.child = None /\ NoSetup.pc = "idle"
  BY DEF NoSetup
<1>3. \A p \in Process : Holds(p)
  BY <1>2 DEF Init, Holds, Starting
<1> QED
  BY <1>1, <1>3 DEF Init, LaunchInv, Started, Recorded

\* What a setup does before it starts the runtime leaves the programs as they are.
LEMMA QuietStep ==
    ASSUME LaunchInv, FolderInv, NEW p \in Process, NEW x,
           setup' = [setup EXCEPT ![p] = x], x.child = setup[p].child,
           x.pc \in Starting <=> setup[p].pc \in Starting,
           x.pc = "save" => setup[p].pc = "save",
           UNCHANGED system
    PROVE  LaunchInv'
<1>1. proc' = proc /\ port' = port /\ receipt' = receipt
  BY DEF system
<1>2. setup'[p] = x /\ \A q \in Process \ {p} : setup'[q] = setup[q]
  BY DEF FolderInv
<1>3. ASSUME NEW q \in Process PROVE Holds(q)'
  BY <1>1, <1>2 DEF LaunchInv, Holds, Started
<1> QED
  BY <1>1, <1>3 DEF LaunchInv, Started, Recorded

LEMMA QuietGo ==
    ASSUME LaunchInv, FolderInv, NEW p \in Process, NEW pc, Go(p, pc),
           pc \notin Starting, setup[p].pc \notin Starting, UNCHANGED system
    PROVE  LaunchInv'
<1> DEFINE x == [setup[p] EXCEPT !.pc = pc]
<1>1. setup[p] \in Setups
  BY DEF FolderInv
<1>2. x.child = setup[p].child /\ x.pc = pc
  BY <1>1 DEF Setups
<1>3. setup' = [setup EXCEPT ![p] = x]
  BY DEF Go
<1> HIDE DEF x
<1> QED
  BY <1>2, <1>3, QuietStep DEF Starting

Moves(p, pc, s) == setup' = [setup EXCEPT ![p].pc = pc, ![p].stage = s]

LEMMA QuietStage ==
    ASSUME LaunchInv, FolderInv, NEW p \in Process, NEW pc, NEW s,
           Moves(p, pc, s),
           pc \notin Starting, setup[p].pc \notin Starting, UNCHANGED system
    PROVE  LaunchInv'
<1> DEFINE x == [setup[p] EXCEPT !.pc = pc, !.stage = s]
<1>1. setup[p] \in Setups
  BY DEF FolderInv
<1>2. x.child = setup[p].child /\ x.pc = pc
  BY <1>1 DEF Setups
<1>3. setup' = [setup EXCEPT ![p] = x]
  BY DEF Moves
<1> HIDE DEF x
<1> QED
  BY <1>2, <1>3, QuietStep DEF Starting

LEMMA QuietSteps ==
    ASSUME LaunchInv, FolderInv, NEW p \in Process, Step(p),
           ~(Spawn(p) \/ RecordLaunch(p) \/ SaveReceipt(p) \/ Cancel(p) \/ Kill(p))
    PROVE  LaunchInv'
<1> USE DEF At, Starting
<1>1. CASE Begin(p) \/ Acquire(p) \/ HashesEnded(p) \/ AlreadyInstalled(p) \/ NotInstalled(p)
  BY <1>1, QuietGo DEF Begin, Acquire, HashesEnded, AlreadyInstalled, NotInstalled
<1>2. CASE AllRetired(p) \/ ArchiveThere(p) \/ ArchiveVerified(p) \/ Respond(p) \/ Received(p)
           \/ HashMatches(p)
  BY <1>2, QuietGo DEF AllRetired, ArchiveThere, ArchiveVerified, Respond, Received, HashMatches
<1>3. CASE Mark(p) \/ NewPartial(p) \/ Chunk(p) \/ Unmark(p)
  BY <1>3, QuietGo DEF Mark, NewPartial, Chunk, Unmark, Write
<1>4. CASE MoveArchive(p) \/ RemoveDirectory(p) \/ Extract(p) \/ CheckTree(p) \/ Seal(p)
  BY <1>4, QuietGo DEF MoveArchive, RemoveDirectory, Extract, CheckTree, Seal, Write
<1>5. CASE Publish(p)
  <2>1. Moves(p, "installed", None)
    BY <1>5 DEF Publish, Moves
  <2> QED
    BY <1>5, <2>1, QuietStage DEF Publish
<1>6. ASSUME NEW kind, NEW pc \in {"new download", "new tree"}, NewStage(p, kind, pc)
      PROVE  LaunchInv'
  <2>1. PICK s \in Stage : setup' = [setup EXCEPT ![p].stage = s, ![p].pc = "mark"]
    BY <1>6 DEF NewStage
  <2>2. Moves(p, "mark", s)
    BY <2>1 DEF FolderInv, Setups, Moves
  <2> QED
    BY <1>6, <2>2, QuietStage DEF NewStage
<1>7. CASE FindDownload(p)
  <2>1. ASSUME NEW s \in Stage, setup' = [setup EXCEPT ![p].stage = s, ![p].pc = "request"]
        PROVE  LaunchInv'
    <3>1. Moves(p, "request", s)
      BY <2>1 DEF FolderInv, Setups, Moves
    <3> QED
      BY <1>7, <3>1, QuietStage DEF FindDownload
  <2>2. CASE Go(p, "request")
    BY <1>7, <2>2, QuietGo DEF FindDownload
  <2> QED
    BY <1>7, <2>1, <2>2 DEF FindDownload
<1>8. CASE RetireStage(p)
  <2>1. setup[p].pc \notin Starting /\ UNCHANGED system
    BY <1>8 DEF RetireStage
  <2>2. setup[p].child = None
    BY <2>1 DEF LaunchInv, Holds
  <2>3. CASE setup' = setup
    <3>1. setup' = [setup EXCEPT ![p] = setup[p]]
      BY <2>3 DEF FolderInv
    <3> QED
      BY <2>1, <3>1, QuietStep
  <2>4. CASE setup' = [setup EXCEPT ![p] = NoSetup]
    <3>1. NoSetup.child = None /\ NoSetup.pc = "idle"
      BY DEF NoSetup
    <3> QED
      BY <2>1, <2>2, <2>4, <3>1, QuietStep
  <2> QED
    BY <1>8, <2>3, <2>4 DEF RetireStage
<1>9. CASE Answers(p) \/ StillOwner(p)
  <2>1. PICK pc \in {"answered", "record"} : Go(p, pc)
    BY <1>9 DEF Answers, StillOwner
  <2> DEFINE x == [setup[p] EXCEPT !.pc = pc]
  <2>2. x.child = setup[p].child /\ x.pc = pc
    BY DEF FolderInv, Setups
  <2>3. setup' = [setup EXCEPT ![p] = x]
    BY <2>1 DEF Go
  <2>4. setup[p].pc \in Starting /\ UNCHANGED system
    BY <1>9 DEF Answers, StillOwner
  <2> HIDE DEF x
  <2> QED
    BY <2>2, <2>3, <2>4, QuietStep
<1> QED
  BY <1>1, <1>2, <1>3, <1>4, <1>5, <1>6, <1>7, <1>8, <1>9 DEF Step, NewDownload, NewTree

\* The steps that change a program or take a setup to the saving of its receipt.
LEMMA LaunchSteps ==
    ASSUME LaunchInv, FolderInv, NEW p \in Process, port \in Pid \cup {None},
           \/ Spawn(p) \/ RecordLaunch(p) \/ SaveReceipt(p) \/ Cancel(p) \/ Kill(p)
    PROVE  LaunchInv'
<1> USE DEF At
<1>0. /\ proc \in [Pid -> Programs] /\ receipt \in Receipts \cup {None}
      /\ setup \in [Process -> Setups] /\ setup[p] \in Setups /\ None \notin Pid
  BY SetupAssumption DEF LaunchInv, FolderInv
<1>1. CASE Spawn(p)
  <2>1. PICK i \in Pid :
           /\ proc[i].kind = "none" /\ proc[i].start < MaxStarts
           /\ proc' = [proc EXCEPT ![i] = [kind |-> "managed", start |-> @.start + 1, ready |-> FALSE]]
           /\ setup' = [setup EXCEPT ![p].child = i, ![p].pc = "waiting"]
    BY <1>1 DEF Spawn
  <2>2. port' = port /\ receipt' = receipt
    BY <1>1 DEF Spawn
  <2>3. proc[i].start \in Nat
    BY <1>0 DEF Programs
  <2>4. /\ proc'[i] = [kind |-> "managed", start |-> proc[i].start + 1, ready |-> FALSE]
        /\ \A j \in Pid \ {i} : proc'[j] = proc[j]
    BY <1>0, <2>1
  <2>5. proc' \in [Pid -> Programs]
    BY <1>0, <2>1, <2>3 DEF Programs
  <2>6. ASSUME NEW q \in Process PROVE Holds(q)'
    <3>1. CASE q = p
      <4>1. setup'[p].child = i /\ setup'[p].pc = "waiting"
        BY <1>0, <2>1 DEF Setups
      <4> QED
        BY <1>0, <2>4, <3>1, <4>1 DEF Holds, Starting
    <3>2. CASE q # p
      <4>1. setup'[q] = setup[q]
        BY <1>0, <2>1, <3>2
      <4>2. setup[q].child = None /\ setup[q].pc # "save" /\ setup[q].pc \notin Starting
        <5>1. setup[q].pc \in Outside
          BY <1>1, SetupAssumption DEF Spawn, LeaseFree, FolderInv
        <5> QED
          BY <5>1 DEF Outside, Starting, LaunchInv, Holds
      <4> QED
        BY <4>1, <4>2 DEF Holds
    <3> QED
      BY <3>1, <3>2
  <2>7. \A j \in Pid : Started(j)' => port' = j /\ receipt' = [pid |-> j, start |-> proc'[j].start]
    BY <2>2, <2>4 DEF LaunchInv, Started
  <2>8. Recorded'
    <3> SUFFICES ASSUME receipt # None PROVE Recorded'
      BY <2>2 DEF Recorded
    <3>1. /\ receipt.pid \in Pid /\ receipt.start \in Nat /\ receipt.start <= proc[receipt.pid].start
      BY <1>0 DEF LaunchInv, Recorded, Receipts
    <3>2. CASE receipt.pid = i
      BY <2>2, <2>3, <2>4, <3>1, <3>2 DEF Recorded
    <3>3. CASE receipt.pid # i
      BY <2>2, <2>4, <3>1, <3>3 DEF LaunchInv, Recorded, Started
    <3> QED
      BY <3>2, <3>3
  <2> QED
    BY <1>0, <2>2, <2>5, <2>6, <2>7, <2>8 DEF LaunchInv
<1>2. CASE RecordLaunch(p)
  <2> DEFINE i == setup[p].child
  <2>1. proc' = proc /\ port' = port /\ receipt' = receipt /\ OwnsPort(p)
        /\ setup[p].pc = "record" /\ setup' = [setup EXCEPT ![p].pc = "save"]
    BY <1>2 DEF RecordLaunch, system, Go
  <2>2. i # None /\ i \in Pid /\ ~proc[i].ready
    BY <1>0, <2>1 DEF LaunchInv, Holds, Starting, Setups
  <2>3. \A j \in Pid : ~Started(j)
    BY <2>1, <2>2 DEF LaunchInv, OwnsPort, Started
  <2>4. setup'[p].child = i /\ setup'[p].pc = "save"
    BY <1>0, <2>1 DEF Setups
  <2>5. Holds(p)'
    BY <2>1, <2>2, <2>3, <2>4 DEF LaunchInv, Holds, Starting, Started, OwnsPort
  <2>6. ASSUME NEW q \in Process \ {p} PROVE Holds(q)'
    <3>1. setup'[q] = setup[q]
      BY <1>0, <2>1
    <3> QED
      BY <2>1, <3>1 DEF LaunchInv, Holds, Started
  <2> QED
    BY <2>1, <2>5, <2>6 DEF LaunchInv, Started, Recorded
<1>3. \A q \in Process \ {p} : setup[p].pc \in Starting => setup[q].child = None /\ setup[q].pc \notin Starting
  <2> SUFFICES ASSUME NEW q \in Process \ {p}, setup[p].pc \in Starting
               PROVE  setup[q].child = None /\ setup[q].pc \notin Starting
    OBVIOUS
  <2>1. lease = p
    BY WorksAlone DEF Starting, Outside
  <2>2. setup[q].pc \in Outside
    BY <2>1 DEF FolderInv
  <2> QED
    BY <2>2 DEF Outside, Starting, LaunchInv, Holds
<1>4. NoSetup.child = None /\ NoSetup.pc = "idle"
  BY DEF NoSetup
<1>5. setup[p].child \in Pid => setup[p].pc \in Starting
  BY <1>0 DEF LaunchInv, Holds
<1>6. CASE SaveReceipt(p)
  <2> DEFINE i == setup[p].child
  <2>1. /\ setup[p].pc = "save" /\ port' = port
        /\ receipt' = [pid |-> i, start |-> proc[i].start]
        /\ proc' = [proc EXCEPT ![i].ready = TRUE, ![i].kind = IF @ = "dead" THEN "none" ELSE @]
        /\ setup' = [setup EXCEPT ![p] = NoSetup]
    BY <1>6 DEF SaveReceipt
  <2>2. /\ i \in Pid /\ proc[i].kind \in {"managed", "dead"}
        /\ proc[i].kind = "managed" => port = i
        /\ \A j \in Pid : ~Started(j)
    BY <1>0, <2>1 DEF LaunchInv, Holds, Starting, Setups
  <2> DEFINE k == IF proc[i].kind = "dead" THEN "none" ELSE proc[i].kind
             r == [proc[i] EXCEPT !.ready = TRUE, !.kind = k]
  <2>3. k \in {"none", "managed"} /\ (k = "managed" => proc[i].kind = "managed")
    BY <2>2
  <2>4. proc' = [proc EXCEPT ![i] = r]
    BY <1>0, <2>1
  <2> HIDE DEF k
  <2>5. r \in Programs /\ r.kind = k /\ r.ready /\ r.start = proc[i].start /\ r.start \in Nat
    BY <1>0, <2>2, <2>3 DEF Programs
  <2> HIDE DEF r
  <2>6. proc' \in [Pid -> Programs] /\ proc'[i] = r /\ \A j \in Pid \ {i} : proc'[j] = proc[j]
    BY <1>0, <2>2, <2>4, <2>5
  <2>7. \A q \in Process : setup'[q].child = None /\ setup'[q].pc \notin Starting
    BY <1>0, <1>3, <1>4, <2>1 DEF Starting
  <2>8. \A q \in Process : Holds(q)'
    BY <2>7 DEF Holds, Starting
  <2>9. receipt' \in Receipts
    BY <2>1, <2>2, <2>5 DEF Receipts
  <2>10. \A j \in Pid : Started(j)' => port' = j /\ receipt' = [pid |-> j, start |-> proc'[j].start]
    BY <2>1, <2>2, <2>3, <2>5, <2>6 DEF Started
  <2>11. Recorded'
    <3>1. proc'[receipt'.pid] = r /\ receipt'.start = r.start
      BY <2>1, <2>5, <2>6
    <3>2. r.kind = "none" \/ (r.kind = "managed" /\ r.ready)
      BY <2>3, <2>5
    <3> QED
      BY <2>5, <3>1, <3>2 DEF Recorded, Started
  <2> QED
    BY <2>6, <2>8, <2>9, <2>10, <2>11 DEF LaunchInv
<1>7. ASSUME setup' = [setup EXCEPT ![p] = NoSetup], receipt' = receipt,
             proc' \in [Pid -> Programs],
             \A j \in Pid : j # setup[p].child => proc'[j] = proc[j] /\ (port = j => port' = j),
             \A j \in Pid : j = setup[p].child =>
                 /\ proc'[j].start = proc[j].start /\ ~proc'[j].ready
                 /\ receipt # None /\ receipt.pid = j /\ receipt.start = proc[j].start
                         => proc'[j].kind \in {"none", "dead"}
      PROVE  LaunchInv'
  <2>1. ASSUME NEW q \in Process PROVE Holds(q)'
    <3>1. CASE q = p
      <4>1. setup'[q] = NoSetup
        BY <1>0, <1>7, <3>1
      <4> QED
        BY <1>4, <4>1 DEF Holds, Starting
    <3>2. CASE q # p
      <4>1. setup'[q] = setup[q] /\ Holds(q) /\ setup[q] \in Setups
        BY <1>0, <1>7, <3>2 DEF LaunchInv
      <4>2. CASE setup[q].child = None
        BY <4>1, <4>2 DEF Holds, Starting
      <4>3. CASE setup[q].child # None
        <5>1. setup[q].pc \in Starting
          BY <4>1, <4>3 DEF Holds
        <5>2. setup[p].child \notin Pid
          BY <1>3, <1>5, <3>2, <5>1
        <5>3. \A j \in Pid : proc'[j] = proc[j] /\ (port = j => port' = j)
          BY <1>7, <5>2
        <5>4. setup[q].child \in Pid
          BY <4>1, <4>3 DEF Setups
        <5> QED
          BY <4>1, <5>3, <5>4 DEF Holds, Started
      <4> QED
        BY <4>2, <4>3
    <3> QED
      BY <3>1, <3>2
  <2>2. \A j \in Pid : Started(j)' => port' = j /\ receipt' = [pid |-> j, start |-> proc'[j].start]
    BY <1>7 DEF LaunchInv, Started
  <2>3. Recorded'
    <3> SUFFICES ASSUME receipt # None PROVE Recorded'
      BY <1>7 DEF Recorded
    <3>1. receipt.pid \in Pid /\ receipt.start \in Nat
      BY <1>0 DEF Receipts
    <3>2. proc'[receipt.pid].start = proc[receipt.pid].start
      BY <1>7, <3>1
    <3>3. receipt.start = proc[receipt.pid].start
              => proc'[receipt.pid].kind \in {"none", "dead"} \/ Started(receipt.pid)'
      BY <1>7, <3>1 DEF LaunchInv, Recorded, Started
    <3> QED
      BY <1>7, <3>2, <3>3 DEF LaunchInv, Recorded
  <2> QED
    BY <1>0, <1>7, <2>1, <2>2, <2>3 DEF LaunchInv
<1>8. \A j \in Pid : j = setup[p].child =>
          /\ proc[j] \in Programs /\ proc[j].kind \in {"managed", "dead"} /\ ~proc[j].ready
          /\ receipt # None /\ receipt.pid = j /\ receipt.start = proc[j].start
                  => proc[j].kind \in {"none", "dead"}
  BY <1>0 DEF LaunchInv, Holds, Recorded, Started
<1>9. CASE Cancel(p)
  <2>1. setup' = [setup EXCEPT ![p] = NoSetup] /\ receipt' = receipt
        /\ proc' = [i \in Pid |-> IF i = setup[p].child THEN [proc[i] EXCEPT !.kind = "none"] ELSE proc[i]]
        /\ port' = IF port = setup[p].child THEN None ELSE port
    BY <1>9 DEF Cancel, Drop
  <2>2. \A j \in Pid : j # setup[p].child => proc'[j] = proc[j] /\ (port = j => port' = j)
    BY <2>1
  <2>3. \A j \in Pid : j = setup[p].child => proc'[j] = [proc[j] EXCEPT !.kind = "none"]
    BY <2>1
  <2>4. \A j \in Pid : j = setup[p].child =>
            /\ proc'[j] \in Programs /\ proc'[j].start = proc[j].start
            /\ ~proc'[j].ready /\ proc'[j].kind = "none"
    BY <1>8, <2>3 DEF Programs
  <2>5. proc' \in [Pid -> Programs]
    BY <1>0, <2>1, <2>2, <2>4
  <2> QED
    BY <1>7, <2>1, <2>2, <2>4, <2>5
<1>10. CASE Kill(p)
  <2>1. setup' = [setup EXCEPT ![p] = NoSetup] /\ receipt' = receipt /\ port' = port
        /\ proc' = [i \in Pid |-> IF proc[i].kind = "dead" /\ i = setup[p].child
                                   THEN [proc[i] EXCEPT !.kind = "none"] ELSE proc[i]]
    BY <1>10 DEF Kill
  <2>2. \A j \in Pid : j # setup[p].child => proc'[j] = proc[j] /\ (port = j => port' = j)
    BY <2>1
  <2>3. \A j \in Pid : j = setup[p].child =>
            proc'[j] = proc[j] \/ proc'[j] = [proc[j] EXCEPT !.kind = "none"]
    BY <2>1
  <2>4. \A j \in Pid : j = setup[p].child =>
            /\ proc'[j] \in Programs /\ proc'[j].start = proc[j].start
            /\ ~proc'[j].ready /\ proc'[j].kind \in {proc[j].kind, "none"}
    BY <1>8, <2>3 DEF Programs
  <2>5. proc' \in [Pid -> Programs]
    BY <1>0, <2>1, <2>2, <2>4
  <2>6. \A j \in Pid : j = setup[p].child /\ receipt # None /\ receipt.pid = j
                            /\ receipt.start = proc[j].start => proc'[j].kind \in {"none", "dead"}
    BY <1>8, <2>4
  <2> QED
    BY <1>7, <2>1, <2>2, <2>4, <2>5, <2>6
<1> QED
  BY <1>1, <1>2, <1>6, <1>9, <1>10

LEMMA OthersLaunch ==
    ASSUME LaunchInv, FolderInv, Others
    PROVE  LaunchInv'
<1>0. /\ proc \in [Pid -> Programs] /\ receipt \in Receipts \cup {None}
      /\ setup \in [Process -> Setups] /\ None \notin Pid
      /\ \A p \in Process : setup[p].child \in Pid \cup {None}
  BY SetupAssumption DEF LaunchInv, FolderInv, Setups
<1>1. CASE Unpacks \/ WorkerEnds \/ UserChanges
  <2>1. setup' = setup /\ proc' = proc /\ port' = port /\ receipt' = receipt
    BY <1>1 DEF Unpacks, WorkerEnds, UserChanges, system
  <2> QED
    BY <2>1 DEF LaunchInv, Holds, Recorded, Started
<1>2. CASE ProgramStarts
  <2>1. PICK i \in Pid :
           /\ proc[i].kind = "none"
           /\ proc' = [proc EXCEPT ![i] = [kind |-> "other", start |-> @.start + 1, ready |-> FALSE]]
    BY <1>2 DEF ProgramStarts
  <2>2. setup' = setup /\ port' = port /\ receipt' = receipt
    BY <1>2 DEF ProgramStarts
  <2>3. proc[i].start \in Nat
    BY <1>0 DEF Programs
  <2>4. /\ proc'[i] = [kind |-> "other", start |-> proc[i].start + 1, ready |-> FALSE]
        /\ \A j \in Pid \ {i} : proc'[j] = proc[j]
    BY <1>0, <2>1
  <2>5. proc' \in [Pid -> Programs]
    BY <1>0, <2>1, <2>3 DEF Programs
  <2>6. ASSUME NEW q \in Process PROVE Holds(q)'
    <3>1. Holds(q) /\ setup[q].child # i
      BY <1>0, <2>1 DEF LaunchInv, Holds
    <3>2. \A j \in Pid : Started(j)' => Started(j)
      BY <2>4 DEF Started
    <3>3. setup[q].child # None => proc'[setup[q].child] = proc[setup[q].child]
      BY <1>0, <2>4, <3>1
    <3>4. setup[q].pc = "save" => setup[q].child # None
      BY <3>1 DEF Holds, Starting
    <3> QED
      BY <2>2, <3>1, <3>2, <3>3, <3>4 DEF Holds
  <2>7. \A j \in Pid : Started(j)' => port' = j /\ receipt' = [pid |-> j, start |-> proc'[j].start]
    BY <2>2, <2>4 DEF LaunchInv, Started
  <2>8. Recorded'
    <3> SUFFICES ASSUME receipt # None PROVE Recorded'
      BY <2>2 DEF Recorded
    <3>1. /\ receipt.pid \in Pid /\ receipt.start \in Nat /\ receipt.start <= proc[receipt.pid].start
      BY <1>0 DEF LaunchInv, Recorded, Receipts
    <3>2. CASE receipt.pid = i
      BY <2>2, <2>3, <2>4, <3>1, <3>2 DEF Recorded
    <3>3. CASE receipt.pid # i
      BY <2>2, <2>4, <3>1, <3>3 DEF LaunchInv, Recorded, Started
    <3> QED
      BY <3>2, <3>3
  <2> QED
    BY <1>0, <2>2, <2>5, <2>6, <2>7, <2>8 DEF LaunchInv
<1>3. CASE Listens
  <2>1. port = None /\ proc' = proc /\ setup' = setup /\ receipt' = receipt
    BY <1>3 DEF Listens
  <2>2. \A j \in Pid : ~Started(j)
    BY <1>0, <2>1 DEF LaunchInv
  <2>3. ASSUME NEW q \in Process PROVE Holds(q)'
    <3>1. setup[q].pc = "save" => setup[q].child \in Pid /\ proc[setup[q].child].kind # "managed"
      BY <1>0, <2>1 DEF LaunchInv, Holds, Starting
    <3> QED
      BY <2>1, <3>1 DEF LaunchInv, Holds, Started
  <2> QED
    BY <1>0, <2>1, <2>2, <2>3 DEF LaunchInv, Recorded, Started
<1>4. CASE ProgramEnds
  <2>1. PICK i \in Pid, k \in {"dead", "none"} :
           /\ Lives(i)
           /\ proc' = [proc EXCEPT ![i].kind = k]
           /\ k = "none" => ~\E p \in Process : setup[p].child = i
           /\ port' = IF port = i THEN None ELSE port
    <3>1. PICK i \in Pid :
             /\ Lives(i)
             /\ proc' = [proc EXCEPT ![i].kind =
                            IF \E p \in Process : setup[p].child = i THEN "dead" ELSE "none"]
             /\ port' = IF port = i THEN None ELSE port
      BY <1>4 DEF ProgramEnds
    <3>2. CASE \E p \in Process : setup[p].child = i
      BY <3>1, <3>2
    <3>3. CASE ~\E p \in Process : setup[p].child = i
      BY <3>1, <3>3
    <3> QED
      BY <3>2, <3>3
  <2>2. setup' = setup /\ receipt' = receipt
    BY <1>4 DEF ProgramEnds
  <2> DEFINE r == [proc[i] EXCEPT !.kind = k]
  <2>3. r \in Programs /\ r.kind = k /\ r.start = proc[i].start /\ r.ready = proc[i].ready
    BY <1>0 DEF Programs
  <2>4. proc' = [proc EXCEPT ![i] = r]
    BY <1>0, <2>1
  <2> HIDE DEF r
  <2>5. proc' \in [Pid -> Programs] /\ proc'[i] = r /\ \A j \in Pid \ {i} : proc'[j] = proc[j]
    BY <1>0, <2>3, <2>4
  <2>6. \A j \in Pid : Started(j)' => j # i /\ Started(j) /\ proc'[j] = proc[j]
    BY <2>3, <2>5 DEF Started
  <2>7. ASSUME NEW q \in Process PROVE Holds(q)'
    <3>1. Holds(q) /\ (setup[q].child = i => k = "dead")
      BY <2>1 DEF LaunchInv
    <3>2. setup[q].child # None => setup[q].child \in Pid
      BY <1>0
    <3>3. setup[q].pc = "save" => setup[q].child # None
      BY <3>1 DEF Holds, Starting
    <3>4. CASE setup[q].child = i
      BY <2>2, <2>3, <2>5, <2>6, <3>1, <3>4 DEF Holds
    <3>5. CASE setup[q].child # i
      BY <2>1, <2>2, <2>5, <2>6, <3>1, <3>2, <3>3, <3>5 DEF Holds
    <3> QED
      BY <3>4, <3>5
  <2>8. \A j \in Pid : Started(j)' => port' = j /\ receipt' = [pid |-> j, start |-> proc'[j].start]
    BY <2>1, <2>2, <2>6 DEF LaunchInv
  <2>9. Recorded'
    BY <1>0, <2>2, <2>3, <2>5 DEF LaunchInv, Recorded, Started, Receipts
  <2> QED
    BY <1>0, <2>2, <2>5, <2>7, <2>8, <2>9 DEF LaunchInv
<1> QED
  BY <1>1, <1>2, <1>3, <1>4 DEF Others

LEMMA LaunchStep == FolderInv /\ PublishedInv /\ LaunchInv /\ [Next]_vars => LaunchInv'
<1> SUFFICES ASSUME FolderInv, PublishedInv, LaunchInv, [Next]_vars PROVE LaunchInv'
  OBVIOUS
<1>1. CASE UNCHANGED vars
  BY <1>1 DEF LaunchInv, Holds, Recorded, Started, vars, system
<1>2. ASSUME NEW p \in Process, Step(p) PROVE LaunchInv'
  BY <1>2, QuietSteps, LaunchSteps DEF PublishedInv
<1> QED
  BY <1>1, <1>2, OthersLaunch DEF Next

(***************************************************************************)
(* An operation is bound only to a runtime that was reported as started,   *)
(* one that still listens is recognised, and at most one setup has a       *)
(* child.                                                                  *)
(***************************************************************************)
THEOREM BindsTheStarted == Spec => []RuntimeInv
<1>1. FolderInv /\ LaunchInv => RuntimeInv
  <2> SUFFICES ASSUME FolderInv, LaunchInv PROVE RuntimeInv
    OBVIOUS
  <2>1. Bindable => proc[receipt.pid].kind = "managed" /\ proc[receipt.pid].ready
    BY DEF Bindable, Lives, LaunchInv, Recorded, Started
  <2>2. \A i \in Pid : Started(i) => Bindable
    <3> SUFFICES ASSUME NEW i \in Pid, Started(i) PROVE Bindable
      OBVIOUS
    <3>1. port = i /\ receipt = [pid |-> i, start |-> proc[i].start]
      BY DEF LaunchInv
    <3>2. proc[i].start \in Nat
      BY DEF LaunchInv, Programs
    <3>3. [pid |-> i, start |-> proc[i].start] \in [pid : Pid, start : Nat]
      BY <3>2
    <3>4. receipt # None
      BY <3>1, <3>3, SetupAssumption
    <3> QED
      BY <3>1, <3>4 DEF Bindable, Lives, Started
  <2>3. \A p, q \in Process : (setup[p].child # None /\ setup[q].child # None) => p = q
    <3> SUFFICES ASSUME NEW p \in Process, NEW q \in Process,
                        setup[p].child # None, setup[q].child # None
                 PROVE  p = q
      OBVIOUS
    <3>1. setup[p].pc \in Starting /\ setup[q].pc \in Starting
      BY DEF LaunchInv, Holds
    <3> QED
      BY <3>1 DEF FolderInv, Starting, Outside
  <2> QED
    BY <2>1, <2>2, <2>3 DEF RuntimeInv, Started
<1>2. LaunchInv /\ [](FolderInv /\ PublishedInv) /\ [][Next]_vars => []LaunchInv
  BY LaunchStep, PTL
<1> QED
  BY <1>1, <1>2, InitLaunch, SetupInductive, PTL DEF Spec
-----------------------------------------------------------------------------
(***************************************************************************)
(* Setups do not stand in each other's way: as long as the user leaves the *)
(* folder alone and the origin sends the right bytes, there is at most one *)
(* download to resume, and none while a setup is about to begin one.       *)
(***************************************************************************)
\* It found no download to resume, and has not begun its own.
Seeking(x, f) ==
    \/ x.pc \in {"new download", "new partial"}
    \/ x.pc = "request" /\ x.stage = None
    \/ x.pc = "mark" /\ f[x.stage].kind = "download"

NothingToResume == \A s \in Stage : ~Resumable(stages[s])

LeftAlone ==
    /\ final \in {"none", "pinned"} /\ archive \in {"none", "pinned"}
    /\ \A s \in Stage : stages[s].good /\ ~stages[s].alien
    /\ \A s, t \in Stage : Resumable(stages[s]) /\ Resumable(stages[t]) => s = t
    /\ \A p \in Process : Seeking(setup[p], stages) => NothingToResume

ResumeInv ==
    /\ changes \in Nat /\ honest \in BOOLEAN
    /\ changes = 0 /\ honest => LeftAlone

LEMMA OutsideSeeksNone ==
    ASSUME NEW x, NEW f, x.pc \in Outside
    PROVE  ~Seeking(x, f)
BY DEF Seeking, Outside

\* It goes on, and the folder stays as it is.
LEMMA QuietResumes ==
    ASSUME FolderInv, LeftAlone, UNCHANGED folder,
           NEW p \in Process, NEW x, setup' = [setup EXCEPT ![p] = x],
           Seeking(x, stages) => Seeking(setup[p], stages) \/ NothingToResume
    PROVE  LeftAlone'
<1>1. stages' = stages /\ final' = final /\ archive' = archive
  BY DEF folder
<1>2. ASSUME NEW q \in Process, Seeking(setup'[q], stages') PROVE NothingToResume'
  <2>1. setup'[q] = IF q = p THEN x ELSE setup[q]
    BY DEF FolderInv
  <2>2. Seeking(setup[q], stages) \/ NothingToResume
    BY <1>1, <1>2, <2>1
  <2> QED
    BY <1>1, <2>2 DEF LeftAlone, NothingToResume
<1> QED
  BY <1>1, <1>2 DEF LeftAlone

\* The holder of the lease changes one directory; it makes no download to resume.
LEMMA ChangeResumes ==
    ASSUME FolderInv, LeftAlone,
           final' \in {"none", "pinned"}, archive' \in {"none", "pinned"},
           NEW p \in Process, NEW x, setup[p].pc \notin Outside,
           setup' = [setup EXCEPT ![p] = x],
           NEW s \in Stage, NEW d \in Directories, Sound(d),
           stages' = [stages EXCEPT ![s] = d],
           d.good, ~d.alien, Resumable(d) => Resumable(stages[s]),
           Seeking(x, stages') => Seeking(setup[p], stages)
    PROVE  LeftAlone'
<1>1. /\ stages' \in [Stage -> Directories]
      /\ stages'[s] = d /\ \A t \in Stage \ {s} : stages'[t] = stages[t]
  BY Changed
<1>2. \A t \in Stage : Resumable(stages'[t]) => Resumable(stages[t])
  <2> SUFFICES ASSUME NEW t \in Stage, Resumable(stages'[t]) PROVE Resumable(stages[t])
    OBVIOUS
  <2>1. CASE t = s
    BY <1>1, <2>1
  <2>2. CASE t # s
    BY <1>1, <2>2
  <2> QED
    BY <2>1, <2>2
<1>3. \A t \in Stage : stages'[t].good /\ ~stages'[t].alien
  <2> SUFFICES ASSUME NEW t \in Stage PROVE stages'[t].good /\ ~stages'[t].alien
    OBVIOUS
  <2>1. CASE t = s
    BY <1>1, <2>1
  <2>2. CASE t # s
    BY <1>1, <2>2 DEF LeftAlone
  <2> QED
    BY <2>1, <2>2
<1>4. ASSUME NEW q \in Process, Seeking(setup'[q], stages') PROVE NothingToResume'
  <2>1. q = p
    <3> SUFFICES ASSUME q # p PROVE FALSE
      OBVIOUS
    <3>1. setup'[q] = setup[q] /\ lease = p
      BY WorksAlone DEF FolderInv
    <3>2. setup[q].pc \in Outside
      BY <3>1 DEF FolderInv
    <3> QED
      BY <1>4, <3>1, <3>2, OutsideSeeksNone
  <2>2. Seeking(setup[p], stages)
    BY <1>4, <2>1 DEF FolderInv
  <2> QED
    BY <1>2, <2>2 DEF LeftAlone, NothingToResume
<1> QED
  BY <1>2, <1>3, <1>4 DEF LeftAlone


\* It goes on to a step that is not the beginning of a download.
LEMMA GoResumes ==
    ASSUME FolderInv, LeftAlone, UNCHANGED folder, NEW p \in Process, NEW pc, Go(p, pc),
           pc \notin {"new download", "new partial", "request", "mark"}
    PROVE  LeftAlone'
<1> DEFINE x == [setup[p] EXCEPT !.pc = pc]
<1>1. x.pc = pc
  BY DEF FolderInv, Setups
<1>2. ~Seeking(x, stages)
  BY <1>1 DEF Seeking
<1>3. setup' = [setup EXCEPT ![p] = x]
  BY DEF Go, FolderInv
<1> HIDE DEF x
<1> QED
  BY <1>2, <1>3, QuietResumes

LEMMA QuietStepsResume ==
    ASSUME FolderInv, LeftAlone, NEW p \in Process,
           \/ Begin(p) \/ Acquire(p) \/ HashesEnded(p) \/ NotInstalled(p) \/ AllRetired(p)
           \/ ArchiveThere(p) \/ ArchiveVerified(p) \/ AlreadyInstalled(p)
           \/ Answers(p) \/ StillOwner(p) \/ RecordLaunch(p)
           \/ Received(p) \/ HashMatches(p) \/ CheckTree(p)
           \/ FindDownload(p) \/ Respond(p)
           \/ Spawn(p) \/ SaveReceipt(p) \/ Cancel(p) \/ Kill(p)
    PROVE  LeftAlone'
<1>0. setup[p] \in Setups
  BY DEF FolderInv
<1>1. CASE Begin(p) \/ Acquire(p) \/ HashesEnded(p) \/ NotInstalled(p)
  BY <1>1, GoResumes DEF Begin, Acquire, HashesEnded, NotInstalled
<1>2. CASE AllRetired(p) \/ ArchiveThere(p) \/ ArchiveVerified(p) \/ AlreadyInstalled(p)
  BY <1>2, GoResumes DEF AllRetired, ArchiveThere, ArchiveVerified, AlreadyInstalled
<1>3. CASE Answers(p) \/ StillOwner(p) \/ RecordLaunch(p)
  BY <1>3, GoResumes DEF Answers, StillOwner, RecordLaunch
<1>4. CASE Received(p) \/ HashMatches(p) \/ CheckTree(p)
  BY <1>4, GoResumes DEF Received, HashMatches, CheckTree
<1>5. CASE FindDownload(p)
  <2>1. PICK s \in Stage \cup {None} :
           /\ setup' = [setup EXCEPT ![p] = [setup[p] EXCEPT !.pc = "request", !.stage = s]]
           /\ s = None => NothingToResume
    <3>1. CASE {s \in Stage : Resumable(stages[s])} = {} /\ Go(p, "request")
      <4>1. At(p, "archive") /\ Placed(setup[p], stages)
        BY <1>5 DEF FindDownload, FolderInv
      <4>2. setup[p].stage = None
        BY <4>1 DEF At, Placed, Fresh
      <4>3. [setup[p] EXCEPT !.pc = "request"] = [setup[p] EXCEPT !.pc = "request", !.stage = None]
        BY <1>0, <4>2 DEF Setups
      <4>4. setup' = [setup EXCEPT ![p] = [setup[p] EXCEPT !.pc = "request"]]
        BY <3>1 DEF Go, FolderInv
      <4>5. NothingToResume
        BY <3>1 DEF NothingToResume
      <4> QED
        BY <4>3, <4>4, <4>5
    <3>2. ASSUME NEW s \in Stage, setup' = [setup EXCEPT ![p].stage = s, ![p].pc = "request"]
          PROVE  setup' = [setup EXCEPT ![p] = [setup[p] EXCEPT !.pc = "request", !.stage = s]]
      BY <1>0, <3>2 DEF FolderInv, Setups
    <3>3. \A s \in Stage : s # None
      BY SetupAssumption
    <3> QED
      BY <1>5, <3>1, <3>2, <3>3 DEF FindDownload
  <2> DEFINE x == [setup[p] EXCEPT !.pc = "request", !.stage = s]
  <2>2. x.pc = "request" /\ x.stage = s
    BY <1>0 DEF Setups
  <2>3. setup' = [setup EXCEPT ![p] = x]
    BY <2>1
  <2> HIDE DEF x
  <2>4. Seeking(x, stages) => NothingToResume
    BY <2>1, <2>2 DEF Seeking
  <2>5. UNCHANGED folder
    BY <1>5 DEF FindDownload
  <2> QED
    BY <2>3, <2>4, <2>5, QuietResumes
<1>6. CASE Respond(p)
  <2>1. At(p, "request") /\ UNCHANGED folder
    BY <1>6 DEF Respond
  <2>2. CASE setup[p].stage = None
    <3> DEFINE x == [setup[p] EXCEPT !.pc = "new download"]
    <3>1. setup' = [setup EXCEPT ![p] = x]
      BY <1>6, <2>2 DEF Respond, Go, FolderInv
    <3>2. Seeking(setup[p], stages)
      BY <2>1, <2>2 DEF Seeking, At
    <3> HIDE DEF x
    <3> QED
      BY <2>1, <3>1, <3>2, QuietResumes
  <2>3. CASE setup[p].stage # None
    <3>1. PICK pc \in {"hash", "chunks"} : Go(p, pc)
      BY <1>6, <2>3 DEF Respond
    <3> QED
      BY <2>1, <3>1, GoResumes
  <2> QED
    BY <2>2, <2>3
<1>7. CASE Spawn(p)
  <2>1. PICK i \in Pid : setup' = [setup EXCEPT ![p].child = i, ![p].pc = "waiting"]
    BY <1>7 DEF Spawn
  <2> DEFINE x == [setup[p] EXCEPT !.child = i, !.pc = "waiting"]
  <2>2. x.pc = "waiting"
    BY <1>0 DEF Setups
  <2>3. setup' = [setup EXCEPT ![p] = x]
    BY <2>1
  <2> HIDE DEF x
  <2>4. ~Seeking(x, stages)
    BY <2>2 DEF Seeking
  <2>5. UNCHANGED folder
    BY <1>7 DEF Spawn
  <2> QED
    BY <2>3, <2>4, <2>5, QuietResumes
<1>8. CASE SaveReceipt(p) \/ Cancel(p) \/ Kill(p)
  <2>1. setup' = [setup EXCEPT ![p] = NoSetup] /\ UNCHANGED folder
    BY <1>8 DEF SaveReceipt, Cancel, Kill
  <2>2. ~Seeking(NoSetup, stages)
    BY DEF Seeking, NoSetup
  <2> QED
    BY <2>1, <2>2, QuietResumes
<1> QED
  BY <1>1, <1>2, <1>3, <1>4, <1>5, <1>6, <1>7, <1>8


\* It writes into its own directory.
LEMMA WriteResumes ==
    ASSUME FolderInv, LeftAlone,
           final' \in {"none", "pinned"}, archive' \in {"none", "pinned"},
           NEW p \in Process, setup[p].pc \in Using, NEW pc, Go(p, pc),
           NEW d \in Directories, Sound(d),
           stages' = [stages EXCEPT ![setup[p].stage] = d],
           d.good, ~d.alien, Resumable(d) => Resumable(Mine(p)),
           pc \notin {"request", "mark", "new download"},
           pc = "new partial" => Seeking(setup[p], stages)
    PROVE  LeftAlone'
<1> DEFINE x == [setup[p] EXCEPT !.pc = pc]
<1>1. setup[p] \in Setups /\ setup[p].stage \in Stage
  BY UsesOwn
<1>2. x.pc = pc /\ setup' = [setup EXCEPT ![p] = x]
  BY <1>1 DEF Setups, Go, FolderInv
<1> HIDE DEF x
<1>3. Seeking(x, stages') => Seeking(setup[p], stages)
  BY <1>2 DEF Seeking
<1>4. setup[p].pc \notin Outside
  BY DEF Outside, Using, Downloading, Emptied, Extracting
<1> QED
  BY <1>1, <1>2, <1>3, <1>4, ChangeResumes DEF Mine

\* What a setup finds in the directory it uses.
LEMMA OwnIsGood ==
    ASSUME FolderInv, LeftAlone, NEW p \in Process, setup[p].pc \in Using
    PROVE  /\ setup[p].stage \in Stage
           /\ Mine(p) \in Directories /\ Sound(Mine(p)) /\ Fits(setup[p].pc, Mine(p))
           /\ Mine(p).good /\ ~Mine(p).alien
BY UsesOwn DEF LeftAlone, Mine

LEMMA WritesResume ==
    ASSUME FolderInv, LeftAlone, honest \in BOOLEAN, honest', NEW p \in Process,
           \/ Mark(p) \/ Chunk(p) \/ Unmark(p) \/ RemoveDirectory(p)
           \/ Extract(p) \/ Seal(p)
    PROVE  LeftAlone'
<1> USE DEF At, Using, Downloading, Emptied, Extracting
<1>0. final \in {"none", "pinned"} /\ archive \in {"none", "pinned"}
  BY DEF LeftAlone
<1>1. CASE Mark(p)
  <2> DEFINE d == [Mine(p) EXCEPT !.marked = TRUE]
  <2>1. /\ setup[p].pc = "mark" /\ Mine(p) \in Directories /\ Sound(Mine(p))
        /\ Fits("mark", Mine(p)) /\ Mine(p).good /\ ~Mine(p).alien
    BY <1>1, OwnIsGood DEF Mark
  <2>2. /\ d \in Directories /\ d.kind = Mine(p).kind /\ d.holds = "nothing"
        /\ d.good /\ ~d.alien
    BY <2>1 DEF Directories, Fits
  <2>3. PICK pc \in {"extract", "new partial"} :
           Write(p, d, pc) /\ (pc = "new partial" => Mine(p).kind # "tree")
    BY <1>1 DEF Mark
  <2>4. pc = "new partial" => Seeking(setup[p], stages)
    BY <2>1, <2>3 DEF Fits, Seeking, Mine
  <2>5. Sound(d) /\ ~Resumable(d)
    BY <2>1, <2>2 DEF Sound, Resumable, Fits
  <2> HIDE DEF d
  <2> QED
    BY <1>0, <2>1, <2>2, <2>3, <2>4, <2>5, WriteResumes DEF Write
<1>2. CASE Chunk(p)
  <2>1. /\ setup[p].pc = "chunks" /\ Mine(p) \in Directories
        /\ Fits("chunks", Mine(p)) /\ Mine(p).good /\ ~Mine(p).alien
    BY <1>2, OwnIsGood DEF Chunk
  <2>2. PICK right \in BOOLEAN :
           /\ Write(p, [Mine(p) EXCEPT !.bytes = @ + 1, !.good = @ /\ right], "chunks")
           /\ honest' = (honest /\ right)
    BY <1>2 DEF Chunk
  <2> DEFINE b == Mine(p).bytes + 1
             g == Mine(p).good /\ right
             d == [Mine(p) EXCEPT !.bytes = b, !.good = g]
  <2>3. right
    BY <2>2, Zenon
  <2>4. g \in BOOLEAN /\ g
    BY <2>1, <2>3, Zenon
  <2>5. b \in 0 .. Bytes
    <3>1. Mine(p).bytes \in 0 .. Bytes /\ Mine(p).bytes < Bytes /\ Bytes \in Nat
      BY <1>2, <2>1, SetupAssumption DEF Chunk, Directories
    <3> QED
      BY <3>1
  <2>6. Write(p, d, "chunks")
    BY <2>2
  <2> HIDE DEF b, g
  <2>7. /\ d \in Directories /\ d.good /\ ~d.alien /\ d.kind = Mine(p).kind
        /\ d.marked = Mine(p).marked /\ d.holds = Mine(p).holds
    BY <2>1, <2>4, <2>5 DEF Directories
  <2>8. Sound(d) /\ (Resumable(d) => Resumable(Mine(p)))
    BY <2>1, <2>7 DEF Sound, Resumable, Fits
  <2> HIDE DEF d
  <2> QED
    BY <1>0, <2>1, <2>6, <2>7, <2>8, WriteResumes DEF Write
<1>s. ASSUME NEW pc \in {"remove", "verify"}, NEW d \in Directories,
             Sound(d), d.good, ~d.alien, ~Resumable(d),
             setup[p].pc \in {"unmark", "remove"}, Write(p, d, pc)
      PROVE  LeftAlone'
  BY <1>0, <1>s, WriteResumes DEF Write
<1>3. CASE Unmark(p)
  <2> DEFINE d == [Mine(p) EXCEPT !.marked = FALSE]
  <2>1. /\ setup[p].pc = "unmark" /\ Mine(p) \in Directories /\ Sound(Mine(p))
        /\ Mine(p).good /\ ~Mine(p).alien
    BY <1>3, OwnIsGood DEF Unmark
  <2>2. d \in Directories /\ d.good /\ ~d.alien /\ Sound(d) /\ ~Resumable(d)
    BY <2>1 DEF Directories, Sound, Resumable
  <2>3. Write(p, d, "remove")
    BY <1>3, <2>1 DEF Unmark
  <2> HIDE DEF d
  <2> QED
    BY <1>s, <2>1, <2>2, <2>3
<1>4. CASE RemoveDirectory(p)
  <2>1. NoStage.good /\ ~NoStage.alien /\ ~Resumable(NoStage)
    BY DEF NoStage, Resumable
  <2>2. Write(p, NoStage, "verify") /\ setup[p].pc = "remove"
    BY <1>4 DEF RemoveDirectory
  <2> QED
    BY <1>s, <2>1, <2>2, NoStageSound
<1>5. ASSUME NEW tree \in Trees, NEW pc \in {"tree", "publish"},
             setup[p].pc \in {"extract", "seal"},
             Write(p, [Mine(p) EXCEPT !.holds = tree], pc)
      PROVE  LeftAlone'
  <2> DEFINE d == [Mine(p) EXCEPT !.holds = tree]
  <2>1. /\ Mine(p) \in Directories /\ Mine(p).kind = "tree"
        /\ Mine(p).good /\ ~Mine(p).alien
    BY <1>5, OwnIsGood DEF Fits
  <2>2. d \in Directories /\ d.kind = "tree" /\ d.good /\ ~d.alien /\ d.holds # "partial"
    BY <2>1 DEF Directories, Trees
  <2>3. Sound(d) /\ ~Resumable(d)
    BY <2>2 DEF Sound, Resumable
  <2>4. Write(p, d, pc)
    BY <1>5
  <2> HIDE DEF d
  <2> QED
    BY <1>0, <1>5, <2>2, <2>3, <2>4, WriteResumes DEF Write
<1>6. CASE Extract(p)
  BY <1>5, <1>6 DEF Extract, Trees
<1>7. CASE Seal(p)
  <2>1. setup[p].pc = "seal" /\ Mine(p).holds = "pinned"
    BY <1>7, OwnIsGood DEF Seal, Fits
  <2>2. Write(p, [Mine(p) EXCEPT !.holds = "sealed"], "publish")
    BY <1>7, <2>1 DEF Seal
  <2> QED
    BY <1>5, <2>1, <2>2 DEF Trees
<1> QED
  BY <1>1, <1>2, <1>3, <1>4, <1>6, <1>7


\* A new directory, and the first download: there was none to resume.
LEMMA BeginningsResume ==
    ASSUME FolderInv, LeftAlone, NEW p \in Process,
           NewDownload(p) \/ NewTree(p) \/ NewPartial(p)
    PROVE  LeftAlone'
<1>0. final \in {"none", "pinned"} /\ archive \in {"none", "pinned"} /\ setup[p] \in Setups
  BY DEF LeftAlone, FolderInv
<1>1. ASSUME NEW kind \in {"download", "tree"}, NEW pc \in {"new download", "new tree"},
             NewStage(p, kind, pc), kind = "download" => Seeking(setup[p], stages)
      PROVE  LeftAlone'
  <2>1. PICK s \in Stage :
           /\ stages[s] = NoStage
           /\ stages' = [stages EXCEPT ![s].kind = kind]
           /\ setup' = [setup EXCEPT ![p].stage = s, ![p].pc = "mark"]
    BY <1>1 DEF NewStage
  <2> DEFINE d == [NoStage EXCEPT !.kind = kind]
             x == [setup[p] EXCEPT !.stage = s, !.pc = "mark"]
  <2>2. /\ d \in Directories /\ d.kind = kind /\ d.holds = "nothing" /\ d.good /\ ~d.alien
    <3>1. /\ NoStage \in Directories /\ NoStage.holds = "nothing"
          /\ NoStage.good /\ ~NoStage.alien
      BY NoStageSound DEF NoStage
    <3> QED
      BY <3>1 DEF Directories
  <2>3. Sound(d) /\ ~Resumable(d)
    BY <2>2 DEF Sound, Resumable
  <2>4. stages' = [stages EXCEPT ![s] = d]
    BY <2>1
  <2>5. x.pc = "mark" /\ x.stage = s /\ setup' = [setup EXCEPT ![p] = x]
    BY <1>0, <2>1 DEF Setups
  <2> HIDE DEF d, x
  <2>6. stages'[s] = d
    BY <2>2, <2>3, <2>4, Changed
  <2>7. Seeking(x, stages') => Seeking(setup[p], stages)
    BY <1>1, <2>2, <2>5, <2>6 DEF Seeking
  <2>8. final' = final /\ archive' = archive /\ setup[p].pc \notin Outside
    BY <1>1 DEF NewStage, At, Outside
  <2> QED
    BY <1>0, <2>2, <2>3, <2>4, <2>5, <2>7, <2>8, ChangeResumes
<1>2. CASE NewDownload(p)
  <2>1. Seeking(setup[p], stages) /\ NewStage(p, "download", "new download")
    BY <1>2 DEF NewDownload, NewStage, At, Seeking
  <2> QED
    BY <1>1, <2>1
<1>3. CASE NewTree(p)
  BY <1>1, <1>3 DEF NewTree
<1>4. CASE NewPartial(p)
  <2> DEFINE s == setup[p].stage
             d == [Mine(p) EXCEPT !.holds = "partial"]
             x == [setup[p] EXCEPT !.pc = "chunks"]
  <2>1. setup[p].pc = "new partial" /\ Write(p, d, "chunks")
    BY <1>4 DEF NewPartial, At
  <2>2. /\ s \in Stage /\ Mine(p) \in Directories /\ Fits("new partial", Mine(p))
        /\ Mine(p).good /\ ~Mine(p).alien
    BY <2>1, OwnIsGood DEF Using, Emptied
  <2>3. d \in Directories /\ d.kind = "download" /\ d.good /\ ~d.alien
    BY <2>2 DEF Directories, Fits, Emptied
  <2>4. Sound(d)
    BY <2>3 DEF Sound
  <2>5. NothingToResume /\ lease = p
    BY <2>1, WorksAlone DEF LeftAlone, Seeking, Outside
  <2>6. /\ stages' = [stages EXCEPT ![s] = d] /\ final' = final /\ archive' = archive
        /\ setup' = [setup EXCEPT ![p] = x] /\ x.pc = "chunks"
    BY <1>0, <2>1 DEF Write, Go, FolderInv, Setups
  <2> HIDE DEF d, x
  <2>7. stages'[s] = d /\ \A t \in Stage \ {s} : stages'[t] = stages[t]
    BY <2>2, <2>3, <2>4, <2>6, Changed
  <2>8. \A t \in Stage : Resumable(stages'[t]) => t = s
    BY <2>5, <2>7 DEF NothingToResume
  <2>9. \A t \in Stage : stages'[t].good /\ ~stages'[t].alien
    <3> SUFFICES ASSUME NEW t \in Stage PROVE stages'[t].good /\ ~stages'[t].alien
      OBVIOUS
    <3>1. CASE t = s
      BY <2>3, <2>7, <3>1
    <3>2. CASE t # s
      BY <2>7, <3>2 DEF LeftAlone
    <3> QED
      BY <3>1, <3>2
  <2>10. ASSUME NEW q \in Process PROVE ~Seeking(setup'[q], stages')
    <3>1. CASE q = p
      BY <2>6, <3>1 DEF Seeking, FolderInv
    <3>2. CASE q # p
      <4>1. setup'[q] = setup[q] /\ setup[q].pc \in Outside
        BY <2>5, <2>6, <3>2 DEF FolderInv
      <4> QED
        BY <4>1, OutsideSeeksNone
    <3> QED
      BY <3>1, <3>2
  <2> QED
    BY <1>0, <2>6, <2>8, <2>9, <2>10 DEF LeftAlone
<1> QED
  BY <1>2, <1>3, <1>4

\* The archive and the tree get their names, and earlier trees are removed.
LEMMA LastsResume ==
    ASSUME FolderInv, LeftAlone, NEW p \in Process,
           MoveArchive(p) \/ Publish(p) \/ RetireStage(p)
    PROVE  LeftAlone'
<1>0. /\ final \in {"none", "pinned"} /\ archive \in {"none", "pinned"}
      /\ setup[p] \in Setups /\ stages \in [Stage -> Directories]
  BY DEF LeftAlone, FolderInv
<1>g. NoStage.good /\ ~NoStage.alien /\ ~Resumable(NoStage)
  BY DEF NoStage, Resumable
<1>1. CASE MoveArchive(p)
  <2> DEFINE d == [Mine(p) EXCEPT !.holds = "nothing", !.bytes = 0, !.good = TRUE]
  <2>1. setup[p].pc = "move" /\ setup[p].pc \in Using /\ Go(p, "unmark")
    BY <1>1 DEF MoveArchive, At, Using, Downloading
  <2>2. /\ Mine(p) \in Directories /\ Sound(Mine(p)) /\ Mine(p).good /\ ~Mine(p).alien
        /\ setup[p].stage \in Stage
    BY <2>1, OwnIsGood
  <2>3. stages' = [stages EXCEPT ![setup[p].stage] = d]
    BY <1>0, <1>1, <2>2 DEF MoveArchive, Mine
  <2>4. d \in Directories /\ d.holds = "nothing" /\ d.good /\ ~d.alien
    <3>1. 0 \in 0 .. Bytes
      BY NoStageSound DEF NoStage, Directories
    <3> QED
      BY <2>2, <3>1 DEF Directories
  <2>5. Sound(d) /\ ~Resumable(d)
    BY <2>4 DEF Sound, Resumable
  <2>6. final' = final /\ archive' = "pinned"
    BY <1>1, <2>2 DEF MoveArchive
  <2> HIDE DEF d
  <2>7. PICK pc \in {"unmark"} : Go(p, pc)
    BY <2>1
  <2> QED
    BY <1>0, <2>1, <2>2, <2>3, <2>4, <2>5, <2>6, <2>7, WriteResumes
<1>2. CASE Publish(p)
  <2> DEFINE x == [setup[p] EXCEPT !.pc = "installed", !.stage = None]
  <2>1. setup[p].pc = "publish" /\ setup[p].pc \in Using /\ setup[p].pc \notin Outside
    BY <1>2 DEF Publish, At, Using, Extracting, Outside
  <2>2. setup[p].stage \in Stage /\ ~Mine(p).alien /\ Mine(p).holds = "sealed"
    BY <2>1, OwnIsGood DEF Fits
  <2>3. final' = "pinned" /\ archive' = archive
    BY <1>2, <2>2 DEF Publish, Published
  <2>4. x.pc = "installed" /\ setup' = [setup EXCEPT ![p] = x]
    BY <1>0, <1>2 DEF Publish, Setups
  <2>5. stages' = [stages EXCEPT ![setup[p].stage] = NoStage]
    BY <1>2 DEF Publish
  <2> HIDE DEF x
  <2>6. ~Seeking(x, stages')
    BY <2>4 DEF Seeking
  <2> QED
    BY <1>0, <1>g, <2>1, <2>2, <2>3, <2>4, <2>5, <2>6, NoStageSound, ChangeResumes
<1>3. CASE RetireStage(p)
  <2>1. /\ setup[p].pc \in {"retire", "retire again"} /\ setup[p].pc \notin Outside
        /\ final' = final /\ archive' = archive
    BY <1>3 DEF RetireStage, Outside
  <2>2. PICK s \in Stage :
           /\ OwnedTree(stages[s])
           /\ \/ stages' = [stages EXCEPT ![s] = NoStage] /\ UNCHANGED <<setup, lease>>
              \/ /\ \E m \in BOOLEAN, a \in {FALSE, stages[s].alien} :
                      stages' = [stages EXCEPT ![s].marked = m, ![s].alien = a,
                                               ![s].holds = "part"]
                 /\ setup' = [setup EXCEPT ![p] = NoSetup] /\ Release(p)
    BY <1>3 DEF RetireStage
  <2>3. CASE stages' = [stages EXCEPT ![s] = NoStage] /\ UNCHANGED <<setup, lease>>
    <3>1. setup' = [setup EXCEPT ![p] = setup[p]]
      BY <2>3 DEF FolderInv
    <3>2. ~Seeking(setup[p], stages')
      BY <2>1 DEF Seeking
    <3> QED
      BY <1>0, <1>g, <2>1, <2>3, <3>1, <3>2, NoStageSound, ChangeResumes
  <2>4. ASSUME NEW m \in BOOLEAN, NEW a \in {FALSE, stages[s].alien},
               stages' = [stages EXCEPT ![s].marked = m, ![s].alien = a,
                                        ![s].holds = "part"],
               setup' = [setup EXCEPT ![p] = NoSetup]
        PROVE  LeftAlone'
    <3> DEFINE d == [stages[s] EXCEPT !.marked = m, !.alien = a, !.holds = "part"]
    <3>1. d \in Directories /\ d.kind = "tree" /\ d.good /\ ~d.alien
      BY <1>0, <2>2 DEF Directories, OwnedTree, Trees, LeftAlone
    <3>2. Sound(d) /\ ~Resumable(d)
      BY <3>1 DEF Sound, Resumable
    <3>3. stages' = [stages EXCEPT ![s] = d]
      BY <1>0, <2>4
    <3> HIDE DEF d
    <3>4. ~Seeking(NoSetup, stages')
      BY DEF Seeking, NoSetup
    <3> QED
      BY <1>0, <2>1, <2>4, <3>1, <3>2, <3>3, <3>4, ChangeResumes
  <2> QED
    BY <2>2, <2>3, <2>4
<1> QED
  BY <1>1, <1>2, <1>3


\* A worker unpacks into a directory that no download is in.
LEMMA UnpackingResumes == FolderInv /\ LeftAlone /\ Unpacks => LeftAlone'
<1> SUFFICES ASSUME FolderInv, LeftAlone, Unpacks PROVE LeftAlone'
  OBVIOUS
<1>1. PICK s \in Stage : /\ stages[s].kind = "tree"
                         /\ stages' = [stages EXCEPT ![s].holds = "part"]
  BY DEF Unpacks
<1>2. setup' = setup /\ final' = final /\ archive' = archive
  BY DEF Unpacks
<1> DEFINE d == [stages[s] EXCEPT !.holds = "part"]
<1>3. d \in Directories /\ d.kind = "tree" /\ d.good /\ ~d.alien
  BY <1>1 DEF FolderInv, Directories, Trees, LeftAlone
<1>4. Sound(d)
  BY <1>3 DEF Sound, Directories, FolderInv
<1>5. stages' = [stages EXCEPT ![s] = d]
  BY <1>1 DEF FolderInv
<1> HIDE DEF d
<1>6. stages'[s] = d /\ \A t \in Stage \ {s} : stages'[t] = stages[t]
  BY <1>3, <1>4, <1>5, Changed
<1>7. ASSUME NEW t \in Stage
      PROVE  /\ Resumable(stages'[t]) => Resumable(stages[t])
             /\ stages'[t].kind = stages[t].kind
             /\ stages'[t].good /\ ~stages'[t].alien
  <2>1. CASE t = s
    BY <1>1, <1>3, <1>6, <2>1 DEF Resumable
  <2>2. CASE t # s
    BY <1>6, <2>2 DEF LeftAlone
  <2> QED
    BY <2>1, <2>2
<1>8. ASSUME NEW q \in Process, Seeking(setup'[q], stages') PROVE NothingToResume'
  <2>1. setup[q].pc = "mark" => setup[q].stage \in Stage
    BY UsesOwn DEF Using
  <2>2. Seeking(setup[q], stages)
    BY <1>2, <1>7, <1>8, <2>1 DEF Seeking
  <2> QED
    BY <1>7, <2>2 DEF LeftAlone, NothingToResume
<1> QED
  BY <1>2, <1>7, <1>8 DEF LeftAlone

LEMMA InitResume == Init => ResumeInv
<1> SUFFICES ASSUME Init PROVE ResumeInv
  OBVIOUS
<1>1. \A s \in Stage : stages[s].good /\ ~stages[s].alien /\ ~Resumable(stages[s])
  BY DEF Init, NoStage, Resumable
<1>2. \A p \in Process : ~Seeking(setup[p], stages)
  BY DEF Init, NoSetup, Seeking
<1> QED
  BY <1>1, <1>2 DEF Init, ResumeInv, LeftAlone

\* Changes of the user are counted, and wrong bytes are not forgotten.
LEMMA HistoryStep ==
    ASSUME changes \in Nat, honest \in BOOLEAN, [Next]_vars
    PROVE  /\ changes' \in Nat /\ honest' \in BOOLEAN
           /\ changes' = 0 => changes = 0 /\ ~UserChanges
           /\ honest' => honest
<1>1. ASSUME UNCHANGED history, ~UserChanges
      PROVE  /\ changes' \in Nat /\ honest' \in BOOLEAN
             /\ changes' = 0 => changes = 0 /\ ~UserChanges
             /\ honest' => honest
  BY <1>1 DEF history
<1>2. CASE UserChanges
  BY <1>2 DEF UserChanges
<1>3. ASSUME ~UserChanges, NEW p \in Process, Chunk(p)
      PROVE  /\ changes' \in Nat /\ honest' \in BOOLEAN
             /\ changes' = 0 => changes = 0 /\ ~UserChanges
             /\ honest' => honest
  <2>1. PICK right \in BOOLEAN : honest' = (honest /\ right)
    BY <1>3 DEF Chunk
  <2>2. honest' \in BOOLEAN /\ (honest' => honest)
    BY <2>1, Zenon
  <2>3. changes' = changes
    BY <1>3 DEF Chunk
  <2> QED
    BY <1>3, <2>2, <2>3
<1>4. ASSUME NEW p \in Process, Step(p), ~Chunk(p) PROVE UNCHANGED history
  <2>1. CASE Begin(p) \/ Acquire(p) \/ HashesEnded(p) \/ AlreadyInstalled(p) \/ NotInstalled(p)
             \/ RetireStage(p) \/ AllRetired(p) \/ ArchiveThere(p) \/ ArchiveVerified(p)
    BY <2>1 DEF Begin, Acquire, HashesEnded, AlreadyInstalled, NotInstalled,
         RetireStage, AllRetired, ArchiveThere, ArchiveVerified
  <2>2. CASE FindDownload(p) \/ Respond(p) \/ NewDownload(p) \/ NewTree(p) \/ Mark(p)
             \/ NewPartial(p) \/ Received(p) \/ HashMatches(p) \/ MoveArchive(p)
    BY <2>2 DEF FindDownload, Respond, NewDownload, NewTree, NewStage, Mark, NewPartial,
         Received, HashMatches, MoveArchive
  <2>3. CASE Unmark(p) \/ RemoveDirectory(p) \/ Extract(p) \/ CheckTree(p) \/ Seal(p)
             \/ Publish(p) \/ Spawn(p) \/ Answers(p)
    BY <2>3 DEF Unmark, RemoveDirectory, Extract, CheckTree, Seal, Publish, Spawn, Answers
  <2>4. CASE StillOwner(p) \/ RecordLaunch(p) \/ SaveReceipt(p) \/ Cancel(p) \/ Kill(p)
    BY <2>4 DEF StillOwner, RecordLaunch, SaveReceipt, Cancel, Kill
  <2> QED
    BY <1>4, <2>1, <2>2, <2>3, <2>4 DEF Step
<1>5. CASE Unpacks \/ WorkerEnds \/ ProgramStarts \/ Listens \/ ProgramEnds
  <2>1. UNCHANGED history
    BY <1>5 DEF Unpacks, WorkerEnds, ProgramStarts, Listens, ProgramEnds
  <2> QED
    BY <1>1, <1>2, <2>1
<1>6. CASE UNCHANGED vars
  BY <1>1, <1>2, <1>6 DEF vars
<1> QED
  BY <1>1, <1>2, <1>3, <1>4, <1>5, <1>6 DEF Next, Others

LEMMA ResumeStep == FolderInv /\ ResumeInv /\ [Next]_vars => ResumeInv'
<1> SUFFICES ASSUME FolderInv, ResumeInv, [Next]_vars PROVE ResumeInv'
  OBVIOUS
<1>1. /\ changes' \in Nat /\ honest' \in BOOLEAN
      /\ changes' = 0 => changes = 0 /\ ~UserChanges
      /\ honest' => honest
  BY HistoryStep DEF ResumeInv
<1> SUFFICES ASSUME changes' = 0, honest' PROVE LeftAlone'
  BY <1>1 DEF ResumeInv
<1>2. LeftAlone /\ honest \in BOOLEAN /\ ~UserChanges
  BY <1>1 DEF ResumeInv
<1>3. CASE UNCHANGED vars
  BY <1>2, <1>3 DEF vars, folder, LeftAlone, NothingToResume
<1>4. ASSUME NEW p \in Process, Step(p) PROVE LeftAlone'
  BY <1>2, <1>4, QuietStepsResume, WritesResume, BeginningsResume, LastsResume DEF Step
<1>5. CASE WorkerEnds \/ ProgramStarts \/ Listens \/ ProgramEnds
  BY <1>2, <1>5 DEF WorkerEnds, ProgramStarts, Listens, ProgramEnds, folder,
       LeftAlone, NothingToResume
<1> QED
  BY <1>2, <1>3, <1>4, <1>5, UnpackingResumes DEF Next, Others

(***************************************************************************)
(* Wherever setups were cut off, nothing they left in the folder makes the *)
(* next one refuse, unless the user changed the folder or the origin sent  *)
(* wrong bytes.  What they left on the port is not spoken of: see          *)
(* FolderNeverBlocks.                                                      *)
(***************************************************************************)
THEOREM FolderIsReusable == Spec => []FolderNeverBlocks
<1>1. ResumeInv => FolderNeverBlocks
  BY DEF ResumeInv, LeftAlone, FolderNeverBlocks, FolderBlocks
<1>2. ResumeInv /\ []FolderInv /\ [][Next]_vars => []ResumeInv
  BY ResumeStep, PTL
<1> QED
  BY <1>1, <1>2, InitResume, SetupInductive, PTL DEF Spec

=============================================================================
