--------------------------- MODULE LocalApplyProofs ---------------------------
EXTENDS LocalApply, TLAPS

-----------------------------------------------------------------------------
(***************************************************************************)
(* The inductive invariant: what the journal says of the names of the      *)
(* repository whenever nothing runs (the parts on the journal), and what   *)
(* a running command relies on at each of its steps.                       *)
(***************************************************************************)

\* Neither now nor after a loss of power.
Without(n, content) == live[n] # content /\ durable[n] # content
Clear(n) == live[n] = "absent" /\ durable[n] = "absent"

Touched == Edits \cup {New}

Pcs == {"idle", "backup", "classify", "anchor", "identity", "link_temporary", "stage",
        "stage_write", "mark", "link", "published", "sync_target", "next", "write", "verify",
        "replace", "replaced", "clean", "sync", "acknowledge", "prepare", "forward",
        "sync_sources", "mark_deletion", "dispose", "disposed"}

Commands == [op : {"none", "apply", "rollback"}, pc : Pcs, i : Nat,
             done : SUBSET Edits, published : BOOLEAN]

Journals == [state : JournalStates, identity : BOOLEAN, attempted : BOOLEAN,
             deletion : BOOLEAN]

\* The content of the names in a view of the disk.
ViewOK(view) ==
    /\ view \in [Name -> SourceContent \cup TempContent]
    /\ \A f \in File : view[Source(f)] \in {"before", "after", "other"}
    /\ view[Source(New)] \in SourceContent \ {"before"}
    /\ \A f \in File \cup {New} :
          view[Forward(f)] \in TempContent /\ view[Backward(f)] \in TempContent

CmdOK ==
    /\ cmd \in Commands
    /\ cmd.i \in 1..Len(request.edits) + 1
    /\ cmd.op = "none" => cmd = Idle

TypeInv ==
    /\ request \in Requests
    /\ ViewOK(live) /\ ViewOK(durable)
    /\ backups \subseteq Edits /\ anchor \in BOOLEAN /\ clean \in BOOLEAN
    /\ journal \in Journals
    /\ CmdOK
    /\ raced \subseteq Edits

\* Before the journal nothing was written; with it every original is saved.
BatchInv ==
    /\ journal.state = "none" =>
         /\ ~journal.attempted /\ ~journal.identity
         /\ \A f \in Edits : Without(Source(f), "after") /\ Clear(Forward(f))
    /\ journal.state # "none" => Edits \subseteq backups
    /\ journal.state \in {"none", "prepared", "applied"} =>
         ~journal.deletion /\ \A f \in Edits : Clear(Backward(f))
    /\ journal.state = "applied" =>
         \A f \in Edits : Without(Source(f), "before") /\ Clear(Forward(f))
    /\ journal.state = "rolled_back" =>
         /\ \A f \in Edits : /\ Without(Source(f), "after")
                             /\ Clear(Forward(f)) /\ Clear(Backward(f))
         /\ Without(Source(New), "after")

\* The anchor, the identity, the attempt, the link at the target, the marker:
\* each is there only after the one before it.
CreationInv ==
    /\ journal.identity => anchor /\ request.create
    /\ journal.attempted => journal.identity
    /\ ~journal.identity => Clear(Forward(New))
    /\ ~journal.attempted => Without(Source(New), "after")
    /\ Clear(Backward(New))
    /\ request.create /\ journal.state \in {"applied", "rollback_prepared", "rolled_back"} =>
         /\ journal.attempted
         /\ \A f \in Edits : Clear(Forward(f))
         /\ Clear(Forward(New))
         /\ ~journal.deletion => Without(Source(New), "absent")
    /\ request.create /\ journal.state = "rolled_back" => journal.deletion
    /\ journal.deletion =>
         /\ request.create /\ journal.state \in {"rollback_prepared", "rolled_back"}
         /\ \A f \in Edits : Without(Source(f), "after") /\ Clear(Backward(f))
    /\ request.create /\ (\E f \in Edits : ~Without(Source(f), "after")) =>
         Without(Source(New), "absent")

Staging == {"link_temporary", "stage", "stage_write", "mark", "link", "published",
            "sync_target"}

\* What an apply relies on.
ApplyAt ==
    cmd.op = "apply" =>
        /\ IF cmd.pc = "backup"
           THEN /\ journal.state = "none"
                /\ \A j \in 1..cmd.i - 1 : request.edits[j] \in backups
           ELSE journal.state \in {"prepared", "applied"}
        /\ journal.state = "applied" =>
             cmd.pc \in {"classify", "clean", "sync", "acknowledge"}
        /\ cmd.pc \in Staging \cup {"anchor", "identity"} => request.create
        /\ cmd.pc = "identity" => anchor
        /\ cmd.pc \in Staging => journal.identity
        /\ cmd.pc \in {"link", "published", "sync_target"} => journal.attempted
        /\ cmd.published => journal.attempted /\ live[Source(New)] # "absent"
        /\ cmd.pc = "sync_target" => live[Source(New)] # "absent"
        /\ request.create =>
             /\ cmd.pc \notin {"write", "verify"}
             /\ cmd.pc \in {"next", "replace", "replaced"} =>
                  journal.attempted /\ Without(Source(New), "absent")
             /\ cmd.pc \in {"clean", "sync", "acknowledge"} =>
                  journal.attempted /\ live[Source(New)] # "absent"
             /\ cmd.pc \in {"sync", "acknowledge"} => live[Forward(New)] = "absent"
             /\ cmd.pc = "acknowledge" =>
                  Without(Source(New), "absent") /\ Clear(Forward(New))
        /\ cmd.pc \in {"clean", "sync", "acknowledge"} =>
             \A f \in Edits : live[Source(f)] # "before"
        /\ cmd.pc \in {"sync", "acknowledge"} => \A f \in Edits : live[Forward(f)] = "absent"
        /\ cmd.pc = "acknowledge" =>
             \A f \in Edits : Without(Source(f), "before") /\ Clear(Forward(f))

\* What a rollback relies on: it holds New open until it is deleted.
RollbackAt ==
    cmd.op = "rollback" =>
        /\ cmd.pc = "prepare" =>
             /\ journal.state \in {"prepared", "applied"}
             /\ request.create => journal.state = "applied"
        /\ cmd.pc # "prepare" => journal.state \in {"rollback_prepared", "rolled_back"}
        /\ journal.state = "rolled_back" => cmd.pc \in {"sync", "acknowledge"}
        /\ request.create /\ (~journal.deletion \/ cmd.pc = "dispose") => Published
        /\ cmd.pc \in {"sync_sources", "mark_deletion", "dispose", "disposed"} => request.create
        /\ cmd.pc \in {"dispose", "disposed"} => journal.deletion
        /\ request.create /\ cmd.pc \in {"sync", "acknowledge"} => journal.deletion
        /\ cmd.pc = "mark_deletion" =>
             \A f \in Edits : Without(Source(f), "after") /\ Clear(Backward(f))
        /\ cmd.pc \notin {"prepare", "forward"} => \A f \in Edits : live[Forward(f)] = "absent"
        /\ journal.deletion =>
             /\ cmd.pc \notin {"prepare", "write", "verify", "replace", "replaced",
                               "mark_deletion"}
             /\ cmd.pc = "next" => ~MoreFiles
        /\ cmd.pc \in {"clean", "sync_sources", "sync"} =>
             \A f \in Edits : live[Source(f)] # "after"
        /\ cmd.pc \in {"sync_sources", "sync"} => \A f \in Edits : live[Backward(f)] = "absent"
        /\ cmd.pc \in {"sync", "acknowledge"} => live[Source(New)] # "after"
        /\ cmd.pc = "acknowledge" =>
             /\ \A f \in Edits : /\ Without(Source(f), "after")
                                 /\ Clear(Forward(f)) /\ Clear(Backward(f))
             /\ Without(Source(New), "after")

\* A file is worked on only if there is one, and an edit of the user's is
\* replaced only if it came after the last check.
FileAt ==
    /\ cmd.pc \in {"stage_write", "write", "verify", "replace", "replaced"} => MoreFiles
    /\ cmd.pc = "replace" => live[Source(ThisFile)] = From \/ ThisFile \in raced

IInv == TypeInv /\ BatchInv /\ CreationInv /\ ApplyAt /\ RollbackAt /\ FileAt


-----------------------------------------------------------------------------
(* The names of the repository, and what an operation does to them.        *)

Files == File \cup {New}

\* Different names are different.
LEMMA Names ==
    ASSUME NEW f \in Files, NEW g \in Files
    PROVE  /\ Source(f) \in Name /\ Forward(f) \in Name /\ Backward(f) \in Name
           /\ Source(f) # Forward(g) /\ Source(f) # Backward(g) /\ Forward(f) # Backward(g)
           /\ Source(f) = Source(g) <=> f = g
           /\ Forward(f) = Forward(g) <=> f = g
           /\ Backward(f) = Backward(g) <=> f = g
BY DEF Files, Name, Source, Forward, Backward

\* The edited files are existing files, so none of them is New.
LEMMA EditsAreFiles ==
    ASSUME request \in Requests
    PROVE  /\ Edits \subseteq File /\ New \notin Edits /\ Edits \subseteq Files /\ New \in Files
           /\ request.edits \in Seq(File) /\ Len(request.edits) \in Nat
           /\ request.create \in BOOLEAN
           /\ \A i \in 1..Len(request.edits) : request.edits[i] \in Edits
           /\ MoreFiles /\ CmdOK => ThisFile \in Edits
<1>1. request.edits \in Seq(File) /\ request.create \in BOOLEAN
  BY RequestsAssumption
<1>2. /\ Len(request.edits) \in Nat /\ DOMAIN request.edits = 1..Len(request.edits)
      /\ \A i \in 1..Len(request.edits) : request.edits[i] \in File
  BY <1>1
<1>3. MoreFiles /\ CmdOK => cmd.i \in 1..Len(request.edits)
  BY <1>2 DEF MoreFiles, CmdOK, Commands
<1> QED
  BY <1>1, <1>2, <1>3, NewAssumption DEF Edits, Files, ThisFile

\* A command that goes on keeps what it remembers.
LEMMA Goes ==
    ASSUME CmdOK, request \in Requests, request' = request, cmd.op # "none",
           NEW p \in Pcs, Goto(p)
    PROVE  /\ cmd'.op = cmd.op /\ cmd'.pc = p /\ cmd'.i = cmd.i
           /\ cmd'.done = cmd.done /\ cmd'.published = cmd.published
           /\ CmdOK'
<1>1. Edits' = Edits
  BY DEF Edits
<1>2. /\ cmd'.op = cmd.op /\ cmd'.pc = p /\ cmd'.i = cmd.i
      /\ cmd'.done = cmd.done /\ cmd'.published = cmd.published
      /\ cmd' \in Commands
  BY DEF Goto, CmdOK, Commands
<1> QED
  BY <1>1, <1>2 DEF CmdOK, Commands

LEMMA GoesFirst ==
    ASSUME CmdOK, request \in Requests, request' = request, cmd.op # "none",
           NEW p \in Pcs, FirstFile(p)
    PROVE  /\ cmd'.op = cmd.op /\ cmd'.pc = p /\ cmd'.i = 1
           /\ cmd'.done = cmd.done /\ cmd'.published = cmd.published
           /\ CmdOK'
<1>1. Edits' = Edits /\ 1 \in 1..Len(request.edits) + 1
  BY EditsAreFiles DEF Edits
<1>2. /\ cmd'.op = cmd.op /\ cmd'.pc = p /\ cmd'.i = 1
      /\ cmd'.done = cmd.done /\ cmd'.published = cmd.published
      /\ cmd' \in Commands
  BY DEF FirstFile, CmdOK, Commands
<1> QED
  BY <1>1, <1>2 DEF CmdOK, Commands

LEMMA GoesNext ==
    ASSUME CmdOK, request \in Requests, request' = request, cmd.op # "none", MoreFiles,
           NEW p \in Pcs, NextFile(p)
    PROVE  /\ cmd'.op = cmd.op /\ cmd'.pc = p /\ cmd'.i = cmd.i + 1
           /\ cmd'.done = cmd.done /\ cmd'.published = cmd.published
           /\ CmdOK'
<1>1. Edits' = Edits /\ cmd.i + 1 \in 1..Len(request.edits) + 1
  BY EditsAreFiles DEF Edits, CmdOK, Commands, MoreFiles
<1>2. cmd' = [cmd EXCEPT !.pc = p, !.i = cmd.i + 1]
  BY DEF NextFile, CmdOK, Commands
<1>3. PICK k \in Nat : k = cmd.i + 1
  BY DEF CmdOK, Commands
<1>4. /\ cmd'.op = cmd.op /\ cmd'.pc = p /\ cmd'.i = k
      /\ cmd'.done = cmd.done /\ cmd'.published = cmd.published
      /\ cmd' \in Commands
  BY <1>2, <1>3 DEF CmdOK, Commands
<1> QED
  BY <1>1, <1>3, <1>4 DEF CmdOK, Commands

\* A command begins, or comes to its next file, with fields of their types.
LEMMA Begins ==
    ASSUME request \in Requests, request' = request,
           NEW o \in {"apply", "rollback"}, NEW p \in Pcs, NEW k \in 1..Len(request.edits) + 1,
           NEW D \in SUBSET Edits, NEW b \in BOOLEAN,
           cmd' = [op |-> o, pc |-> p, i |-> k, done |-> D, published |-> b]
    PROVE  /\ cmd'.op = o /\ cmd'.pc = p /\ cmd'.i = k /\ cmd'.done = D /\ cmd'.published = b
           /\ CmdOK'
<1>1. Edits' = Edits /\ k \in Nat
  BY EditsAreFiles DEF Edits
<1>2. cmd' \in Commands'
  BY <1>1 DEF Commands
<1>3. /\ cmd'.op = o /\ cmd'.pc = p /\ cmd'.i = k /\ cmd'.done = D /\ cmd'.published = b
  OBVIOUS
<1> QED
  BY <1>1, <1>2, <1>3 DEF CmdOK

\* Writing one name leaves the others alone.
LEMMA PutSource ==
    ASSUME ViewOK(live), ViewOK(durable), NEW f \in Files,
           NEW x \in IF f = New THEN SourceContent \ {"before"} ELSE {"before", "after", "other"},
           Put(Source(f), x)
    PROVE  /\ ViewOK(live)' /\ ViewOK(durable)' /\ durable' = durable
           /\ \A g \in Files : /\ live'[Source(g)] = (IF g = f THEN x ELSE live[Source(g)])
                               /\ live'[Forward(g)] = live[Forward(g)]
                               /\ live'[Backward(g)] = live[Backward(g)]
<1>1. live' \in [Name -> SourceContent \cup TempContent]
  BY Names DEF Put, ViewOK, SourceContent
<1>2. \A g \in Files : /\ live'[Source(g)] = (IF g = f THEN x ELSE live[Source(g)])
                       /\ live'[Forward(g)] = live[Forward(g)]
                       /\ live'[Backward(g)] = live[Backward(g)]
  BY Names DEF Put, ViewOK
<1> QED
  BY <1>1, <1>2, NewAssumption DEF Put, ViewOK, Files

LEMMA PutTemp ==
    ASSUME ViewOK(live), ViewOK(durable), NEW f \in Files, NEW x \in TempContent,
           NEW n \in {Forward(f), Backward(f)}, Put(n, x)
    PROVE  /\ ViewOK(live)' /\ ViewOK(durable)' /\ durable' = durable
           /\ \A g \in Files :
                /\ live'[Source(g)] = live[Source(g)]
                /\ live'[Forward(g)] = (IF n = Forward(g) THEN x ELSE live[Forward(g)])
                /\ live'[Backward(g)] = (IF n = Backward(g) THEN x ELSE live[Backward(g)])
<1>1. live' \in [Name -> SourceContent \cup TempContent]
  BY Names DEF Put, ViewOK
<1>2. \A g \in Files :
         /\ live'[Source(g)] = live[Source(g)]
         /\ live'[Forward(g)] = (IF n = Forward(g) THEN x ELSE live[Forward(g)])
         /\ live'[Backward(g)] = (IF n = Backward(g) THEN x ELSE live[Backward(g)])
  BY Names DEF Put, ViewOK
<1> QED
  BY <1>1, <1>2, NewAssumption DEF Put, ViewOK, Files

\* Removing temporaries touches no source.
LEMMA Removes ==
    ASSUME ViewOK(live), ViewOK(durable), NEW names, Remove(names),
           \A g \in Files : Source(g) \notin names
    PROVE  /\ ViewOK(live)' /\ ViewOK(durable)' /\ durable' = durable
           /\ \A g \in Files :
                /\ live'[Source(g)] = live[Source(g)]
                /\ live'[Forward(g)] =
                     (IF Forward(g) \in names THEN "absent" ELSE live[Forward(g)])
                /\ live'[Backward(g)] =
                     (IF Backward(g) \in names THEN "absent" ELSE live[Backward(g)])
<1>1. live' = [n \in Name |-> IF n \in names THEN "absent" ELSE live[n]] /\ durable' = durable
  BY DEF Remove
<1>2. live' \in [Name -> SourceContent \cup TempContent]
  BY <1>1 DEF ViewOK, TempContent
<1>3. \A g \in Files :
         /\ live'[Source(g)] = live[Source(g)]
         /\ live'[Forward(g)] = (IF Forward(g) \in names THEN "absent" ELSE live[Forward(g)])
         /\ live'[Backward(g)] = (IF Backward(g) \in names THEN "absent" ELSE live[Backward(g)])
  BY <1>1, Names
<1> QED
  BY <1>1, <1>2, <1>3, NewAssumption DEF ViewOK, Files, TempContent

\* A sync of the directories of some files makes what they show durable.
LEMMA Syncs ==
    ASSUME ViewOK(live), ViewOK(durable), NEW S \in SUBSET Files,
           Sync({"source", "forward", "backward"} \X S)
    PROVE  /\ ViewOK(live)' /\ ViewOK(durable)' /\ live' = live
           /\ \A g \in S : /\ durable'[Source(g)] = live[Source(g)]
                           /\ durable'[Forward(g)] = live[Forward(g)]
                           /\ durable'[Backward(g)] = live[Backward(g)]
           /\ \A g \in Files \ S : /\ durable'[Source(g)] = durable[Source(g)]
                                   /\ durable'[Forward(g)] = durable[Forward(g)]
                                   /\ durable'[Backward(g)] = durable[Backward(g)]
<1> DEFINE names == {"source", "forward", "backward"} \X S
<1>1. \A g \in Files : /\ Source(g) \in names <=> g \in S
                       /\ Forward(g) \in names <=> g \in S
                       /\ Backward(g) \in names <=> g \in S
  BY DEF Source, Forward, Backward
<1>2. durable' = [n \in Name |-> IF n \in names THEN live[n] ELSE durable[n]] /\ live' = live
  BY DEF Sync
<1> HIDE DEF names
<1>3. durable' \in [Name -> SourceContent \cup TempContent]
  BY <1>2 DEF ViewOK
<1>4. \A g \in Files :
         /\ durable'[Source(g)] = (IF g \in S THEN live[Source(g)] ELSE durable[Source(g)])
         /\ durable'[Forward(g)] = (IF g \in S THEN live[Forward(g)] ELSE durable[Forward(g)])
         /\ durable'[Backward(g)] = (IF g \in S THEN live[Backward(g)] ELSE durable[Backward(g)])
  BY <1>1, <1>2, Names
<1> QED
  BY <1>2, <1>3, <1>4, NewAssumption DEF ViewOK, Files

\* A replacement changes a source and consumes its temporary.
LEMMA Replaces ==
    ASSUME ViewOK(live), ViewOK(durable), NEW f \in File, NEW x \in {"before", "after"},
           NEW n \in {Forward(f), Backward(f)},
           live' = [live EXCEPT ![Source(f)] = x, ![n] = "absent"], durable' = durable
    PROVE  /\ ViewOK(live)' /\ ViewOK(durable)'
           /\ \A g \in Files :
                /\ live'[Source(g)] = (IF g = f THEN x ELSE live[Source(g)])
                /\ live'[Forward(g)] = (IF n = Forward(g) THEN "absent" ELSE live[Forward(g)])
                /\ live'[Backward(g)] = (IF n = Backward(g) THEN "absent" ELSE live[Backward(g)])
<1> f \in Files
  BY DEF Files
<1>1. live' \in [Name -> SourceContent \cup TempContent]
  BY Names DEF ViewOK, SourceContent
<1>2. \A g \in Files :
         /\ live'[Source(g)] = (IF g = f THEN x ELSE live[Source(g)])
         /\ live'[Forward(g)] = (IF n = Forward(g) THEN "absent" ELSE live[Forward(g)])
         /\ live'[Backward(g)] = (IF n = Backward(g) THEN "absent" ELSE live[Backward(g)])
  BY Names DEF ViewOK
<1>3. ViewOK(live)'
  <2>1. \A g \in File : live'[Source(g)] \in {"before", "after", "other"}
    BY <1>2 DEF ViewOK, Files
  <2>2. live'[Source(New)] \in SourceContent \ {"before"}
    BY <1>2, NewAssumption DEF ViewOK, Files
  <2>3. \A g \in Files : live'[Forward(g)] \in TempContent /\ live'[Backward(g)] \in TempContent
    BY <1>2 DEF ViewOK, Files, TempContent
  <2> QED
    BY <1>1, <2>1, <2>2, <2>3 DEF ViewOK, Files
<1> QED
  BY <1>2, <1>3 DEF ViewOK

\* A loss of power leaves of each name what it may hold.
LEMMA Loses ==
    ASSUME ViewOK(live), ViewOK(durable), PowerLoss
    PROVE  /\ ViewOK(live)' /\ ViewOK(durable)'
           /\ \A n \in Name : live'[n] \in MayHold(n) /\ durable'[n] = live'[n]
<1>1. \A n \in Name : live'[n] \in MayHold(n)
  BY DEF PowerLoss, MayHold
<1>2. live' \in [Name -> SourceContent \cup TempContent] /\ durable' = live'
  BY DEF PowerLoss, ViewOK
<1> QED
  BY <1>1, <1>2, Names DEF ViewOK, MayHold, Files


-----------------------------------------------------------------------------
(* Steps that leave the repository and the run directory alone.            *)

LEMMA DiskStays ==
    ASSUME BatchInv, CreationInv, request' = request, UNCHANGED <<disk, saved>>
    PROVE  BatchInv' /\ CreationInv'
<1>1. Edits' = Edits
  BY DEF Edits
<1> QED
  BY <1>1 DEF disk, saved, BatchInv, CreationInv, Without, Clear

LEMMA BeginApplyStep ==
    ASSUME IInv, BeginApply
    PROVE  IInv'
<1> USE DEF IInv
<1>1. /\ request' = request /\ Edits' = Edits /\ clean' = clean /\ raced' = raced
      /\ live' = live /\ durable' = durable
      /\ backups' = backups /\ anchor' = anchor /\ journal' = journal
  BY DEF BeginApply, Env, disk, saved, Edits
<1>2. cmd' = [op |-> "apply", pc |-> IF journal.state = "none" THEN "backup" ELSE "classify",
              i |-> 1, done |-> {}, published |-> request.create /\ Published]
  BY DEF BeginApply, Idle
<1>3. /\ CmdOK' /\ cmd'.op = "apply" /\ cmd'.i = 1
      /\ cmd'.pc = (IF journal.state = "none" THEN "backup" ELSE "classify")
      /\ cmd'.published = (request.create /\ Published)
  <2>1. (request.create /\ Published) \in BOOLEAN
    OBVIOUS
  <2>2. (IF journal.state = "none" THEN "backup" ELSE "classify") \in Pcs
    BY DEF Pcs
  <2>3. request \in Requests /\ 1 \in 1..Len(request.edits) + 1
    BY EditsAreFiles DEF TypeInv
  <2> QED
    BY <1>1, <1>2, <2>1, <2>2, <2>3, Begins
<1>4. TypeInv'
  BY <1>1, <1>3 DEF TypeInv, ViewOK
<1>5. BatchInv' /\ CreationInv'
  BY <1>1, DiskStays DEF disk, saved
<1>6. ApplyAt'
  <2>1. journal.state \in {"none", "prepared", "applied"}
    BY DEF BeginApply, CanApply
  <2>2. cmd'.published => journal.attempted /\ live[Source(New)] # "absent"
    BY <1>3 DEF Published, CreationInv, Without
  <2> QED
    BY <1>1, <1>3, <2>1, <2>2 DEF ApplyAt, Staging
<1>7. RollbackAt' /\ FileAt'
  BY <1>3 DEF RollbackAt, FileAt
<1> QED
  BY <1>4, <1>5, <1>6, <1>7

LEMMA ClassifyStep ==
    ASSUME IInv, Classify
    PROVE  IInv'
<1> USE DEF IInv
<1>1. /\ request' = request /\ Edits' = Edits /\ clean' = clean /\ raced' = raced
      /\ live' = live /\ durable' = durable
      /\ backups' = backups /\ anchor' = anchor /\ journal' = journal
  BY DEF Classify, Env, disk, saved, Edits
<1> DEFINE p == IF journal.state = "applied" THEN "clean"
                ELSE IF ~request.create THEN "next"
                ELSE IF ~cmd.published THEN "anchor"
                ELSE IF Edits = {} THEN "clean"
                ELSE "stage"
<1>2. cmd' = [op |-> "apply", pc |-> p, i |-> 1,
              done |-> {f \in Edits : live[Source(f)] = "after"}, published |-> cmd.published]
  BY DEF Classify, Commands, TypeInv, CmdOK, At
<1>3. CmdOK' /\ cmd'.op = "apply" /\ cmd'.i = 1 /\ cmd'.published = cmd.published /\ cmd'.pc = p
  <2>1. p \in Pcs /\ cmd.published \in BOOLEAN
    BY DEF TypeInv, CmdOK, Commands, Pcs
  <2>2. request \in Requests /\ 1 \in 1..Len(request.edits) + 1
    BY EditsAreFiles DEF TypeInv
  <2> HIDE DEF p
  <2> QED
    BY <1>1, <1>2, <2>1, <2>2, Begins
<1>4. TypeInv'
  BY <1>1, <1>3 DEF TypeInv, ViewOK
<1>5. BatchInv' /\ CreationInv'
  BY <1>1, DiskStays DEF disk, saved
<1>6. ApplyAt'
  BY <1>1, <1>3 DEF ApplyAt, Classify, At, Staging, BatchInv, CreationInv, Without
<1>7. RollbackAt' /\ FileAt'
  BY <1>3 DEF RollbackAt, FileAt
<1> QED
  BY <1>4, <1>5, <1>6, <1>7

\* A step that only moves the command on has to keep what the command relies on.
LEMMA QuietStep ==
    ASSUME IInv, UNCHANGED <<disk, saved>>, Env, CmdOK', ApplyAt', RollbackAt', FileAt'
    PROVE  IInv'
<1>1. request' = request /\ Edits' = Edits /\ clean' = clean /\ raced' = raced
  BY DEF Env, Edits
<1>2. TypeInv'
  BY <1>1 DEF IInv, TypeInv, ViewOK, disk, saved
<1>3. BatchInv' /\ CreationInv'
  BY <1>1, DiskStays DEF IInv
<1> QED
  BY <1>2, <1>3 DEF IInv

\* What every step of a command finds, and what it keeps.
LEMMA Frame ==
    ASSUME IInv, request' = request
    PROVE  /\ Edits' = Edits /\ Edits \subseteq Files /\ Edits \subseteq File
           /\ New \in Files /\ New \notin Edits
           /\ MoreFiles => ThisFile \in Edits
           /\ MoreFiles' <=> cmd'.i <= Len(request.edits)
           /\ ThisFile' = request.edits[cmd'.i]
           /\ Len(request.edits) \in Nat /\ cmd.i \in Nat \ {0} /\ cmd.i <= Len(request.edits) + 1
           /\ request \in Requests /\ CmdOK
BY EditsAreFiles DEF IInv, TypeInv, CmdOK, Commands, Edits, MoreFiles, ThisFile

LEMMA ReuseAnchorStep ==
    ASSUME IInv, ReuseAnchor
    PROVE  IInv'
<1>1. /\ request' = request /\ live' = live /\ durable' = durable
      /\ backups' = backups /\ anchor' = anchor /\ journal' = journal
      /\ UNCHANGED <<disk, saved>> /\ Env
  BY DEF ReuseAnchor, Env, disk, saved
<1>2. /\ CmdOK' /\ cmd.op = "apply" /\ cmd.pc = "anchor"
      /\ cmd'.op = "apply" /\ cmd'.pc = "link_temporary" /\ cmd'.published = cmd.published
  BY <1>1, Frame, Goes DEF ReuseAnchor, At, Pcs
<1>3. ApplyAt'
  BY <1>1, <1>2, Frame DEF IInv, ApplyAt, ReuseAnchor, Staging, Without
<1>4. RollbackAt' /\ FileAt'
  BY <1>2 DEF RollbackAt, FileAt
<1> QED
  BY <1>1, <1>2, <1>3, <1>4, QuietStep

LEMMA StageSkipStep ==
    ASSUME IInv, StageSkip
    PROVE  IInv'
<1>1. /\ request' = request /\ live' = live /\ durable' = durable
      /\ backups' = backups /\ anchor' = anchor /\ journal' = journal
      /\ UNCHANGED <<disk, saved>> /\ Env
  BY DEF StageSkip, Env, disk, saved
<1>2. /\ CmdOK' /\ cmd.op = "apply" /\ cmd.pc = "stage"
      /\ cmd'.op = "apply" /\ cmd'.pc = "stage" /\ cmd'.published = cmd.published
  BY <1>1, Frame, GoesNext DEF StageSkip, At, Pcs
<1>3. ApplyAt'
  BY <1>1, <1>2, Frame DEF IInv, ApplyAt, Staging, Without
<1>4. RollbackAt' /\ FileAt'
  BY <1>2 DEF RollbackAt, FileAt
<1> QED
  BY <1>1, <1>2, <1>3, <1>4, QuietStep

LEMMA CheckStagedStep ==
    ASSUME IInv, CheckStaged
    PROVE  IInv'
<1>1. /\ request' = request /\ live' = live /\ durable' = durable
      /\ backups' = backups /\ anchor' = anchor /\ journal' = journal
      /\ UNCHANGED <<disk, saved>> /\ Env
  BY DEF CheckStaged, Env, disk, saved
<1>2. PICK p \in {"published", "mark"} : Goto(p) /\ (p = "published" => cmd.published)
  BY DEF CheckStaged
<1>3. /\ CmdOK' /\ cmd.op = "apply" /\ cmd.pc = "stage"
      /\ cmd'.op = "apply" /\ cmd'.pc = p /\ cmd'.published = cmd.published
  BY <1>1, <1>2, Frame, Goes DEF CheckStaged, At, Pcs
<1>4. ApplyAt'
  BY <1>1, <1>2, <1>3, Frame DEF IInv, ApplyAt, Staging, Without
<1>5. RollbackAt' /\ FileAt'
  BY <1>3 DEF RollbackAt, FileAt
<1> QED
  BY <1>1, <1>3, <1>4, <1>5, QuietStep

LEMMA ConfirmPublishedStep ==
    ASSUME IInv, ConfirmPublished
    PROVE  IInv'
<1>1. /\ request' = request /\ live' = live /\ durable' = durable
      /\ backups' = backups /\ anchor' = anchor /\ journal' = journal
      /\ UNCHANGED <<disk, saved>> /\ Env
  BY DEF ConfirmPublished, Env, disk, saved
<1>2. PICK p \in {"clean", "sync_target"} : Goto(p) /\ (p = "clean" => Edits = {})
  BY DEF ConfirmPublished
<1>3. /\ CmdOK' /\ cmd.op = "apply" /\ cmd.pc = "published"
      /\ cmd'.op = "apply" /\ cmd'.pc = p /\ cmd'.published = cmd.published
  BY <1>1, <1>2, Frame, Goes DEF ConfirmPublished, At, Pcs
<1>4. ApplyAt'
  BY <1>1, <1>2, <1>3, Frame DEF IInv, ApplyAt, Staging, Without, ConfirmPublished, Published
<1>5. RollbackAt' /\ FileAt'
  BY <1>3 DEF RollbackAt, FileAt
<1> QED
  BY <1>1, <1>3, <1>4, <1>5, QuietStep

LEMMA SkipFileStep ==
    ASSUME IInv, SkipFile
    PROVE  IInv'
<1>1. /\ request' = request /\ live' = live /\ durable' = durable
      /\ backups' = backups /\ anchor' = anchor /\ journal' = journal
      /\ UNCHANGED <<disk, saved>> /\ Env
  BY DEF SkipFile, Env, disk, saved
<1>2. /\ CmdOK' /\ cmd.pc = "next" /\ MoreFiles
      /\ cmd'.op = cmd.op /\ cmd'.pc = "next" /\ cmd'.published = cmd.published
  BY <1>1, Frame, GoesNext DEF SkipFile, Pcs, Idle, CmdOK
<1>3. ApplyAt'
  BY <1>1, <1>2, Frame DEF IInv, ApplyAt, Staging, Without
<1>4. RollbackAt'
  BY <1>1, <1>2, Frame DEF IInv, RollbackAt, Published
<1>5. FileAt'
  BY <1>2 DEF FileAt
<1> QED
  BY <1>1, <1>2, <1>3, <1>4, <1>5, QuietStep

LEMMA LastCheckStep ==
    ASSUME IInv, LastCheck
    PROVE  IInv'
<1>1. /\ request' = request /\ live' = live /\ durable' = durable
      /\ backups' = backups /\ anchor' = anchor /\ journal' = journal
      /\ UNCHANGED <<disk, saved>> /\ Env /\ raced' = raced
  BY DEF LastCheck, Env, disk, saved
<1>2. cmd.pc = "verify" \/ (cmd.pc = "next" /\ StagedAhead)
  BY DEF LastCheck
<1>3. MoreFiles /\ live[Source(ThisFile)] = From
  BY DEF LastCheck, IInv, FileAt
<1>4. /\ CmdOK' /\ cmd'.op = cmd.op /\ cmd'.pc = "replace" /\ cmd'.i = cmd.i
      /\ cmd'.published = cmd.published
  BY <1>1, <1>2, Frame, Goes DEF LastCheck, Pcs, Idle, CmdOK
<1>5. ApplyAt'
  BY <1>1, <1>2, <1>4, Frame DEF IInv, ApplyAt, Staging, Without, StagedAhead
<1>6. RollbackAt'
  BY <1>1, <1>2, <1>3, <1>4, Frame DEF IInv, RollbackAt, Published, StagedAhead
<1>7. FileAt'
  BY <1>1, <1>3, <1>4, Frame DEF FileAt, From, MoreFiles, ThisFile
<1> QED
  BY <1>1, <1>4, <1>5, <1>6, <1>7, QuietStep

LEMMA ConfirmReplacedStep ==
    ASSUME IInv, ConfirmReplaced
    PROVE  IInv'
<1>1. /\ request' = request /\ live' = live /\ durable' = durable
      /\ backups' = backups /\ anchor' = anchor /\ journal' = journal
      /\ UNCHANGED <<disk, saved>> /\ Env
  BY DEF ConfirmReplaced, Env, disk, saved
<1>2. /\ CmdOK' /\ cmd.pc = "replaced"
      /\ cmd'.op = cmd.op /\ cmd'.pc = "next" /\ cmd'.published = cmd.published
  <2>1. cmd.pc = "replaced" /\ MoreFiles /\ NextFile("next")
    BY DEF ConfirmReplaced, IInv, FileAt
  <2> QED
    BY <1>1, <2>1, Frame, GoesNext DEF Pcs, Idle, CmdOK
<1>3. ApplyAt'
  BY <1>1, <1>2, Frame DEF IInv, ApplyAt, Staging, Without
<1>4. RollbackAt'
  BY <1>1, <1>2, Frame DEF IInv, RollbackAt, Published
<1>5. FileAt'
  BY <1>2 DEF FileAt
<1> QED
  BY <1>1, <1>2, <1>3, <1>4, <1>5, QuietStep

LEMMA FinalCheckStep ==
    ASSUME IInv, FinalCheck
    PROVE  IInv'
<1>1. /\ request' = request /\ live' = live /\ durable' = durable
      /\ backups' = backups /\ anchor' = anchor /\ journal' = journal
      /\ UNCHANGED <<disk, saved>> /\ Env
  BY DEF FinalCheck, Env, disk, saved
<1>2. /\ CmdOK' /\ cmd.pc = "next" /\ cmd.op \in {"apply", "rollback"}
      /\ cmd'.op = cmd.op /\ cmd'.pc = "clean" /\ cmd'.published = cmd.published
  BY <1>1, Frame, Goes DEF FinalCheck, Pcs, Idle, CmdOK, Commands
<1>3. ApplyAt'
  <2>1. \A f \in Edits : live[Source(f)] = To
    BY DEF FinalCheck, All
  <2> QED
    BY <1>1, <1>2, <2>1, Frame DEF IInv, ApplyAt, Staging, Without, To
<1>4. RollbackAt'
  <2>1. \A f \in Edits : live[Source(f)] = To
    BY DEF FinalCheck, All
  <2> QED
    BY <1>1, <1>2, <2>1, Frame DEF IInv, RollbackAt, Published, To
<1>5. FileAt'
  BY <1>2 DEF FileAt
<1> QED
  BY <1>1, <1>2, <1>3, <1>4, <1>5, QuietStep

LEMMA ConfirmDisposedStep ==
    ASSUME IInv, ConfirmDisposed
    PROVE  IInv'
<1>1. /\ request' = request /\ live' = live /\ durable' = durable
      /\ backups' = backups /\ anchor' = anchor /\ journal' = journal
      /\ UNCHANGED <<disk, saved>> /\ Env
  BY DEF ConfirmDisposed, Env, disk, saved
<1>2. /\ CmdOK' /\ cmd.pc = "disposed" /\ cmd.op = "rollback"
      /\ cmd'.op = "rollback" /\ cmd'.pc = "sync"
  BY <1>1, Frame, Goes DEF ConfirmDisposed, At, Pcs
<1>3. RollbackAt'
  <2>1. \A f \in Edits : live[Source(f)] = "before"
    BY DEF ConfirmDisposed, All
  <2>2. live[Source(New)] # "after"
    BY DEF ConfirmDisposed, Present
  <2>3. /\ journal.deletion
        /\ \A f \in Edits : live[Backward(f)] = "absent" /\ live[Forward(f)] = "absent"
    BY <1>2 DEF IInv, RollbackAt, CreationInv, Clear
  <2> QED
    BY <1>1, <1>2, <2>1, <2>2, <2>3, Frame DEF IInv, RollbackAt, Published
<1>4. ApplyAt' /\ FileAt'
  BY <1>2 DEF ApplyAt, FileAt
<1> QED
  BY <1>1, <1>2, <1>3, <1>4, QuietStep

LEMMA StopStep ==
    ASSUME IInv, Stop
    PROVE  IInv'
<1>1. request' = request /\ Edits' = Edits /\ UNCHANGED <<disk, saved>> /\ clean' = clean
  BY DEF Stop, Edits
<1>2. CmdOK' /\ cmd'.op = "none" /\ cmd'.pc = "idle"
  BY <1>1, Frame DEF Stop, CmdOK, Idle, Commands, Pcs
<1>3. TypeInv'
  BY <1>1, <1>2 DEF IInv, TypeInv, ViewOK, disk, saved, Stop
<1>4. BatchInv' /\ CreationInv'
  BY <1>1, DiskStays DEF IInv
<1>5. ApplyAt' /\ RollbackAt' /\ FileAt'
  BY <1>2 DEF ApplyAt, RollbackAt, FileAt
<1> QED
  BY <1>3, <1>4, <1>5 DEF IInv

LEMMA BeginRollbackStep ==
    ASSUME IInv, BeginRollback
    PROVE  IInv'
<1>1. /\ request' = request /\ live' = live /\ durable' = durable
      /\ backups' = backups /\ anchor' = anchor /\ journal' = journal
      /\ UNCHANGED <<disk, saved>> /\ Env
  BY DEF BeginRollback, Env, disk, saved
<1>2. PICK p \in Pcs :
         /\ cmd' = [op |-> "rollback", pc |-> p, i |-> 1, done |-> {}, published |-> FALSE]
         /\ \/ p = "sync" /\ journal.state = "rolled_back"
            \/ p = "forward" /\ journal.state = "rollback_prepared"
            \/ p = "prepare" /\ journal.state \in {"prepared", "applied"}
  <2>1. journal.state \in JournalStates \ {"none"}
    BY DEF BeginRollback, CanRollBack, IInv, TypeInv, Journals
  <2>2. CASE journal.state = "rolled_back"
    BY <2>2 DEF BeginRollback, Idle, Pcs
  <2>3. CASE journal.state = "rollback_prepared"
    BY <2>3 DEF BeginRollback, Idle, Pcs
  <2>4. CASE journal.state \in {"prepared", "applied"}
    BY <2>4 DEF BeginRollback, Idle, Pcs
  <2> QED
    BY <2>1, <2>2, <2>3, <2>4 DEF JournalStates
<1>3. CmdOK' /\ cmd'.op = "rollback" /\ cmd'.pc = p
  <2>1. 1 \in 1..Len(request.edits) + 1
    BY <1>1, Frame
  <2> QED
    BY <1>1, <1>2, <2>1, Frame, Begins
<1>4. RollbackAt'
  <2>1. request.create =>
          /\ journal.state # "prepared"
          /\ ~journal.deletion => Published
          /\ journal.deletion => ~Published
    BY DEF BeginRollback, CanRollBack, CanRollBackCreation, Present, Published
  <2>2. journal.state = "rolled_back" =>
          /\ \A f \in Edits : live[Source(f)] # "after"
          /\ \A f \in Edits : live[Forward(f)] = "absent" /\ live[Backward(f)] = "absent"
          /\ live[Source(New)] # "after"
    BY DEF IInv, BatchInv, Without, Clear
  <2>3. request.create /\ journal.state = "rolled_back" => journal.deletion
    BY DEF IInv, CreationInv
  <2>4. journal.deletion => journal.state \in {"rollback_prepared", "rolled_back"}
    BY DEF IInv, CreationInv
  <2> QED
    BY <1>1, <1>2, <1>3, <2>1, <2>2, <2>3, <2>4, Frame DEF RollbackAt, Published
<1>5. ApplyAt' /\ FileAt'
  BY <1>2, <1>3 DEF ApplyAt, FileAt
<1> QED
  BY <1>1, <1>3, <1>4, <1>5, QuietStep

LEMMA StageOpenStep ==
    ASSUME IInv, StageOpen
    PROVE  IInv'
<1> USE DEF IInv
<1>1. /\ request' = request /\ Edits' = Edits /\ clean' = clean /\ raced' = raced
      /\ backups' = backups /\ anchor' = anchor /\ journal' = journal
      /\ ThisFile \in Edits /\ ThisFile' = request.edits[cmd'.i]
  BY EditsAreFiles DEF StageOpen, Env, saved, Edits, TypeInv, ThisFile
<1>2. /\ CmdOK' /\ cmd.op = "apply" /\ cmd.pc = "stage" /\ cmd'.op = "apply" /\ cmd'.pc = "stage_write"
      /\ cmd'.i = cmd.i /\ cmd'.published = cmd.published
  BY <1>1, Goes DEF StageOpen, At, TypeInv, Pcs
<1>3. PICK f \in Edits : f = ThisFile
  BY <1>1
<1>4. /\ Edits \subseteq Files /\ New \in Files /\ New \notin Edits
  BY EditsAreFiles DEF TypeInv
<1>5. /\ ViewOK(live)' /\ ViewOK(durable)' /\ durable' = durable
      /\ \A g \in Files :
           /\ live'[Source(g)] = live[Source(g)]
           /\ live'[Forward(g)] = (IF f = g THEN "torn" ELSE live[Forward(g)])
           /\ live'[Backward(g)] = live[Backward(g)]
  BY <1>3, <1>4, PutTemp, Names DEF StageOpen, TypeInv, TempContent
<1>6. TypeInv'
  BY <1>1, <1>2, <1>5 DEF TypeInv
<1>7. BatchInv' /\ CreationInv'
  BY <1>1, <1>2, <1>4, <1>5 DEF BatchInv, CreationInv, Without, Clear, ApplyAt, Staging
<1>8. ApplyAt'
  BY <1>1, <1>2, <1>4, <1>5 DEF ApplyAt, Staging, Without, Clear
<1>9. RollbackAt' /\ FileAt'
  BY <1>1, <1>2 DEF RollbackAt, FileAt, MoreFiles, StageOpen
<1> QED
  BY <1>6, <1>7, <1>8, <1>9


-----------------------------------------------------------------------------
(* Steps that write the run directory.                                     *)

\* A save of the journal changes the field it names.
LEMMA Saves ==
    ASSUME journal \in Journals
    PROVE  /\ \A s \in JournalStates : \A record : record = [journal EXCEPT !.state = s] =>
                record \in Journals /\ record.state = s /\ record.identity = journal.identity
                /\ record.attempted = journal.attempted /\ record.deletion = journal.deletion
           /\ \A record : record = [journal EXCEPT !.identity = TRUE] =>
                record \in Journals /\ record.state = journal.state /\ record.identity
                /\ record.attempted = journal.attempted /\ record.deletion = journal.deletion
           /\ \A record : record = [journal EXCEPT !.attempted = TRUE] =>
                record \in Journals /\ record.state = journal.state
                /\ record.identity = journal.identity
                /\ record.attempted /\ record.deletion = journal.deletion
           /\ \A record : record = [journal EXCEPT !.deletion = TRUE] =>
                record \in Journals /\ record.state = journal.state
                /\ record.identity = journal.identity
                /\ record.attempted = journal.attempted /\ record.deletion
<1>1. ASSUME NEW s \in JournalStates, NEW record, record = [journal EXCEPT !.state = s]
      PROVE  record \in Journals /\ record.state = s /\ record.identity = journal.identity
             /\ record.attempted = journal.attempted /\ record.deletion = journal.deletion
  BY <1>1 DEF Journals
<1>2. ASSUME NEW record, record = [journal EXCEPT !.identity = TRUE]
      PROVE  record \in Journals /\ record.state = journal.state /\ record.identity
             /\ record.attempted = journal.attempted /\ record.deletion = journal.deletion
  BY <1>2 DEF Journals
<1>3. ASSUME NEW record, record = [journal EXCEPT !.attempted = TRUE]
      PROVE  record \in Journals /\ record.state = journal.state
             /\ record.identity = journal.identity
             /\ record.attempted /\ record.deletion = journal.deletion
  BY <1>3 DEF Journals
<1>4. ASSUME NEW record, record = [journal EXCEPT !.deletion = TRUE]
      PROVE  record \in Journals /\ record.state = journal.state
             /\ record.identity = journal.identity
             /\ record.attempted = journal.attempted /\ record.deletion
  BY <1>4 DEF Journals
<1> QED
  BY <1>1, <1>2, <1>3, <1>4

LEMMA WriteBackupStep ==
    ASSUME IInv, WriteBackup
    PROVE  IInv'
<1>1. /\ request' = request /\ live' = live /\ durable' = durable /\ clean' = clean
      /\ raced' = raced /\ anchor' = anchor /\ journal' = journal
      /\ backups' = backups \cup {ThisFile} /\ ThisFile \in Edits
  BY Frame DEF WriteBackup, Env, disk
<1>2. /\ CmdOK' /\ cmd.op = "apply" /\ cmd.pc = "backup" /\ MoreFiles
      /\ cmd'.op = "apply" /\ cmd'.pc = "backup" /\ cmd'.published = cmd.published
      /\ cmd'.i = cmd.i + 1
  BY <1>1, Frame, GoesNext DEF WriteBackup, At, Pcs
<1>3. TypeInv'
  BY <1>1, <1>2, Frame DEF IInv, TypeInv, ViewOK
<1>4. BatchInv' /\ CreationInv'
  BY <1>1, Frame DEF IInv, BatchInv, CreationInv, Without, Clear
<1>5. ApplyAt'
  <2>1. \A j \in 1..cmd'.i - 1 : request.edits[j] \in backups'
    <3>1. \A j \in 1..cmd.i : j = cmd.i \/ j \in 1..cmd.i - 1
      BY <1>1, Frame
    <3> QED
      BY <1>1, <1>2, <3>1, Frame DEF IInv, ApplyAt, ThisFile
  <2> QED
    BY <1>1, <1>2, <2>1, Frame DEF IInv, ApplyAt, Staging, Without
<1>6. RollbackAt' /\ FileAt'
  BY <1>2 DEF RollbackAt, FileAt
<1> QED
  BY <1>3, <1>4, <1>5, <1>6 DEF IInv

LEMMA SavePreparedStep ==
    ASSUME IInv, SavePrepared
    PROVE  IInv'
<1>1. /\ request' = request /\ live' = live /\ durable' = durable /\ clean' = clean
      /\ raced' = raced /\ anchor' = anchor /\ backups' = backups
  BY DEF SavePrepared, Env, disk, Save
<1>2. /\ journal' \in Journals /\ journal'.state = "prepared"
      /\ journal'.identity = journal.identity /\ journal'.attempted = journal.attempted
      /\ journal'.deletion = journal.deletion
  BY Saves DEF SavePrepared, Save, IInv, TypeInv, JournalStates
<1>3. /\ CmdOK' /\ cmd.op = "apply" /\ cmd.pc = "backup" /\ ~MoreFiles
      /\ cmd'.op = "apply" /\ cmd'.pc = "classify" /\ cmd'.published = cmd.published
  BY <1>1, Frame, Goes DEF SavePrepared, At, Pcs
<1>4. TypeInv'
  BY <1>1, <1>2, <1>3, Frame DEF IInv, TypeInv, ViewOK
<1>5. BatchInv' /\ CreationInv'
  <2>1. Edits \subseteq backups
    <3>1. cmd.i - 1 = Len(request.edits)
      BY <1>1, <1>3, Frame DEF MoreFiles
    <3>2. \A j \in 1..Len(request.edits) : request.edits[j] \in backups
      BY <1>3, <3>1 DEF IInv, ApplyAt
    <3>3. DOMAIN request.edits = 1..Len(request.edits)
      BY EditsAreFiles, Frame
    <3> QED
      BY <3>2, <3>3 DEF Edits
  <2>2. journal.state = "none"
    BY <1>3 DEF IInv, ApplyAt
  <2> QED
    BY <1>1, <1>2, <2>1, <2>2, Frame DEF IInv, BatchInv, CreationInv, Without, Clear
<1>6. ApplyAt'
  BY <1>1, <1>2, <1>3, Frame DEF IInv, ApplyAt, Staging, Without
<1>7. RollbackAt' /\ FileAt'
  BY <1>3 DEF RollbackAt, FileAt
<1> QED
  BY <1>4, <1>5, <1>6, <1>7 DEF IInv

LEMMA WriteAnchorStep ==
    ASSUME IInv, WriteAnchor
    PROVE  IInv'
<1>1. /\ request' = request /\ live' = live /\ durable' = durable /\ clean' = clean
      /\ raced' = raced /\ anchor' = TRUE /\ backups' = backups /\ journal' = journal
  BY DEF WriteAnchor, Env, disk
<1>2. /\ CmdOK' /\ cmd.op = "apply" /\ cmd.pc = "anchor"
      /\ cmd'.op = "apply" /\ cmd'.pc = "identity" /\ cmd'.published = cmd.published
  BY <1>1, Frame, Goes DEF WriteAnchor, At, Pcs
<1>3. TypeInv'
  BY <1>1, <1>2, Frame DEF IInv, TypeInv, ViewOK
<1>4. BatchInv' /\ CreationInv'
  BY <1>1, Frame DEF IInv, BatchInv, CreationInv, Without, Clear
<1>5. ApplyAt'
  BY <1>1, <1>2, Frame DEF IInv, ApplyAt, Staging, Without
<1>6. RollbackAt' /\ FileAt'
  BY <1>2 DEF RollbackAt, FileAt
<1> QED
  BY <1>3, <1>4, <1>5, <1>6 DEF IInv

LEMMA SaveIdentityStep ==
    ASSUME IInv, SaveIdentity
    PROVE  IInv'
<1>1. /\ request' = request /\ live' = live /\ durable' = durable /\ clean' = clean
      /\ raced' = raced /\ anchor' = anchor /\ backups' = backups
  BY DEF SaveIdentity, Env, disk, Save
<1>2. /\ journal' \in Journals /\ journal'.state = journal.state
      /\ journal'.identity /\ journal'.attempted = journal.attempted
      /\ journal'.deletion = journal.deletion
  BY Saves DEF SaveIdentity, Save, IInv, TypeInv
<1>3. /\ CmdOK' /\ cmd.op = "apply" /\ cmd.pc = "identity"
      /\ cmd'.op = "apply" /\ cmd'.pc = "link_temporary" /\ cmd'.published = cmd.published
  BY <1>1, Frame, Goes DEF SaveIdentity, At, Pcs
<1>4. TypeInv'
  BY <1>1, <1>2, <1>3, Frame DEF IInv, TypeInv, ViewOK
<1>5. BatchInv' /\ CreationInv'
  <2>1. anchor /\ request.create /\ journal.state # "none"
    BY <1>3 DEF IInv, ApplyAt
  <2> QED
    BY <1>1, <1>2, <2>1, Frame DEF IInv, BatchInv, CreationInv, Without, Clear
<1>6. ApplyAt'
  BY <1>1, <1>2, <1>3, Frame DEF IInv, ApplyAt, Staging, Without
<1>7. RollbackAt' /\ FileAt'
  BY <1>3 DEF RollbackAt, FileAt
<1> QED
  BY <1>4, <1>5, <1>6, <1>7 DEF IInv

LEMMA MarkPublicationStep ==
    ASSUME IInv, MarkPublication
    PROVE  IInv'
<1>1. /\ request' = request /\ live' = live /\ durable' = durable /\ clean' = clean
      /\ raced' = raced /\ anchor' = anchor /\ backups' = backups
  BY DEF MarkPublication, Env, disk, Save
<1>2. /\ journal' \in Journals /\ journal'.state = journal.state
      /\ journal'.identity = journal.identity /\ journal'.attempted
      /\ journal'.deletion = journal.deletion
  BY Saves DEF MarkPublication, Save, IInv, TypeInv
<1>3. /\ CmdOK' /\ cmd.op = "apply" /\ cmd.pc = "mark"
      /\ cmd'.op = "apply" /\ cmd'.pc = "link" /\ cmd'.published = cmd.published
  BY <1>1, Frame, Goes DEF MarkPublication, At, Pcs
<1>4. TypeInv'
  BY <1>1, <1>2, <1>3, Frame DEF IInv, TypeInv, ViewOK
<1>5. BatchInv' /\ CreationInv'
  <2>1. journal.identity /\ journal.state # "none"
    BY <1>3 DEF IInv, ApplyAt, Staging
  <2> QED
    BY <1>1, <1>2, <2>1, Frame DEF IInv, BatchInv, CreationInv, Without, Clear
<1>6. ApplyAt'
  BY <1>1, <1>2, <1>3, Frame DEF IInv, ApplyAt, Staging, Without
<1>7. RollbackAt' /\ FileAt'
  BY <1>3 DEF RollbackAt, FileAt
<1> QED
  BY <1>4, <1>5, <1>6, <1>7 DEF IInv

LEMMA SaveRollbackPreparedStep ==
    ASSUME IInv, SaveRollbackPrepared
    PROVE  IInv'
<1>1. /\ request' = request /\ live' = live /\ durable' = durable /\ clean' = clean
      /\ raced' = raced /\ anchor' = anchor /\ backups' = backups
  BY DEF SaveRollbackPrepared, Env, disk, Save
<1>2. /\ journal' \in Journals /\ journal'.state = "rollback_prepared"
      /\ journal'.identity = journal.identity /\ journal'.attempted = journal.attempted
      /\ journal'.deletion = journal.deletion
  BY Saves DEF SaveRollbackPrepared, Save, IInv, TypeInv, JournalStates
<1>3. /\ CmdOK' /\ cmd.op = "rollback" /\ cmd.pc = "prepare"
      /\ cmd'.op = "rollback" /\ cmd'.pc = "forward" /\ cmd'.published = cmd.published
  BY <1>1, Frame, Goes DEF SaveRollbackPrepared, At, Pcs
<1>4. TypeInv'
  BY <1>1, <1>2, <1>3, Frame DEF IInv, TypeInv, ViewOK
<1>5. BatchInv' /\ CreationInv'
  <2>1. /\ journal.state \in {"prepared", "applied"}
        /\ request.create => journal.state = "applied"
    BY <1>3 DEF IInv, RollbackAt
  <2> QED
    BY <1>1, <1>2, <2>1, Frame DEF IInv, BatchInv, CreationInv, Without, Clear
<1>6. RollbackAt'
  BY <1>1, <1>2, <1>3, Frame DEF IInv, RollbackAt, Published
<1>7. ApplyAt' /\ FileAt'
  BY <1>3 DEF ApplyAt, FileAt
<1> QED
  BY <1>4, <1>5, <1>6, <1>7 DEF IInv

LEMMA MarkDeletionStep ==
    ASSUME IInv, MarkDeletion
    PROVE  IInv'
<1>1. /\ request' = request /\ live' = live /\ durable' = durable /\ clean' = clean
      /\ raced' = raced /\ anchor' = anchor /\ backups' = backups
  BY DEF MarkDeletion, Env, disk, Save
<1>2. /\ journal' \in Journals /\ journal'.state = journal.state
      /\ journal'.identity = journal.identity /\ journal'.attempted = journal.attempted
      /\ journal'.deletion
  BY Saves DEF MarkDeletion, Save, IInv, TypeInv
<1>3. /\ CmdOK' /\ cmd.op = "rollback" /\ cmd.pc = "mark_deletion"
      /\ cmd'.op = "rollback" /\ cmd'.pc = "dispose" /\ cmd'.published = cmd.published
  BY <1>1, Frame, Goes DEF MarkDeletion, At, Pcs
<1>4. TypeInv'
  BY <1>1, <1>2, <1>3, Frame DEF IInv, TypeInv, ViewOK
<1>5. /\ request.create /\ journal.state = "rollback_prepared" /\ ~journal.deletion /\ Published
      /\ \A f \in Edits : Without(Source(f), "after") /\ Clear(Backward(f))
  BY <1>3 DEF IInv, RollbackAt
<1>6. BatchInv' /\ CreationInv'
  BY <1>1, <1>2, <1>5, Frame DEF IInv, BatchInv, CreationInv, Without, Clear
<1>7. RollbackAt'
  BY <1>1, <1>2, <1>3, <1>5, Frame DEF IInv, RollbackAt, Published
<1>8. ApplyAt' /\ FileAt'
  BY <1>3 DEF ApplyAt, FileAt
<1> QED
  BY <1>4, <1>6, <1>7, <1>8 DEF IInv

LEMMA AcknowledgeStep ==
    ASSUME IInv, Acknowledge
    PROVE  IInv'
<1>1. /\ request' = request /\ live' = live /\ durable' = durable /\ clean' = clean
      /\ raced' = raced /\ anchor' = anchor /\ backups' = backups
  BY DEF Acknowledge, Env, disk, Save
<1>2. CmdOK' /\ cmd'.op = "none" /\ cmd'.pc = "idle"
  BY <1>1, Frame DEF Acknowledge, CmdOK, Idle, Commands, Pcs
<1>3. ApplyAt' /\ RollbackAt' /\ FileAt'
  BY <1>2 DEF ApplyAt, RollbackAt, FileAt
<1>4. cmd.pc = "acknowledge" /\ cmd.op \in {"apply", "rollback"}
  BY <1>1, Frame DEF Acknowledge, CmdOK, Idle, Commands
<1>5. CASE cmd.op = "apply"
  <2>1. /\ journal' \in Journals /\ journal'.state = "applied"
        /\ journal'.identity = journal.identity /\ journal'.attempted = journal.attempted
        /\ journal'.deletion = journal.deletion
    BY <1>5, Saves DEF Acknowledge, Save, IInv, TypeInv, JournalStates
  <2>2. TypeInv'
    BY <1>1, <1>2, <2>1, Frame DEF IInv, TypeInv, ViewOK
  <2>3. BatchInv' /\ CreationInv'
    BY <1>1, <1>4, <1>5, <2>1, Frame DEF IInv, BatchInv, CreationInv, Without, Clear, ApplyAt, Staging
  <2> QED
    BY <1>3, <2>2, <2>3 DEF IInv
<1>6. CASE cmd.op = "rollback"
  <2>1. /\ journal' \in Journals /\ journal'.state = "rolled_back"
        /\ journal'.identity = journal.identity /\ journal'.attempted = journal.attempted
        /\ journal'.deletion = journal.deletion
    BY <1>6, Saves DEF Acknowledge, Save, IInv, TypeInv, JournalStates
  <2>2. TypeInv'
    BY <1>1, <1>2, <2>1, Frame DEF IInv, TypeInv, ViewOK
  <2>3. BatchInv' /\ CreationInv'
    BY <1>1, <1>4, <1>6, <2>1, Frame DEF IInv, BatchInv, CreationInv, Without, Clear, RollbackAt
  <2> QED
    BY <1>3, <2>2, <2>3 DEF IInv
<1> QED
  BY <1>4, <1>5, <1>6


-----------------------------------------------------------------------------
(* Steps of an apply that write the repository.                            *)

LEMMA LinkTemporaryStep ==
    ASSUME IInv, LinkTemporary
    PROVE  IInv'
<1>1. /\ request' = request /\ clean' = clean /\ raced' = raced
      /\ backups' = backups /\ anchor' = anchor /\ journal' = journal
  BY DEF LinkTemporary, Env, saved
<1>2. /\ CmdOK' /\ cmd.op = "apply" /\ cmd.pc = "link_temporary"
      /\ cmd'.op = "apply" /\ cmd'.pc = "stage" /\ cmd'.published = cmd.published
  BY <1>1, Frame, GoesFirst DEF LinkTemporary, At, Pcs
<1>3. /\ ViewOK(live)' /\ ViewOK(durable)' /\ durable' = durable
      /\ \A g \in Files : /\ live'[Source(g)] = live[Source(g)]
                          /\ live'[Forward(g)] = (IF g = New THEN "full" ELSE live[Forward(g)])
                          /\ live'[Backward(g)] = live[Backward(g)]
  BY <1>1, Frame, PutTemp, Names DEF LinkTemporary, IInv, TypeInv, TempContent
<1>4. TypeInv'
  BY <1>1, <1>2, <1>3, Frame DEF IInv, TypeInv
<1>5. BatchInv' /\ CreationInv'
  <2>1. journal.identity /\ journal.state = "prepared" /\ request.create
    BY <1>2 DEF IInv, ApplyAt, Staging
  <2>2. BatchInv'
    BY <1>1, <1>3, <2>1, Frame DEF IInv, BatchInv, Without, Clear
  <2>3. CreationInv'
    BY <1>1, <1>3, <2>1, Frame DEF IInv, CreationInv, Without, Clear
  <2> QED
    BY <2>2, <2>3
<1>6. ApplyAt'
  BY <1>1, <1>2, <1>3, Frame DEF IInv, ApplyAt, Staging, Without
<1>7. RollbackAt' /\ FileAt'
  BY <1>2 DEF RollbackAt, FileAt
<1> QED
  BY <1>4, <1>5, <1>6, <1>7 DEF IInv

LEMMA StageWriteStep ==
    ASSUME IInv, StageWrite
    PROVE  IInv'
<1>1. /\ request' = request /\ clean' = clean /\ raced' = raced
      /\ backups' = backups /\ anchor' = anchor /\ journal' = journal
  BY DEF StageWrite, Env, saved
<1>2. PICK f \in Edits : f = ThisFile
  BY <1>1, Frame DEF StageWrite, At, IInv, FileAt
<1>3. /\ CmdOK' /\ cmd.op = "apply" /\ cmd.pc = "stage_write"
      /\ cmd'.op = "apply" /\ cmd'.pc = "stage" /\ cmd'.published = cmd.published
  BY <1>1, Frame, GoesNext DEF StageWrite, At, Pcs, IInv, FileAt
<1>4. /\ ViewOK(live)' /\ ViewOK(durable)' /\ durable' = durable
      /\ \A g \in Files : /\ live'[Source(g)] = live[Source(g)]
                          /\ live'[Forward(g)] = (IF f = g THEN "full" ELSE live[Forward(g)])
                          /\ live'[Backward(g)] = live[Backward(g)]
  BY <1>1, <1>2, Frame, PutTemp, Names DEF StageWrite, IInv, TypeInv, TempContent
<1>5. TypeInv'
  BY <1>1, <1>3, <1>4, Frame DEF IInv, TypeInv
<1>6. BatchInv' /\ CreationInv'
  <2>1. journal.identity /\ journal.state = "prepared" /\ request.create
    BY <1>3 DEF IInv, ApplyAt, Staging
  <2>2. BatchInv'
    BY <1>1, <1>4, <2>1, Frame DEF IInv, BatchInv, Without, Clear
  <2>3. CreationInv'
    BY <1>1, <1>4, <2>1, Frame DEF IInv, CreationInv, Without, Clear
  <2> QED
    BY <2>2, <2>3
<1>7. ApplyAt'
  BY <1>1, <1>3, <1>4, Frame DEF IInv, ApplyAt, Staging, Without
<1>8. RollbackAt' /\ FileAt'
  BY <1>3 DEF RollbackAt, FileAt
<1> QED
  BY <1>5, <1>6, <1>7, <1>8 DEF IInv

LEMMA PublishNewStep ==
    ASSUME IInv, PublishNew
    PROVE  IInv'
<1>1. /\ request' = request /\ clean' = clean /\ raced' = raced
      /\ backups' = backups /\ anchor' = anchor /\ journal' = journal
  BY DEF PublishNew, Env, saved
<1>2. /\ CmdOK' /\ cmd.op = "apply" /\ cmd.pc = "link"
      /\ cmd'.op = "apply" /\ cmd'.pc = "published" /\ cmd'.published = cmd.published
  BY <1>1, Frame, Goes DEF PublishNew, At, Pcs
<1>3. /\ ViewOK(live)' /\ ViewOK(durable)' /\ durable' = durable
      /\ \A g \in Files : /\ live'[Source(g)] = (IF g = New THEN "after" ELSE live[Source(g)])
                          /\ live'[Forward(g)] = live[Forward(g)]
                          /\ live'[Backward(g)] = live[Backward(g)]
  BY <1>1, Frame, PutSource, Names DEF PublishNew, IInv, TypeInv, SourceContent
<1>4. TypeInv'
  BY <1>1, <1>2, <1>3, Frame DEF IInv, TypeInv
<1>5. BatchInv' /\ CreationInv'
  <2>1. /\ journal.identity /\ journal.attempted /\ request.create
        /\ journal.state = "prepared"
    BY <1>2 DEF IInv, ApplyAt, Staging
  <2>2. BatchInv'
    BY <1>1, <1>3, <2>1, Frame DEF IInv, BatchInv, Without, Clear
  <2>3. CreationInv'
    BY <1>1, <1>3, <2>1, Frame DEF IInv, CreationInv, Without, Clear
  <2> QED
    BY <2>2, <2>3
<1>6. ApplyAt'
  BY <1>1, <1>2, <1>3, Frame DEF IInv, ApplyAt, Staging, Without
<1>7. RollbackAt' /\ FileAt'
  BY <1>2 DEF RollbackAt, FileAt
<1> QED
  BY <1>4, <1>5, <1>6, <1>7 DEF IInv

\* Only the directory of the new file is synced here.
LEMMA SyncTargetStep ==
    ASSUME IInv, SyncTarget
    PROVE  IInv'
<1>1. /\ request' = request /\ clean' = clean /\ raced' = raced /\ live' = live
      /\ backups' = backups /\ anchor' = anchor /\ journal' = journal
  BY DEF SyncTarget, Env, saved, Sync
<1>2. /\ CmdOK' /\ cmd.op = "apply" /\ cmd.pc = "sync_target"
      /\ cmd'.op = "apply" /\ cmd'.pc = "next" /\ cmd'.published = cmd.published
  BY <1>1, Frame, GoesFirst DEF SyncTarget, At, Pcs
<1>3. /\ \A g \in Files :
           /\ durable'[Source(g)] = (IF g = New THEN live[Source(g)] ELSE durable[Source(g)])
           /\ durable'[Forward(g)] = (IF g = New THEN live[Forward(g)] ELSE durable[Forward(g)])
           /\ durable'[Backward(g)] = durable[Backward(g)]
      /\ durable' \in [Name -> SourceContent \cup TempContent]
  BY <1>1, Frame, Names DEF SyncTarget, Sync, IInv, TypeInv, ViewOK
<1>4. TypeInv'
  <2>1. ViewOK(durable)'
    BY <1>1, <1>3, NewAssumption DEF IInv, TypeInv, ViewOK, Files
  <2>2. ViewOK(live)'
    BY <1>1 DEF IInv, TypeInv, ViewOK
  <2> QED
    BY <1>1, <1>2, <2>1, <2>2, Frame DEF IInv, TypeInv
<1>5. /\ journal.identity /\ journal.attempted /\ request.create
      /\ journal.state = "prepared" /\ live[Source(New)] # "absent"
  BY <1>2 DEF IInv, ApplyAt, Staging
<1>6. BatchInv' /\ CreationInv'
  <2>2. BatchInv'
    BY <1>1, <1>3, <1>5, Frame DEF IInv, BatchInv, Without, Clear
  <2>3. CreationInv'
    BY <1>1, <1>3, <1>5, Frame DEF IInv, CreationInv, Without, Clear
  <2> QED
    BY <2>2, <2>3
<1>7. ApplyAt'
  BY <1>1, <1>2, <1>3, <1>5, Frame DEF IInv, ApplyAt, Staging, Without
<1>8. RollbackAt' /\ FileAt'
  BY <1>2 DEF RollbackAt, FileAt
<1> QED
  BY <1>4, <1>6, <1>7, <1>8 DEF IInv

-----------------------------------------------------------------------------
(* Replacing the existing files.                                           *)

\* The temporary of a command is one of the two of its file.
LEMMA Temps ==
    ASSUME cmd.op \in {"apply", "rollback"}, NEW f
    PROVE  Temp(f) = IF cmd.op = "apply" THEN Forward(f) ELSE Backward(f)
BY DEF Temp

\* What the write of the temporary of one file, and its renaming over the source,
\* change.
LEMMA TempWritten ==
    ASSUME IInv, request' = request, cmd.op \in {"apply", "rollback"},
           NEW f \in Edits, NEW x \in TempContent, Put(Temp(f), x)
    PROVE  /\ ViewOK(live)' /\ ViewOK(durable)' /\ durable' = durable
           /\ \A g \in Files :
                /\ live'[Source(g)] = live[Source(g)]
                /\ live'[Forward(g)] =
                     (IF cmd.op = "apply" /\ f = g THEN x ELSE live[Forward(g)])
                /\ live'[Backward(g)] =
                     (IF cmd.op = "rollback" /\ f = g THEN x ELSE live[Backward(g)])
<1>1. CASE cmd.op = "apply"
  BY <1>1, Frame, PutTemp, Names DEF IInv, TypeInv, Temp
<1>2. CASE cmd.op = "rollback"
  BY <1>2, Frame, PutTemp, Names DEF IInv, TypeInv, Temp
<1> QED
  BY <1>1, <1>2

LEMMA SourceReplaced ==
    ASSUME IInv, Replace
    PROVE  /\ ThisFile \in Edits /\ cmd.op \in {"apply", "rollback"}
           /\ ViewOK(live)' /\ ViewOK(durable)'
           /\ \A g \in Files :
                /\ live'[Source(g)] = (IF ThisFile = g THEN To ELSE live[Source(g)])
                /\ live'[Forward(g)] =
                     (IF cmd.op = "apply" /\ ThisFile = g THEN "absent" ELSE live[Forward(g)])
                /\ live'[Backward(g)] =
                     (IF cmd.op = "rollback" /\ ThisFile = g THEN "absent" ELSE live[Backward(g)])
<1>1. request' = request /\ durable' = durable /\ cmd.pc = "replace" /\ MoreFiles
  BY DEF Replace, IInv, FileAt
<1>2. PICK f \in Edits : f = ThisFile
  BY <1>1, Frame
<1>3. cmd.op \in {"apply", "rollback"}
  BY <1>1, Frame DEF CmdOK, Idle, Commands
<1>4. live' = [live EXCEPT ![Source(f)] = To, ![Temp(f)] = "absent"]
  BY <1>2 DEF Replace
<1>5. f \in File /\ To \in {"before", "after"}
  BY <1>1, Frame DEF To
<1>6. CASE cmd.op = "apply"
  <2>1. live' = [live EXCEPT ![Source(f)] = To, ![Forward(f)] = "absent"]
    BY <1>4, <1>6 DEF Temp
  <2>2. /\ ViewOK(live)' /\ ViewOK(durable)'
        /\ \A g \in Files :
             /\ live'[Source(g)] = (IF g = f THEN To ELSE live[Source(g)])
             /\ live'[Forward(g)] =
                  (IF Forward(f) = Forward(g) THEN "absent" ELSE live[Forward(g)])
             /\ live'[Backward(g)] =
                  (IF Forward(f) = Backward(g) THEN "absent" ELSE live[Backward(g)])
    BY <1>1, <1>5, <2>1, Replaces DEF IInv, TypeInv
  <2> QED
    BY <1>1, <1>2, <1>6, <2>2, Frame, Names
<1>7. CASE cmd.op = "rollback"
  <2>1. live' = [live EXCEPT ![Source(f)] = To, ![Backward(f)] = "absent"]
    BY <1>4, <1>7 DEF Temp
  <2>2. /\ ViewOK(live)' /\ ViewOK(durable)'
        /\ \A g \in Files :
             /\ live'[Source(g)] = (IF g = f THEN To ELSE live[Source(g)])
             /\ live'[Forward(g)] =
                  (IF Backward(f) = Forward(g) THEN "absent" ELSE live[Forward(g)])
             /\ live'[Backward(g)] =
                  (IF Backward(f) = Backward(g) THEN "absent" ELSE live[Backward(g)])
    BY <1>1, <1>5, <2>1, Replaces DEF IInv, TypeInv
  <2> QED
    BY <1>1, <1>2, <1>7, <2>2, Frame, Names
<1> QED
  BY <1>2, <1>3, <1>6, <1>7

\* Writing a temporary keeps the invariant.
LEMMA WriteTempStep ==
    ASSUME IInv, NEW f \in Edits, NEW x \in TempContent, NEW p \in {"write", "verify"},
           MoreFiles, cmd.pc \in {"next", "write"}, cmd.pc = "next" => ~StagedAhead,
           Put(Temp(f), x), Goto(p), UNCHANGED saved, Env
    PROVE  IInv'
<1>1. /\ request' = request /\ clean' = clean /\ raced' = raced
      /\ backups' = backups /\ anchor' = anchor /\ journal' = journal
  BY DEF Env, saved
<1>2. cmd.op \in {"apply", "rollback"}
  BY <1>1, Frame DEF CmdOK, Idle, Commands
<1>3. /\ CmdOK' /\ cmd'.op = cmd.op /\ cmd'.pc = p /\ cmd'.published = cmd.published
      /\ cmd'.i = cmd.i
  BY <1>1, <1>2, Frame, Goes DEF Pcs
<1>4. /\ ViewOK(live)' /\ ViewOK(durable)' /\ durable' = durable
      /\ \A g \in Files :
           /\ live'[Source(g)] = live[Source(g)]
           /\ live'[Forward(g)] =
                (IF cmd.op = "apply" /\ f = g THEN x ELSE live[Forward(g)])
           /\ live'[Backward(g)] =
                (IF cmd.op = "rollback" /\ f = g THEN x ELSE live[Backward(g)])
  BY <1>1, <1>2, TempWritten
<1>5. TypeInv'
  BY <1>1, <1>3, <1>4, Frame DEF IInv, TypeInv
<1>6. CASE cmd.op = "apply"
  <2>1. journal.state = "prepared" /\ ~request.create
    BY <1>6 DEF IInv, ApplyAt, StagedAhead
  <2>2. BatchInv'
    BY <1>1, <1>4, <1>6, <2>1, Frame DEF IInv, BatchInv, Without, Clear
  <2>3. CreationInv'
    BY <1>1, <1>4, <1>6, <2>1, Frame DEF IInv, CreationInv, Without, Clear
  <2>4. ApplyAt'
    BY <1>1, <1>3, <1>4, <1>6, <2>1, Frame DEF IInv, ApplyAt, Staging, Without
  <2>5. RollbackAt' /\ FileAt'
    BY <1>3, <1>6, <1>1, Frame DEF RollbackAt, FileAt, MoreFiles
  <2> QED
    BY <1>5, <2>2, <2>3, <2>4, <2>5 DEF IInv
<1>7. CASE cmd.op = "rollback"
  <2>1. /\ journal.state = "rollback_prepared" /\ ~journal.deletion
    BY <1>7 DEF IInv, RollbackAt
  <2>2. BatchInv'
    BY <1>1, <1>4, <1>7, <2>1, Frame DEF IInv, BatchInv, Without, Clear
  <2>3. CreationInv'
    BY <1>1, <1>4, <1>7, <2>1, Frame DEF IInv, CreationInv, Without, Clear
  <2>4. RollbackAt'
    BY <1>1, <1>3, <1>4, <1>7, <2>1, Frame DEF IInv, RollbackAt, Published
  <2>5. ApplyAt' /\ FileAt'
    BY <1>3, <1>7, <1>1, Frame DEF ApplyAt, FileAt, MoreFiles
  <2> QED
    BY <1>5, <2>2, <2>3, <2>4, <2>5 DEF IInv
<1> QED
  BY <1>2, <1>6, <1>7

LEMMA OpenTempStep ==
    ASSUME IInv, OpenTemp
    PROVE  IInv'
<1>1. PICK f \in Edits : f = ThisFile
  BY Frame DEF OpenTemp, Env
<1> QED
  BY <1>1, WriteTempStep DEF OpenTemp, TempContent

LEMMA WriteTempActionStep ==
    ASSUME IInv, WriteTemp
    PROVE  IInv'
<1>1. MoreFiles
  BY DEF WriteTemp, IInv, FileAt
<1>2. PICK f \in Edits : f = ThisFile
  BY <1>1, Frame DEF WriteTemp, Env
<1> QED
  BY <1>1, <1>2, WriteTempStep DEF WriteTemp, TempContent

LEMMA ReplaceStep ==
    ASSUME IInv, Replace
    PROVE  IInv'
<1>1. /\ request' = request /\ clean' = clean /\ durable' = durable
      /\ backups' = backups /\ anchor' = anchor /\ journal' = journal
      /\ raced' = raced \ {ThisFile} /\ cmd.pc = "replace" /\ MoreFiles
  BY DEF Replace, saved, IInv, FileAt
<1>2. PICK f \in Edits : f = ThisFile
  BY <1>1, Frame
<1>3. cmd.op \in {"apply", "rollback"}
  BY <1>1, Frame DEF CmdOK, Idle, Commands
<1>4. /\ CmdOK' /\ cmd'.op = cmd.op /\ cmd'.pc = "replaced" /\ cmd'.published = cmd.published
      /\ cmd'.i = cmd.i
  BY <1>1, <1>3, Frame, Goes DEF Replace, Pcs
<1>5. /\ ViewOK(live)' /\ ViewOK(durable)'
      /\ \A g \in Files :
           /\ live'[Source(g)] = (IF f = g THEN To ELSE live[Source(g)])
           /\ live'[Forward(g)] =
                (IF cmd.op = "apply" /\ f = g THEN "absent" ELSE live[Forward(g)])
           /\ live'[Backward(g)] =
                (IF cmd.op = "rollback" /\ f = g THEN "absent" ELSE live[Backward(g)])
  BY <1>2, SourceReplaced
<1>6. TypeInv'
  BY <1>1, <1>4, <1>5, Frame DEF IInv, TypeInv
<1>7. CASE cmd.op = "apply"
  <2>1. /\ journal.state = "prepared" /\ To = "after"
        /\ request.create => journal.attempted /\ Without(Source(New), "absent")
    BY <1>1, <1>7 DEF IInv, ApplyAt, To
  <2>2. BatchInv'
    BY <1>1, <1>5, <1>7, <2>1, Frame DEF IInv, BatchInv, Without, Clear
  <2>3. CreationInv'
    BY <1>1, <1>5, <1>7, <2>1, Frame DEF IInv, CreationInv, Without, Clear
  <2>4. ApplyAt'
    BY <1>1, <1>4, <1>5, <1>7, <2>1, Frame DEF IInv, ApplyAt, Staging, Without
  <2>5. RollbackAt' /\ FileAt'
    BY <1>4, <1>7, <1>1, Frame DEF RollbackAt, FileAt, MoreFiles
  <2> QED
    BY <1>6, <2>2, <2>3, <2>4, <2>5 DEF IInv
<1>8. CASE cmd.op = "rollback"
  <2>1. /\ journal.state = "rollback_prepared" /\ ~journal.deletion /\ To = "before"
    BY <1>1, <1>8 DEF IInv, RollbackAt, To
  <2>2. BatchInv'
    BY <1>1, <1>5, <1>8, <2>1, Frame DEF IInv, BatchInv, Without, Clear
  <2>3. CreationInv'
    BY <1>1, <1>5, <1>8, <2>1, Frame DEF IInv, CreationInv, Without, Clear
  <2>4. RollbackAt'
    BY <1>1, <1>4, <1>5, <1>8, <2>1, Frame DEF IInv, RollbackAt, Published
  <2>5. ApplyAt' /\ FileAt'
    BY <1>4, <1>8, <1>1, Frame DEF ApplyAt, FileAt, MoreFiles
  <2> QED
    BY <1>6, <2>2, <2>3, <2>4, <2>5 DEF IInv
<1> QED
  BY <1>3, <1>7, <1>8


-----------------------------------------------------------------------------
(* Steps that end an apply or a rollback.                                  *)

LEMMA RemoveTempsStep ==
    ASSUME IInv, RemoveTemps
    PROVE  IInv'
<1>1. /\ request' = request /\ clean' = clean /\ raced' = raced
      /\ backups' = backups /\ anchor' = anchor /\ journal' = journal
      /\ cmd.pc = "clean" /\ cmd.op \in {"apply", "rollback"}
  BY Frame DEF RemoveTemps, Env, saved, CmdOK, Idle, Commands
<1>2. CASE cmd.op = "apply"
  <2>1. CmdOK' /\ cmd'.op = "apply" /\ cmd'.pc = "sync" /\ cmd'.published = cmd.published
    BY <1>1, <1>2, Frame, Goes DEF RemoveTemps, Pcs
  <2>2. /\ ViewOK(live)' /\ ViewOK(durable)' /\ durable' = durable
        /\ \A g \in Files :
             /\ live'[Source(g)] = live[Source(g)]
             /\ live'[Forward(g)] =
                  (IF g \in Edits \cup {New} THEN "absent" ELSE live[Forward(g)])
             /\ live'[Backward(g)] = live[Backward(g)]
    <3> DEFINE names == {Forward(f) : f \in Edits \cup {New}}
    <3>1. \A g \in Files : /\ Source(g) \notin names /\ Backward(g) \notin names
                           /\ Forward(g) \in names <=> g \in Edits \cup {New}
      BY <1>1, Frame, Names
    <3>2. Remove(names)
      BY <1>2 DEF RemoveTemps
    <3> HIDE DEF names
    <3> QED
      BY <3>1, <3>2, Removes DEF IInv, TypeInv
  <2>3. TypeInv'
    BY <1>1, <2>1, <2>2, Frame DEF IInv, TypeInv
  <2>4. /\ journal.state \in {"prepared", "applied"}
        /\ request.create => journal.attempted
    BY <1>1, <1>2 DEF IInv, ApplyAt
  <2>5. BatchInv'
    BY <1>1, <2>2, <2>4, Frame DEF IInv, BatchInv, Without, Clear
  <2>6. CreationInv'
    BY <1>1, <2>2, <2>4, Frame DEF IInv, CreationInv, Without, Clear
  <2>7. ApplyAt'
    BY <1>1, <1>2, <2>1, <2>2, Frame DEF IInv, ApplyAt, Staging, Without
  <2>8. RollbackAt' /\ FileAt'
    BY <2>1 DEF RollbackAt, FileAt
  <2> QED
    BY <2>3, <2>5, <2>6, <2>7, <2>8 DEF IInv
<1>3. CASE cmd.op = "rollback"
  <2>1. PICK p \in {"sync_sources", "sync"} :
           Goto(p) /\ (p = "sync_sources" <=> request.create)
    BY <1>3 DEF RemoveTemps
  <2>2. CmdOK' /\ cmd'.op = "rollback" /\ cmd'.pc = p
    BY <1>1, <1>3, <2>1, Frame, Goes DEF Pcs
  <2>3. /\ ViewOK(live)' /\ ViewOK(durable)' /\ durable' = durable
        /\ \A g \in Files :
             /\ live'[Source(g)] = live[Source(g)]
             /\ live'[Forward(g)] = live[Forward(g)]
             /\ live'[Backward(g)] = (IF g \in Edits THEN "absent" ELSE live[Backward(g)])
    <3> DEFINE names == {Backward(f) : f \in Edits}
    <3>1. \A g \in Files : /\ Source(g) \notin names /\ Forward(g) \notin names
                           /\ Backward(g) \in names <=> g \in Edits
      BY <1>1, Frame, Names
    <3>2. Remove(names)
      BY <1>3 DEF RemoveTemps
    <3> HIDE DEF names
    <3> QED
      BY <3>1, <3>2, Removes DEF IInv, TypeInv
  <2>4. TypeInv'
    BY <1>1, <2>2, <2>3, Frame DEF IInv, TypeInv
  <2>5. journal.state = "rollback_prepared"
    BY <1>1, <1>3 DEF IInv, RollbackAt
  <2>6. BatchInv'
    BY <1>1, <2>3, <2>5, Frame DEF IInv, BatchInv, Without, Clear
  <2>7. CreationInv'
    BY <1>1, <2>3, <2>5, Frame DEF IInv, CreationInv, Without, Clear
  <2>8. RollbackAt'
    <3>1. ~request.create => live[Source(New)] # "after"
      BY DEF IInv, CreationInv, Without
    <3> QED
      BY <1>1, <1>3, <2>1, <2>2, <2>3, <2>5, <3>1, Frame DEF IInv, RollbackAt, Published
  <2>9. ApplyAt' /\ FileAt'
    BY <2>1, <2>2 DEF ApplyAt, FileAt
  <2> QED
    BY <2>4, <2>6, <2>7, <2>8, <2>9 DEF IInv
<1> QED
  BY <1>1, <1>2, <1>3

LEMMA SyncParentsStep ==
    ASSUME IInv, SyncParents
    PROVE  IInv'
<1>1. /\ request' = request /\ clean' = clean /\ raced' = raced
      /\ backups' = backups /\ anchor' = anchor /\ journal' = journal
      /\ cmd.pc = "sync" /\ cmd.op \in {"apply", "rollback"}
  BY Frame DEF SyncParents, Env, saved, CmdOK, Idle, Commands
<1>2. /\ CmdOK' /\ cmd'.op = cmd.op /\ cmd'.pc = "acknowledge"
      /\ cmd'.published = cmd.published
  BY <1>1, Frame, Goes DEF SyncParents, Pcs
<1>3. PICK S \in SUBSET Files :
         /\ Edits \subseteq S /\ (request.create => New \in S)
         /\ Sync({"source", "forward", "backward"} \X S)
  <2>1. (Edits \cup IF request.create THEN {New} ELSE {}) \in SUBSET Files
    BY <1>1, Frame
  <2> QED
    BY <2>1 DEF SyncParents
<1>4. /\ ViewOK(live)' /\ ViewOK(durable)' /\ live' = live
      /\ \A g \in S : /\ durable'[Source(g)] = live[Source(g)]
                      /\ durable'[Forward(g)] = live[Forward(g)]
                      /\ durable'[Backward(g)] = live[Backward(g)]
      /\ \A g \in Files \ S : /\ durable'[Source(g)] = durable[Source(g)]
                              /\ durable'[Forward(g)] = durable[Forward(g)]
                              /\ durable'[Backward(g)] = durable[Backward(g)]
  BY <1>3, Syncs DEF IInv, TypeInv
<1>5. TypeInv'
  BY <1>1, <1>2, <1>4, Frame DEF IInv, TypeInv
<1>6. BatchInv' /\ CreationInv'
  <2>1. BatchInv'
    BY <1>1, <1>4, Frame DEF IInv, BatchInv, Without, Clear
  <2>2. CreationInv'
    BY <1>1, <1>4, Frame DEF IInv, CreationInv, Without, Clear
  <2> QED
    BY <2>1, <2>2
<1>7. ApplyAt'
  BY <1>1, <1>2, <1>3, <1>4, Frame DEF IInv, ApplyAt, Staging, Without, Clear
<1>8. RollbackAt'
  BY <1>1, <1>2, <1>3, <1>4, Frame DEF IInv, RollbackAt, CreationInv, Published, Without, Clear
<1>9. FileAt'
  BY <1>2 DEF FileAt
<1> QED
  BY <1>5, <1>6, <1>7, <1>8, <1>9 DEF IInv

LEMMA RemoveForwardStep ==
    ASSUME IInv, RemoveForward
    PROVE  IInv'
<1>1. /\ request' = request /\ clean' = clean /\ raced' = raced
      /\ backups' = backups /\ anchor' = anchor /\ journal' = journal
      /\ cmd.pc = "forward" /\ cmd.op = "rollback"
  BY DEF RemoveForward, Env, saved, At
<1>2. PICK k \in 1..Len(request.edits) + 1 :
         /\ k = IF journal.deletion THEN Len(request.edits) + 1 ELSE 1
         /\ cmd' = [cmd EXCEPT !.pc = "next", !.i = k]
  <2>1. 1 \in 1..Len(request.edits) + 1 /\ Len(request.edits) + 1 \in 1..Len(request.edits) + 1
    BY <1>1, Frame
  <2>2. CASE journal.deletion
    BY <2>1, <2>2 DEF RemoveForward
  <2>3. CASE ~journal.deletion
    BY <2>1, <2>3 DEF RemoveForward
  <2> QED
    BY <2>2, <2>3
<1>3. CmdOK' /\ cmd'.op = "rollback" /\ cmd'.pc = "next" /\ cmd'.i = k
  <2>1. k \in Nat
    BY <1>1, Frame
  <2>2. cmd' \in Commands /\ cmd'.op = "rollback" /\ cmd'.pc = "next" /\ cmd'.i = k
    BY <1>1, <1>2, <2>1, Frame DEF CmdOK, Commands, Pcs
  <2> QED
    BY <1>1, <2>2, Frame DEF CmdOK, Commands
<1>4. /\ ViewOK(live)' /\ ViewOK(durable)' /\ durable' = durable
      /\ \A g \in Files :
           /\ live'[Source(g)] = live[Source(g)]
           /\ live'[Forward(g)] = (IF g \in Edits THEN "absent" ELSE live[Forward(g)])
           /\ live'[Backward(g)] = live[Backward(g)]
  <2> DEFINE names == {Forward(f) : f \in Edits}
  <2>1. \A g \in Files : /\ Source(g) \notin names /\ Backward(g) \notin names
                         /\ Forward(g) \in names <=> g \in Edits
    BY <1>1, Frame, Names
  <2>2. Remove(names)
    BY DEF RemoveForward
  <2> HIDE DEF names
  <2> QED
    BY <2>1, <2>2, Removes DEF IInv, TypeInv
<1>5. TypeInv'
  BY <1>1, <1>3, <1>4, Frame DEF IInv, TypeInv
<1>6. BatchInv'
  BY <1>1, <1>4, Frame DEF IInv, BatchInv, Without, Clear
<1>7. CreationInv'
  BY <1>1, <1>4, Frame DEF IInv, CreationInv, Without, Clear
<1>8. RollbackAt'
  BY <1>1, <1>2, <1>3, <1>4, Frame DEF IInv, RollbackAt, Published
<1>9. ApplyAt' /\ FileAt'
  BY <1>3 DEF ApplyAt, FileAt
<1> QED
  BY <1>5, <1>6, <1>7, <1>8, <1>9 DEF IInv

LEMMA SyncSourcesStep ==
    ASSUME IInv, SyncSources
    PROVE  IInv'
<1>1. /\ request' = request /\ clean' = clean /\ raced' = raced
      /\ backups' = backups /\ anchor' = anchor /\ journal' = journal
      /\ cmd.pc = "sync_sources" /\ cmd.op = "rollback"
  BY DEF SyncSources, Env, saved, At
<1>2. PICK p \in {"disposed", "mark_deletion"} : Goto(p) /\ (p = "disposed" <=> journal.deletion)
  BY DEF SyncSources
<1>3. CmdOK' /\ cmd'.op = "rollback" /\ cmd'.pc = p
  BY <1>1, <1>2, Frame, Goes DEF Pcs
<1>4. /\ ViewOK(live)' /\ ViewOK(durable)' /\ live' = live
      /\ \A g \in Edits : /\ durable'[Source(g)] = live[Source(g)]
                          /\ durable'[Forward(g)] = live[Forward(g)]
                          /\ durable'[Backward(g)] = live[Backward(g)]
      /\ \A g \in Files \ Edits : /\ durable'[Source(g)] = durable[Source(g)]
                                  /\ durable'[Forward(g)] = durable[Forward(g)]
                                  /\ durable'[Backward(g)] = durable[Backward(g)]
  BY <1>1, Frame, Syncs DEF SyncSources, IInv, TypeInv
<1>5. TypeInv'
  BY <1>1, <1>3, <1>4, Frame DEF IInv, TypeInv
<1>6. BatchInv'
  BY <1>1, <1>4, Frame DEF IInv, BatchInv, Without, Clear
<1>7. CreationInv'
  BY <1>1, <1>4, Frame DEF IInv, CreationInv, Without, Clear
<1>8. RollbackAt'
  BY <1>1, <1>2, <1>3, <1>4, Frame DEF IInv, RollbackAt, Published, Without, Clear
<1>9. ApplyAt' /\ FileAt'
  BY <1>2, <1>3 DEF ApplyAt, FileAt
<1> QED
  BY <1>5, <1>6, <1>7, <1>8, <1>9 DEF IInv

LEMMA DisposeStep ==
    ASSUME IInv, Dispose
    PROVE  IInv'
<1>1. /\ request' = request /\ clean' = clean /\ raced' = raced
      /\ backups' = backups /\ anchor' = anchor /\ journal' = journal
      /\ cmd.pc = "dispose" /\ cmd.op = "rollback"
  BY DEF Dispose, Env, saved, At
<1>2. CmdOK' /\ cmd'.op = "rollback" /\ cmd'.pc = "disposed"
  BY <1>1, Frame, Goes DEF Dispose, Pcs
<1>3. /\ ViewOK(live)' /\ ViewOK(durable)' /\ durable' = durable
      /\ \A g \in Files : /\ live'[Source(g)] = (IF g = New THEN "absent" ELSE live[Source(g)])
                          /\ live'[Forward(g)] = live[Forward(g)]
                          /\ live'[Backward(g)] = live[Backward(g)]
  BY <1>1, Frame, PutSource DEF Dispose, IInv, TypeInv, SourceContent
<1>4. journal.deletion /\ journal.state = "rollback_prepared"
  BY <1>1 DEF IInv, RollbackAt
<1>5. TypeInv'
  BY <1>1, <1>2, <1>3, Frame DEF IInv, TypeInv
<1>6. BatchInv'
  BY <1>1, <1>3, <1>4, Frame DEF IInv, BatchInv, Without, Clear
<1>7. CreationInv'
  BY <1>1, <1>3, <1>4, Frame DEF IInv, CreationInv, Without, Clear
<1>8. RollbackAt'
  BY <1>1, <1>2, <1>3, <1>4, Frame DEF IInv, RollbackAt, Published
<1>9. ApplyAt' /\ FileAt'
  BY <1>2 DEF ApplyAt, FileAt
<1> QED
  BY <1>5, <1>6, <1>7, <1>8, <1>9 DEF IInv

-----------------------------------------------------------------------------
(* The world around a command.                                             *)

\* What no view of the disk shows, no loss of power brings back.
LEMMA PowerLossStep ==
    ASSUME IInv, PowerLoss
    PROVE  IInv'
<1>1. /\ request' = request /\ clean' = clean /\ raced' = {}
      /\ backups' = backups /\ anchor' = anchor /\ journal' = journal /\ cmd' = Idle
  BY DEF PowerLoss, saved
<1>2. CmdOK' /\ cmd'.op = "none" /\ cmd'.pc = "idle"
  BY <1>1, Frame DEF CmdOK, Idle, Commands, Pcs
<1>3. /\ ViewOK(live)' /\ ViewOK(durable)'
      /\ \A n \in Name : /\ live'[n] \in {live[n], durable[n]}
                         /\ durable'[n] \in {live[n], durable[n]}
  BY Loses DEF IInv, TypeInv, MayHold
<1>4. \A f \in Files :
         /\ \A c : Without(Source(f), c) => Without(Source(f), c)'
         /\ Clear(Forward(f)) => Clear(Forward(f))'
         /\ Clear(Backward(f)) => Clear(Backward(f))'
  BY <1>3, Names DEF Without, Clear
<1>5. TypeInv'
  BY <1>1, <1>2, <1>3, Frame DEF IInv, TypeInv
<1>6. BatchInv'
  BY <1>1, <1>4, Frame DEF IInv, BatchInv
<1>7. CreationInv'
  BY <1>1, <1>4, Frame DEF IInv, CreationInv
<1>8. ApplyAt' /\ RollbackAt' /\ FileAt'
  BY <1>2 DEF ApplyAt, RollbackAt, FileAt
<1> QED
  BY <1>5, <1>6, <1>7, <1>8 DEF IInv

LEMMA UserEditsStep ==
    ASSUME IInv, NEW f \in Edits, UserEdits(f)
    PROVE  IInv'
<1>1. /\ request' = request /\ clean' = clean /\ cmd' = cmd
      /\ backups' = backups /\ anchor' = anchor /\ journal' = journal
      /\ raced' = IF cmd.pc = "replace" /\ ThisFile = f THEN raced \cup {f} ELSE raced
  BY DEF UserEdits, saved
<1>2. /\ ViewOK(live)' /\ ViewOK(durable)' /\ durable' = durable
      /\ \A g \in Files : /\ live'[Source(g)] = (IF g = f THEN "other" ELSE live[Source(g)])
                          /\ live'[Forward(g)] = live[Forward(g)]
                          /\ live'[Backward(g)] = live[Backward(g)]
  BY <1>1, Frame, PutSource DEF UserEdits, IInv, TypeInv
<1>3. TypeInv'
  BY <1>1, <1>2, Frame DEF IInv, TypeInv, CmdOK, Commands
<1>4. BatchInv'
  BY <1>1, <1>2, Frame DEF IInv, BatchInv, Without, Clear
<1>5. CreationInv'
  BY <1>1, <1>2, Frame DEF IInv, CreationInv, Without, Clear
<1>6. ApplyAt'
  BY <1>1, <1>2, Frame DEF IInv, ApplyAt, Staging, Without, Clear
<1>7. RollbackAt'
  BY <1>1, <1>2, Frame DEF IInv, RollbackAt, Published, Without, Clear, MoreFiles
<1>8. FileAt'
  <2>1. MoreFiles' = MoreFiles /\ ThisFile' = ThisFile /\ From' = From
    BY <1>1 DEF MoreFiles, ThisFile, From
  <2>2. CASE ThisFile = f
    BY <1>1, <2>1, <2>2 DEF IInv, FileAt
  <2>3. CASE ThisFile # f
    BY <1>1, <1>2, <2>1, <2>3, Frame DEF IInv, FileAt
  <2> QED
    BY <2>2, <2>3
<1> QED
  BY <1>3, <1>4, <1>5, <1>6, <1>7, <1>8 DEF IInv

LEMMA UserTouchesTargetStep ==
    ASSUME IInv, UserTouchesTarget
    PROVE  IInv'
<1>1. /\ request' = request /\ clean' = clean /\ cmd' = cmd /\ raced' = raced
      /\ backups' = backups /\ anchor' = anchor /\ journal' = journal
      /\ request.create /\ ~Pinned
  BY DEF UserTouchesTarget, saved
<1>2. PICK x \in {"other", "deleted"} : Put(Source(New), x)
  BY DEF UserTouchesTarget
<1>3. /\ ViewOK(live)' /\ ViewOK(durable)' /\ durable' = durable
      /\ \A g \in Files : /\ live'[Source(g)] = (IF g = New THEN x ELSE live[Source(g)])
                          /\ live'[Forward(g)] = live[Forward(g)]
                          /\ live'[Backward(g)] = live[Backward(g)]
  BY <1>1, <1>2, Frame, PutSource DEF IInv, TypeInv, SourceContent
<1>4. TypeInv'
  BY <1>1, <1>3, Frame DEF IInv, TypeInv, CmdOK, Commands
<1>5. BatchInv'
  BY <1>1, <1>3, Frame DEF IInv, BatchInv, Without, Clear
<1>6. CreationInv'
  BY <1>1, <1>3, Frame DEF IInv, CreationInv, Without, Clear
<1>7. ApplyAt'
  BY <1>1, <1>3, Frame DEF IInv, ApplyAt, Staging, Without, Clear
<1>8. RollbackAt'
  BY <1>1, <1>3, Frame DEF IInv, RollbackAt, Published, Pinned, Without, Clear, MoreFiles
<1>9. FileAt'
  BY <1>1, <1>3, Frame DEF IInv, FileAt, MoreFiles, ThisFile, From
<1> QED
  BY <1>4, <1>5, <1>6, <1>7, <1>8, <1>9 DEF IInv

LEMMA UserTouchesElsewhereStep ==
    ASSUME IInv, UserTouchesElsewhere
    PROVE  IInv'
<1>1. /\ request' = request /\ UNCHANGED <<disk, saved>> /\ cmd' = cmd /\ raced' = raced
      /\ live' = live /\ durable' = durable /\ clean' \in BOOLEAN
      /\ backups' = backups /\ anchor' = anchor /\ journal' = journal /\ Edits' = Edits
  BY DEF UserTouchesElsewhere, disk, saved, Edits, IInv, TypeInv
<1>2. TypeInv'
  BY <1>1 DEF IInv, TypeInv, ViewOK, CmdOK, Commands
<1>3. BatchInv' /\ CreationInv'
  BY <1>1, DiskStays DEF IInv
<1>4. ApplyAt'
  BY <1>1 DEF IInv, ApplyAt, Without, Clear
<1>5. RollbackAt'
  BY <1>1 DEF IInv, RollbackAt, Published, Without, Clear, MoreFiles
<1>6. FileAt'
  BY <1>1 DEF IInv, FileAt, MoreFiles, ThisFile, From
<1> QED
  BY <1>2, <1>3, <1>4, <1>5, <1>6 DEF IInv


-----------------------------------------------------------------------------
(* The invariant holds, and what it gives.                                 *)

LEMMA InitIInv ==
    ASSUME Init
    PROVE  IInv
<1>1. request \in Requests /\ Edits \subseteq File /\ Edits \subseteq Files
      /\ New \in Files /\ New \notin Edits /\ Len(request.edits) \in Nat
  BY EditsAreFiles DEF Init
<1>2. \A f \in Files : /\ live[Source(f)] = (IF f \in File THEN "before" ELSE "absent")
                       /\ live[Forward(f)] = "absent" /\ live[Backward(f)] = "absent"
  <2> DEFINE sources == {Source(f) : f \in File}
  <2>1. \A f \in Files : /\ Source(f) \in sources <=> f \in File
                         /\ Forward(f) \notin sources /\ Backward(f) \notin sources
    BY Names DEF Files
  <2>2. live = [n \in Name |-> IF n \in sources THEN "before" ELSE "absent"]
    BY DEF Init
  <2> HIDE DEF sources
  <2> QED
    BY <2>1, <2>2, Names
<1>3. live \in [Name -> SourceContent \cup TempContent] /\ durable = live
  BY DEF Init, SourceContent
<1>4. ViewOK(live) /\ ViewOK(durable)
  BY <1>2, <1>3, NewAssumption DEF ViewOK, Files, SourceContent, TempContent
<1>5. CmdOK /\ cmd.op = "none" /\ cmd.pc = "idle"
  BY <1>1 DEF Init, CmdOK, Idle, Commands, Pcs
<1>6. journal \in Journals /\ journal.state = "none" /\ ~journal.identity
      /\ ~journal.attempted /\ ~journal.deletion
  BY DEF Init, Journals, JournalStates
<1>7. TypeInv
  BY <1>1, <1>4, <1>5, <1>6 DEF Init, TypeInv
<1>8. BatchInv
  BY <1>1, <1>2, <1>3, <1>6 DEF BatchInv, Without, Clear
<1>9. CreationInv
  BY <1>1, <1>2, <1>3, <1>6, NewAssumption DEF CreationInv, Without, Clear
<1> QED
  BY <1>5, <1>7, <1>8, <1>9 DEF IInv, ApplyAt, RollbackAt, FileAt

LEMMA NextIInv ==
    ASSUME IInv, [Next]_vars
    PROVE  IInv'
<1>1. CASE Apply
  BY <1>1, BeginApplyStep, WriteBackupStep, SavePreparedStep, ClassifyStep, WriteAnchorStep,
     SaveIdentityStep, ReuseAnchorStep, LinkTemporaryStep, StageSkipStep, StageOpenStep,
     StageWriteStep, CheckStagedStep, MarkPublicationStep, PublishNewStep,
     ConfirmPublishedStep, SyncTargetStep DEF Apply
<1>2. CASE ReplaceFiles
  BY <1>2, SkipFileStep, OpenTempStep, WriteTempActionStep, LastCheckStep, ReplaceStep,
     ConfirmReplacedStep, FinalCheckStep, RemoveTempsStep, SyncParentsStep, AcknowledgeStep
     DEF ReplaceFiles
<1>3. CASE Rollback
  BY <1>3, BeginRollbackStep, SaveRollbackPreparedStep, RemoveForwardStep, SyncSourcesStep,
     MarkDeletionStep, DisposeStep, ConfirmDisposedStep DEF Rollback
<1>4. CASE Stop
  BY <1>4, StopStep
<1>5. CASE PowerLoss
  BY <1>5, PowerLossStep
<1>6. CASE User
  BY <1>6, UserEditsStep, UserTouchesTargetStep, UserTouchesElsewhereStep DEF User
<1>7. CASE UNCHANGED vars
  <2>1. /\ UNCHANGED <<disk, saved>> /\ Env /\ cmd' = cmd /\ live' = live /\ durable' = durable
        /\ request' = request /\ journal' = journal /\ backups' = backups /\ anchor' = anchor
        /\ raced' = raced /\ Edits' = Edits
    BY <1>7 DEF vars, disk, saved, Env, Edits
  <2>2. CmdOK' /\ ApplyAt'
    BY <2>1 DEF IInv, TypeInv, CmdOK, Commands, ApplyAt, Without, Clear
  <2>3. RollbackAt' /\ FileAt'
    BY <2>1 DEF IInv, RollbackAt, FileAt, Published, Without, Clear, MoreFiles, ThisFile, From
  <2> QED
    BY <2>1, <2>2, <2>3, QuietStep
<1> QED
  BY <1>1, <1>2, <1>3, <1>4, <1>5, <1>6, <1>7 DEF Next, Command

LEMMA SpecIInv == Spec => []IInv
BY InitIInv, NextIInv, PTL DEF Spec

LEMMA IInvTypeOK ==
    ASSUME IInv
    PROVE  TypeOK
<1>1. \A view \in {live, durable} : ViewOK(view)
  BY DEF IInv, TypeInv
<1>2. /\ cmd.op \in {"none", "apply", "rollback"} /\ cmd.i \in 1..Len(request.edits) + 1
      /\ cmd.done \subseteq Edits
  BY DEF IInv, TypeInv, CmdOK, Commands
<1> QED
  BY <1>1, <1>2 DEF IInv, TypeInv, TypeOK, ViewOK, Journals

LEMMA IInvJournal ==
    ASSUME IInv
    PROVE  JournalInv
<1>1. AcknowledgedIsDurable
  <2>1. request.create /\ journal.state = "applied" => Without(Source(New), "absent")
    BY DEF IInv, BatchInv, CreationInv
  <2> QED
    BY <2>1 DEF IInv, BatchInv, AcknowledgedIsDurable, MayHold, Without
<1>2. EditsStandWithCreation
  BY DEF IInv, CreationInv, EditsStandWithCreation, MayHold, Without
<1>3. MarkerMeansRestored
  BY DEF IInv, CreationInv, MarkerMeansRestored, MayHold, Without
<1>4. WriteAhead
  <2>1. ASSUME journal.state = "none", NEW f \in Edits \cup {New}
        PROVE  /\ "after" \notin MayHold(Source(f)) /\ MayHold(Forward(f)) = {"absent"}
               /\ MayHold(Backward(f)) = {"absent"}
    BY <2>1 DEF IInv, BatchInv, CreationInv, MayHold, Without, Clear
  <2>2. journal.state # "none" => Edits \subseteq backups
    BY DEF IInv, BatchInv
  <2>3. Published => journal.attempted /\ journal.identity /\ anchor
    BY DEF IInv, CreationInv, Published, Without
  <2> QED
    BY <2>1, <2>2, <2>3 DEF WriteAhead
<1> QED
  BY <1>1, <1>2, <1>3, <1>4, IInvTypeOK DEF JournalInv

\* JournalInv for every changeset: what the journal and the deletion marker
\* say of the repository stays true after any loss of power, and no byte of
\* it is changed before the journal and the originals that undo it are saved
\* (save_apply_state and the write_backup calls of apply_selected,
\* apply_creation and apply_mixed).
THEOREM JournalAgreesWithDisk == Spec => []JournalInv
BY SpecIInv, IInvJournal, PTL

LEMMA IInvRecoverable ==
    ASSUME IInv
    PROVE  InterruptionsRecoverable
<1> SUFFICES ASSUME cmd = Idle, Undisturbed, ~NeedsPerson, NoTornTemp
             PROVE  /\ journal.state \in {"prepared", "applied"} => CanApply
                    /\ /\ journal.state \in {"applied", "rollback_prepared", "rolled_back"}
                       /\ request.create => OnWindows
                       => CanRollBack
                    /\ journal.state = "prepared" /\ ~request.create => CanRollBack
  BY DEF InterruptionsRecoverable
<1>1. /\ clean /\ \A f \in Edits : live[Source(f)] \in {"before", "after"}
      /\ live[Source(New)] \in {"after", "absent"}
      /\ \A f \in Edits : live[Forward(f)] # "torn" /\ live[Backward(f)] # "torn"
  BY DEF Undisturbed, Classified, NoTornTemp, IInv, TypeInv, ViewOK, SourceContent
<1>2. request.create =>
        /\ anchor => journal.identity
        /\ journal.state = "prepared" /\ journal.attempted => Published
        /\ journal.deletion => ~Published
  BY DEF NeedsPerson
<1>3. journal.state # "none" => Edits \subseteq backups
  BY DEF IInv, BatchInv
<1>4. journal.state \in {"prepared", "applied"} => CanApply
  <2>1. ASSUME journal.state \in {"prepared", "applied"}, request.create
        PROVE  CanCreate
    <3>1. journal.attempted => Published
      BY <1>1, <1>2, <2>1 DEF IInv, BatchInv, CreationInv, Without, Published
    <3>2. ~journal.attempted => ~Present
      BY <1>1 DEF IInv, CreationInv, Without, Present
    <3>3. journal.identity \/ live[Forward(New)] = "absent"
      BY DEF IInv, CreationInv, Clear
    <3> QED
      BY <2>1, <3>1, <3>2, <3>3 DEF CanCreate
  <2> QED
    BY <1>1, <1>3, <2>1 DEF CanApply, NoTornTemp
<1>5. ASSUME journal.state # "none", journal.state = "prepared" => ~request.create,
             request.create => OnWindows
      PROVE  CanRollBack
  <2>1. RollbackTempsOK
    <3>1. journal.state \in JournalStates
      BY DEF IInv, TypeInv, Journals
    <3> QED
      BY <1>1, <1>5, <3>1 DEF RollbackTempsOK, Started, IInv, BatchInv, Clear, JournalStates
  <2>2. ASSUME ~request.create PROVE CanRollBackExisting
    BY <1>1 DEF CanRollBackExisting, IInv, BatchInv, Without, Clear, All
  <2>3. ASSUME request.create PROVE CanRollBackCreation
    <3>1. journal.state \in {"applied", "rollback_prepared", "rolled_back"}
      BY <1>5, <2>3 DEF IInv, TypeInv, Journals, JournalStates
    <3>2. /\ journal.attempted /\ journal.identity /\ anchor
          /\ \A f \in Edits \cup {New} : live[Forward(f)] = "absent"
      BY <2>3, <3>1 DEF IInv, CreationInv, Clear
    <3>3. IF journal.deletion THEN ~Present ELSE Published
      BY <1>1, <1>2, <2>3, <3>1 DEF IInv, CreationInv, Without, Present, Published
    <3>4. journal.state = "applied" => All("after")
      BY <1>1 DEF IInv, BatchInv, Without, All
    <3>5. journal.deletion => All("before") /\ \A f \in Edits : live[Backward(f)] = "absent"
      BY <1>1 DEF IInv, CreationInv, Without, Clear, All
    <3> QED
      BY <1>5, <2>3, <3>1, <3>2, <3>3, <3>4, <3>5 DEF CanRollBackCreation
  <2> QED
    BY <1>1, <1>3, <1>5, <2>1, <2>2, <2>3 DEF CanRollBack, Classified
<1> QED
  BY <1>4, <1>5

\* An interruption at any step of any command with any loss of power leaves a
\* state that the next command carries on from (with a created file, the next
\* rollback on Windows only), but for the cases the code hands to a person
\* (validate_resume_state and the checks that apply and rollback begin with).
THEOREM EveryInterruptionRecovers == Spec => []InterruptionsRecoverable
<1>1. IInv => InterruptionsRecoverable
  BY IInvRecoverable
<1> QED
  BY <1>1, SpecIInv, PTL

\* The steps that write a source: a replacement, and for New its publication
\* and its deletion.
LEMMA SourcesStay ==
    ASSUME IInv, Command, ~Replace
    PROVE  /\ \A f \in Edits : live'[Source(f)] = live[Source(f)]
           /\ live[Source(New)] = "other" => live'[Source(New)] = "other"
<1>1. request' = request /\ Edits \subseteq Files /\ New \in Files /\ New \notin Edits
  <2>1. request' = request
    BY DEF Command, Apply, ReplaceFiles, Rollback, BeginApply, WriteBackup, SavePrepared,
           Classify, WriteAnchor, SaveIdentity, ReuseAnchor, LinkTemporary, StageSkip,
           StageOpen, StageWrite, CheckStaged, MarkPublication, PublishNew, ConfirmPublished,
           SyncTarget, SkipFile, OpenTemp, WriteTemp, LastCheck, ConfirmReplaced, FinalCheck,
           RemoveTemps, SyncParents, Acknowledge, BeginRollback, SaveRollbackPrepared,
           RemoveForward, SyncSources, MarkDeletion, Dispose, ConfirmDisposed, Env
  <2> QED
    BY <2>1, Frame
<1>2. CASE live' = live
  BY <1>2
<1>3. ASSUME NEW f \in Files, NEW n \in {Forward(f), Backward(f)}, NEW x \in TempContent,
             Put(n, x)
      PROVE  \A g \in Files : live'[Source(g)] = live[Source(g)]
  BY <1>3, PutTemp DEF IInv, TypeInv
<1>4. CASE LinkTemporary
  BY <1>1, <1>3, <1>4 DEF LinkTemporary, TempContent
<1>5. CASE StageOpen \/ StageWrite
  <2>1. ThisFile \in Files
    BY <1>1, <1>5, Frame DEF StageOpen, StageWrite, At, IInv, FileAt
  <2> QED
    BY <1>1, <1>3, <1>5, <2>1 DEF StageOpen, StageWrite, TempContent
<1>6. CASE OpenTemp \/ WriteTemp
  <2>1. ThisFile \in Files
    BY <1>1, <1>6, Frame DEF OpenTemp, WriteTemp, IInv, FileAt
  <2>2. Temp(ThisFile) \in {Forward(ThisFile), Backward(ThisFile)}
    BY DEF Temp
  <2> QED
    BY <1>1, <1>3, <1>6, <2>1, <2>2 DEF OpenTemp, WriteTemp, TempContent
<1>7. CASE RemoveTemps \/ RemoveForward
  <2>1. PICK names : Remove(names) /\ \A g \in Files : Source(g) \notin names
    <3>1. CASE RemoveForward
      BY <1>1, <3>1, Names DEF RemoveForward
    <3>2. CASE RemoveTemps /\ cmd.op = "apply"
      BY <1>1, <3>2, Names DEF RemoveTemps
    <3>3. CASE RemoveTemps /\ cmd.op # "apply"
      BY <1>1, <3>3, Names DEF RemoveTemps
    <3> QED
      BY <1>7, <3>1, <3>2, <3>3
  <2> QED
    BY <1>1, <2>1, Removes DEF IInv, TypeInv
<1>8. CASE PublishNew
  <2>1. live[Source(New)] # "other"
    BY <1>8 DEF PublishNew, Present
  <2>2. \A g \in Files : g # New => live'[Source(g)] = live[Source(g)]
    BY <1>1, <1>8, PutSource DEF PublishNew, IInv, TypeInv, SourceContent
  <2> QED
    BY <1>1, <2>1, <2>2
<1>9. CASE Dispose
  <2>1. live[Source(New)] = "after"
    BY <1>9 DEF Dispose, At, IInv, RollbackAt, Published
  <2>2. \A g \in Files : g # New => live'[Source(g)] = live[Source(g)]
    BY <1>1, <1>9, PutSource DEF Dispose, IInv, TypeInv, SourceContent
  <2> QED
    BY <1>1, <2>1, <2>2
<1> QED
  BY <1>2, <1>4, <1>5, <1>6, <1>7, <1>8, <1>9
     DEF Command, Apply, ReplaceFiles, Rollback, BeginApply, WriteBackup, SavePrepared,
         Classify, WriteAnchor, SaveIdentity, ReuseAnchor, StageSkip,
         CheckStaged, MarkPublication, ConfirmPublished,
         SyncTarget, SkipFile, LastCheck, ConfirmReplaced, FinalCheck,
         SyncParents, Acknowledge, BeginRollback, SaveRollbackPrepared,
         SyncSources, MarkDeletion, ConfirmDisposed, Sync, disk

KeepsEdits ==
    cmd' # Idle =>
        /\ \A f \in Edits : live[Source(f)] = "other" /\ live'[Source(f)] # "other" => f \in raced
        /\ live[Source(New)] = "other" /\ live'[Source(New)] # "other" => cmd' = cmd

LEMMA IInvKeepsEdits ==
    ASSUME IInv, [Next]_vars
    PROVE  KeepsEdits
<1>1. CASE Command /\ ~Replace
  BY <1>1, SourcesStay DEF KeepsEdits
<1>2. CASE Replace
  <2>1. /\ request' = request /\ durable' = durable /\ MoreFiles
        /\ live[Source(ThisFile)] # "other" \/ ThisFile \in raced
        /\ live' = [live EXCEPT ![Source(ThisFile)] = To, ![Temp(ThisFile)] = "absent"]
    BY <1>2 DEF Replace, IInv, FileAt, From
  <2>2. PICK f \in Edits : f = ThisFile
    BY <2>1, Frame
  <2>3. PICK n \in {Forward(f), Backward(f)} : n = Temp(ThisFile)
    BY <2>2 DEF Temp
  <2>4. live' = [live EXCEPT ![Source(f)] = To, ![n] = "absent"]
    BY <2>1, <2>2, <2>3
  <2>5. \A g \in Files : g # f => live'[Source(g)] = live[Source(g)]
    <3>1. f \in File /\ To \in {"before", "after"}
      BY <2>1, Frame DEF To
    <3> QED
      BY <2>1, <2>4, <3>1, Replaces DEF IInv, TypeInv
  <2> QED
    BY <2>1, <2>2, <2>5, Frame DEF KeepsEdits
<1>3. CASE Stop \/ PowerLoss
  BY <1>3 DEF KeepsEdits, Stop, PowerLoss
<1>4. CASE User
  <2>1. CASE UserTouchesElsewhere
    BY <2>1 DEF UserTouchesElsewhere, KeepsEdits, disk
  <2>2. CASE UserTouchesTarget
    <3>1. PICK x \in {"other", "deleted"} : Put(Source(New), x)
      BY <2>2 DEF UserTouchesTarget
    <3>2. cmd' = cmd /\ request' = request
      BY <2>2 DEF UserTouchesTarget
    <3>3. \A g \in Files : g # New => live'[Source(g)] = live[Source(g)]
      BY <3>1, <3>2, Frame, PutSource DEF IInv, TypeInv, SourceContent
    <3> QED
      BY <3>2, <3>3, Frame DEF KeepsEdits
  <2>3. ASSUME NEW f \in Edits, UserEdits(f)
        PROVE  KeepsEdits
    <3>1. Put(Source(f), "other") /\ request' = request
      BY <2>3 DEF UserEdits
    <3>2. \A g \in Files :
             live'[Source(g)] = (IF g = f THEN "other" ELSE live[Source(g)])
      BY <3>1, Frame, PutSource DEF IInv, TypeInv
    <3> QED
      BY <3>1, <3>2, Frame DEF KeepsEdits
  <2> QED
    BY <1>4, <2>1, <2>2, <2>3 DEF User
<1>5. CASE UNCHANGED vars
  BY <1>5 DEF vars, KeepsEdits
<1> QED
  BY <1>1, <1>2, <1>3, <1>4, <1>5 DEF Next, Command, ReplaceFiles

\* UserEditsKept for every changeset: a command replaces an edit of the
\* user's only if it came between the last read of that file and the rename
\* over it, and never touches what the user put at the new file's name
\* (replace_source_path, publish by hard link, delete through a held handle).
THEOREM EditsOfTheUserAreKept == Spec => UserEditsKept
<1>1. IInv /\ [Next]_vars => [KeepsEdits]_vars
  BY IInvKeepsEdits
<1>2. [][KeepsEdits]_vars => UserEditsKept
  BY DEF UserEditsKept, KeepsEdits
<1> QED
  BY <1>1, <1>2, SpecIInv, PTL DEF Spec

-----------------------------------------------------------------------------
(***************************************************************************)
(* A command left alone carries on.  What its first checks found, and what *)
(* its own steps make of it, holds until somebody interferes: what each    *)
(* later check asks for that is not in IInv.                               *)
(***************************************************************************)
Shared == {"next", "write", "verify", "replace", "replaced", "clean", "sync", "acknowledge"}

\* Which steps belong to which command; a rollback remembers no file as done.
OpAt ==
    /\ cmd.op = "apply" =>
         cmd.pc \in Staging \cup Shared \cup {"backup", "classify", "anchor", "identity"}
    /\ cmd.op = "rollback" =>
         /\ cmd.pc \in Shared \cup {"prepare", "forward", "sync_sources", "mark_deletion",
                                    "dispose", "disposed"}
         /\ cmd.done = {}

\* Only the temporary a command is writing is torn.
TornAt ==
    cmd.op # "none" =>
        \A f \in Edits :
            /\ live[Forward(f)] = "torn" =>
                 /\ cmd.pc = "stage_write" \/ (cmd.pc = "write" /\ cmd.op = "apply")
                 /\ f = ThisFile
            /\ live[Backward(f)] = "torn" =>
                 cmd.pc = "write" /\ cmd.op = "rollback" /\ f = ThisFile

Unpublished == {"backup", "classify", "anchor", "identity", "link_temporary", "stage",
                "stage_write", "mark"}

\* New is published exactly when the command takes it to be, or somebody removed it.
NewAt ==
    /\ cmd.op = "apply" /\ request.create =>
         /\ cmd.pc = "classify" /\ journal.state = "applied" => cmd.published
         /\ ~cmd.published /\ cmd.pc \in Unpublished => ~journal.attempted
         /\ cmd.pc = "mark" => ~cmd.published
         /\ cmd.pc = "link" => live[Source(New)] # "after"
         /\ cmd.pc = "published" => live[Source(New)] # "absent"
    /\ cmd.op = "rollback" /\ journal.deletion /\ cmd.pc # "dispose" =>
         live[Source(New)] # "after"

Replacing == {"next", "write", "verify", "replace", "replaced"}

\* The files before the current one are replaced, the current one is not yet.
DoneAt ==
    /\ cmd.op = "apply" => \A f \in cmd.done : live[Source(f)] # "before"
    /\ cmd.pc \in Replacing =>
         \A j \in 1..Len(request.edits) :
             j < cmd.i => live[Source(request.edits[j])] # From
    /\ cmd.pc = "replaced" => live[Source(ThisFile)] # From
    /\ cmd.pc \in {"write", "verify"} => live[Source(ThisFile)] # To

Staged == {"mark", "link", "published", "sync_target", "next", "replace", "replaced"}

\* What is to be replaced has its temporary.
TempAt ==
    /\ cmd.pc \in {"verify", "replace"} => live[Temp(ThisFile)] = "full"
    /\ cmd.pc \in {"stage", "stage_write"} =>
         \A j \in 1..Len(request.edits) :
             j < cmd.i => \/ request.edits[j] \in cmd.done
                          \/ live[Forward(request.edits[j])] = "full"
    /\ StagedAhead /\ cmd.pc \in Staged =>
         \A f \in Edits : live[Source(f)] = "before" => live[Forward(f)] = "full"

CarryInv == OpAt /\ TornAt /\ NewAt /\ DoneAt /\ TempAt

\* A command that is not at the write of a temporary finds none torn.
LEMMA NothingTorn ==
    ASSUME TornAt, cmd.op # "none", cmd.pc \notin {"write", "stage_write"}
    PROVE  NoTornTemp
BY DEF TornAt, NoTornTemp

LEMMA NothingTornNext ==
    ASSUME Edits' = Edits,
           \A f \in Edits : live'[Forward(f)] # "torn" /\ live'[Backward(f)] # "torn"
    PROVE  TornAt'
BY DEF TornAt

\* The direction of a command stays.
LEMMA Directions ==
    ASSUME cmd'.op = cmd.op, request' = request
    PROVE  /\ From' = From /\ To' = To /\ StagedAhead' = StagedAhead
           /\ \A f : Temp(f)' = Temp(f)
           /\ From # To
BY DEF From, To, StagedAhead, Temp

\* A file is edited once.
LEMMA OneEditPerFile ==
    ASSUME request \in Requests, NEW i \in 1..Len(request.edits),
           NEW j \in 1..Len(request.edits), request.edits[i] = request.edits[j]
    PROVE  i = j
<1>1. request.edits \in Seq(File)
  BY EditsAreFiles
<1> QED
  BY <1>1, RequestsAssumption

\* No command, nothing to keep.
LEMMA IdleCarries ==
    ASSUME cmd' = Idle
    PROVE  CarryInv'
<1>1. cmd'.op = "none" /\ cmd'.pc = "idle" /\ cmd'.done = {}
  BY DEF Idle
<1>2. OpAt' /\ TornAt' /\ NewAt'
  BY <1>1 DEF OpAt, TornAt, NewAt
<1>3. DoneAt' /\ TempAt'
  BY <1>1 DEF DoneAt, TempAt, StagedAhead, Replacing
<1> QED
  BY <1>2, <1>3 DEF CarryInv

\* The three names of every edited file stay as they are.
NamesStay ==
    \A f \in Edits : /\ live'[Source(f)] = live[Source(f)]
                      /\ live'[Forward(f)] = live[Forward(f)]
                      /\ live'[Backward(f)] = live[Backward(f)]

\* A step that leaves the edited files alone keeps what is known of them, if it goes
\* to the next file only from one that is done.
LEMMA QuietCarries ==
    ASSUME IInv, CarryInv, request' = request, NamesStay,
           cmd.op \in {"apply", "rollback"}, cmd.pc \notin {"write", "stage_write"},
           cmd'.op = cmd.op, cmd'.done = cmd.done, cmd'.i \in Nat, OpAt', NewAt',
           cmd'.pc \notin {"write", "verify", "stage_write", "replaced"},
           cmd'.pc = "stage" => \/ cmd'.i = 1
                               \/ /\ cmd.pc = "stage" /\ cmd'.i = cmd.i + 1
                                  /\ ThisFile \in cmd.done,
           cmd'.pc \in Replacing =>
               \/ cmd'.i = 1
               \/ cmd.pc \in Replacing /\ cmd'.i = cmd.i
               \/ /\ cmd.pc \in Replacing /\ cmd'.i = cmd.i + 1
                  /\ live[Source(ThisFile)] # From,
           cmd'.pc = "replace" => live[Temp(ThisFile)] = "full" /\ cmd'.i = cmd.i /\ MoreFiles,
           StagedAhead /\ cmd'.pc \in Staged =>
               \/ cmd.pc \in Staged
               \/ \A f \in Edits : live[Source(f)] = "before" => live[Forward(f)] = "full"
    PROVE  CarryInv'
<1>1. /\ Edits' = Edits /\ ThisFile' = request.edits[cmd'.i] /\ cmd.done \subseteq Edits
      /\ \A j \in 1..Len(request.edits) : request.edits[j] \in Edits
      /\ Len(request.edits) \in Nat /\ cmd.i \in Nat
  BY Frame, EditsAreFiles DEF CmdOK, Commands
<1>2. TornAt'
  BY <1>1, NothingTorn, NothingTornNext DEF CarryInv, NoTornTemp, NamesStay
<1>3. /\ From' = From /\ To' = To /\ StagedAhead' = StagedAhead
      /\ \A f : Temp(f)' = Temp(f)
  BY Directions
<1>4. DoneAt'
  <2>1. cmd'.op = "apply" => \A f \in cmd'.done : live'[Source(f)] # "before"
    BY <1>1 DEF CarryInv, DoneAt, NamesStay
  <2>2. ASSUME cmd'.pc \in Replacing, NEW j \in 1..Len(request.edits), j < cmd'.i
        PROVE  live'[Source(request.edits[j])] # From
    <3>1. j = cmd.i \/ j < cmd.i \/ cmd'.i = 1 \/ cmd'.i = cmd.i
      BY <1>1, <2>2
    <3>2. cmd'.i # 1
      BY <2>2
    <3>3. live[Source(request.edits[j])] # From
      BY <1>1, <2>2, <3>1, <3>2 DEF CarryInv, DoneAt, ThisFile
    <3> QED
      BY <1>1, <3>3 DEF NamesStay
  <2> QED
    BY <1>3, <2>1, <2>2 DEF DoneAt
<1>5. TempAt'
  <2>1. cmd'.pc = "replace" => live'[Temp(ThisFile')] = "full"
    <3>1. cmd'.pc = "replace" => /\ ThisFile \in Edits /\ ThisFile' = ThisFile
                                 /\ live[Temp(ThisFile)] = "full"
      BY <1>1, Frame DEF ThisFile
    <3>2. CASE cmd.op = "apply"
      BY <3>1, <3>2 DEF NamesStay, Temp
    <3>3. CASE cmd.op = "rollback"
      BY <3>1, <3>3 DEF NamesStay, Temp
    <3> QED
      BY <3>2, <3>3
  <2>2. ASSUME cmd'.pc = "stage", NEW j \in 1..Len(request.edits), j < cmd'.i
        PROVE  \/ request.edits[j] \in cmd'.done
               \/ live'[Forward(request.edits[j])] = "full"
    <3>1. cmd.pc = "stage" /\ ThisFile \in cmd.done /\ (j = cmd.i \/ j < cmd.i)
      BY <1>1, <2>2
    <3> QED
      BY <1>1, <2>2, <3>1 DEF CarryInv, TempAt, ThisFile, NamesStay
  <2>3. ASSUME StagedAhead, cmd'.pc \in Staged, NEW f \in Edits, live'[Source(f)] = "before"
        PROVE  live'[Forward(f)] = "full"
    BY <2>3 DEF CarryInv, TempAt, NamesStay
  <2> QED
    BY <1>1, <1>3, <2>1, <2>2, <2>3 DEF TempAt
<1> QED
  BY <1>2, <1>4, <1>5 DEF CarryInv

\* The steps of an apply before its first replacement.
LEMMA WriteBackupCarries ==
    ASSUME IInv, CarryInv, WriteBackup
    PROVE  CarryInv'
<1>1. /\ request' = request /\ NamesStay /\ live'[Source(New)] = live[Source(New)]
      /\ journal' = journal
  BY DEF WriteBackup, Env, disk, saved, NamesStay
<1>2. /\ cmd.op = "apply" /\ cmd.pc = "backup" /\ cmd'.op = cmd.op /\ cmd'.pc = "backup"
      /\ cmd'.i = cmd.i + 1 /\ cmd'.i \in Nat /\ cmd'.done = cmd.done
      /\ cmd'.published = cmd.published
  BY <1>1, Frame, GoesNext DEF WriteBackup, At, Pcs, CmdOK, Commands
<1>3. OpAt' /\ NewAt'
  BY <1>1, <1>2 DEF CarryInv, OpAt, NewAt, Staging, Shared, Unpublished
<1> QED
  BY <1>1, <1>2, <1>3, QuietCarries DEF Replacing, Staged

LEMMA SavePreparedCarries ==
    ASSUME IInv, CarryInv, SavePrepared
    PROVE  CarryInv'
<1>1. /\ request' = request /\ NamesStay /\ live'[Source(New)] = live[Source(New)]
      /\ journal'.attempted = journal.attempted /\ journal'.state = "prepared"
  BY Saves DEF SavePrepared, Env, disk, saved, NamesStay, Save, IInv, TypeInv, JournalStates
<1>2. /\ cmd.op = "apply" /\ cmd.pc = "backup" /\ cmd'.op = cmd.op /\ cmd'.pc = "classify"
      /\ cmd'.i = cmd.i /\ cmd'.i \in Nat /\ cmd'.done = cmd.done
      /\ cmd'.published = cmd.published
  BY <1>1, Frame, Goes DEF SavePrepared, At, Pcs, CmdOK, Commands
<1>3. OpAt' /\ NewAt'
  BY <1>1, <1>2 DEF CarryInv, OpAt, NewAt, Staging, Shared, Unpublished
<1> QED
  BY <1>1, <1>2, <1>3, QuietCarries DEF Replacing, Staged

LEMMA WriteAnchorCarries ==
    ASSUME IInv, CarryInv, WriteAnchor
    PROVE  CarryInv'
<1>1. /\ request' = request /\ NamesStay /\ live'[Source(New)] = live[Source(New)]
      /\ journal' = journal
  BY DEF WriteAnchor, Env, disk, saved, NamesStay
<1>2. /\ cmd.op = "apply" /\ cmd.pc = "anchor" /\ cmd'.op = cmd.op /\ cmd'.pc = "identity"
      /\ cmd'.i = cmd.i /\ cmd'.i \in Nat /\ cmd'.done = cmd.done
      /\ cmd'.published = cmd.published
  BY <1>1, Frame, Goes DEF WriteAnchor, At, Pcs, CmdOK, Commands
<1>3. OpAt' /\ NewAt'
  BY <1>1, <1>2 DEF CarryInv, OpAt, NewAt, Staging, Shared, Unpublished
<1> QED
  BY <1>1, <1>2, <1>3, QuietCarries DEF Replacing, Staged

LEMMA SaveIdentityCarries ==
    ASSUME IInv, CarryInv, SaveIdentity
    PROVE  CarryInv'
<1>1. /\ request' = request /\ NamesStay /\ live'[Source(New)] = live[Source(New)]
      /\ journal'.attempted = journal.attempted
  BY Saves DEF SaveIdentity, Env, disk, saved, NamesStay, Save, IInv, TypeInv
<1>2. /\ cmd.op = "apply" /\ cmd.pc = "identity" /\ cmd'.op = cmd.op /\ cmd'.pc = "link_temporary"
      /\ cmd'.i = cmd.i /\ cmd'.i \in Nat /\ cmd'.done = cmd.done
      /\ cmd'.published = cmd.published
  BY <1>1, Frame, Goes DEF SaveIdentity, At, Pcs, CmdOK, Commands
<1>3. OpAt' /\ NewAt'
  BY <1>1, <1>2 DEF CarryInv, OpAt, NewAt, Staging, Shared, Unpublished
<1> QED
  BY <1>1, <1>2, <1>3, QuietCarries DEF Replacing, Staged

LEMMA ReuseAnchorCarries ==
    ASSUME IInv, CarryInv, ReuseAnchor
    PROVE  CarryInv'
<1>1. /\ request' = request /\ NamesStay /\ live'[Source(New)] = live[Source(New)]
      /\ journal' = journal
  BY DEF ReuseAnchor, Env, disk, saved, NamesStay
<1>2. /\ cmd.op = "apply" /\ cmd.pc = "anchor" /\ cmd'.op = cmd.op /\ cmd'.pc = "link_temporary"
      /\ cmd'.i = cmd.i /\ cmd'.i \in Nat /\ cmd'.done = cmd.done
      /\ cmd'.published = cmd.published
  BY <1>1, Frame, Goes DEF ReuseAnchor, At, Pcs, CmdOK, Commands
<1>3. OpAt' /\ NewAt'
  BY <1>1, <1>2 DEF CarryInv, OpAt, NewAt, Staging, Shared, Unpublished
<1> QED
  BY <1>1, <1>2, <1>3, QuietCarries DEF Replacing, Staged

LEMMA LinkTemporaryCarries ==
    ASSUME IInv, CarryInv, LinkTemporary
    PROVE  CarryInv'
<1>1. /\ request' = request /\ NamesStay /\ journal' = journal
  <2>1. /\ request' = request /\ journal' = journal /\ New \in Files /\ New \notin Edits
        /\ Edits \subseteq Files
    BY Frame DEF LinkTemporary, Env, saved
  <2>2. \A g \in Files :
           g # New => /\ live'[Source(g)] = live[Source(g)]
                      /\ live'[Forward(g)] = live[Forward(g)]
                      /\ live'[Backward(g)] = live[Backward(g)]
    BY <2>1, PutTemp, Names DEF LinkTemporary, IInv, TypeInv, TempContent
  <2> QED
    BY <2>1, <2>2 DEF NamesStay
<1>2. /\ cmd.op = "apply" /\ cmd.pc = "link_temporary" /\ cmd'.op = cmd.op /\ cmd'.pc = "stage"
      /\ cmd'.i = 1 /\ cmd'.i \in Nat /\ cmd'.done = cmd.done
      /\ cmd'.published = cmd.published
  BY <1>1, Frame, GoesFirst DEF LinkTemporary, At, Pcs, CmdOK, Commands
<1>3. OpAt' /\ NewAt'
  BY <1>1, <1>2 DEF CarryInv, OpAt, NewAt, Staging, Shared, Unpublished
<1> QED
  BY <1>1, <1>2, <1>3, QuietCarries DEF Replacing, Staged

LEMMA StageSkipCarries ==
    ASSUME IInv, CarryInv, StageSkip
    PROVE  CarryInv'
<1>1. /\ request' = request /\ NamesStay /\ live'[Source(New)] = live[Source(New)]
      /\ journal' = journal
  BY DEF StageSkip, Env, disk, saved, NamesStay
<1>2. /\ cmd.op = "apply" /\ cmd.pc = "stage" /\ cmd'.op = cmd.op /\ cmd'.pc = "stage"
      /\ cmd'.i = cmd.i + 1 /\ cmd'.i \in Nat /\ cmd'.done = cmd.done
      /\ cmd'.published = cmd.published
  BY <1>1, Frame, GoesNext DEF StageSkip, At, Pcs, CmdOK, Commands
<1>3. OpAt' /\ NewAt'
  BY <1>1, <1>2 DEF CarryInv, OpAt, NewAt, Staging, Shared, Unpublished
<1> QED
  BY <1>1, <1>2, <1>3, QuietCarries DEF Replacing, Staged, StageSkip

\* With every temporary written, an edited file that is not replaced yet has one.
LEMMA CheckStagedCarries ==
    ASSUME IInv, CarryInv, CheckStaged
    PROVE  CarryInv'
<1>1. /\ request' = request /\ NamesStay /\ live'[Source(New)] = live[Source(New)]
      /\ journal' = journal
  BY DEF CheckStaged, Env, disk, saved, NamesStay
<1>2. PICK p \in {"published", "mark"} : Goto(p) /\ (p = "published" <=> cmd.published)
  BY DEF CheckStaged
<1>3. /\ cmd.op = "apply" /\ cmd.pc = "stage" /\ cmd'.op = cmd.op /\ cmd'.pc = p
      /\ cmd'.i = cmd.i /\ cmd'.i \in Nat /\ cmd'.done = cmd.done
      /\ cmd'.published = cmd.published
  BY <1>1, <1>2, Frame, Goes DEF CheckStaged, At, Pcs, CmdOK, Commands
<1>4. OpAt' /\ NewAt'
  <2>1. cmd.published => live[Source(New)] # "absent"
    BY <1>3 DEF IInv, ApplyAt
  <2> QED
    BY <1>1, <1>2, <1>3, <2>1 DEF CarryInv, OpAt, NewAt, Staging, Shared, Unpublished
<1>5. ASSUME NEW f \in Edits, live[Source(f)] = "before"
      PROVE  live[Forward(f)] = "full"
  <2>1. PICK j \in 1..Len(request.edits) : request.edits[j] = f
    <3>1. request.edits \in Seq(File)
      BY <1>1, Frame, EditsAreFiles
    <3> QED
      BY <3>1 DEF Edits
  <2>2. j < cmd.i
    BY <1>1, Frame DEF CheckStaged, MoreFiles
  <2>3. f \notin cmd.done
    BY <1>3, <1>5 DEF CarryInv, DoneAt
  <2> QED
    BY <1>3, <2>1, <2>2, <2>3 DEF CarryInv, TempAt
<1> QED
  BY <1>1, <1>3, <1>4, <1>5, QuietCarries DEF Replacing, Staged

LEMMA MarkPublicationCarries ==
    ASSUME IInv, CarryInv, MarkPublication
    PROVE  CarryInv'
<1>1. /\ request' = request /\ NamesStay /\ live'[Source(New)] = live[Source(New)]
      /\ journal'.attempted
  BY Saves DEF MarkPublication, Env, disk, saved, NamesStay, Save, IInv, TypeInv
<1>2. /\ cmd.op = "apply" /\ cmd.pc = "mark" /\ cmd'.op = cmd.op /\ cmd'.pc = "link"
      /\ cmd'.i = cmd.i /\ cmd'.i \in Nat /\ cmd'.done = cmd.done
      /\ cmd'.published = cmd.published
  BY <1>1, Frame, Goes DEF MarkPublication, At, Pcs, CmdOK, Commands
<1>3. OpAt' /\ NewAt'
  <2>1. live[Source(New)] # "after"
    <3>1. request.create
      BY <1>2 DEF IInv, ApplyAt, Staging, CarryInv, OpAt
    <3> QED
      BY <1>2, <3>1 DEF CarryInv, NewAt, Unpublished, IInv, CreationInv, Without
  <2> QED
    BY <1>1, <1>2, <2>1 DEF CarryInv, OpAt, NewAt, Staging, Shared, Unpublished
<1> QED
  BY <1>1, <1>2, <1>3, QuietCarries DEF Replacing, Staged

LEMMA PublishNewCarries ==
    ASSUME IInv, CarryInv, PublishNew
    PROVE  CarryInv'
<1>1. /\ request' = request /\ NamesStay /\ journal' = journal
      /\ live'[Source(New)] = "after"
  <2>1. /\ request' = request /\ journal' = journal /\ New \in Files /\ New \notin Edits
        /\ Edits \subseteq Files
    BY Frame DEF PublishNew, Env, saved
  <2>2. \A g \in Files :
           g # New => /\ live'[Source(g)] = live[Source(g)]
                      /\ live'[Forward(g)] = live[Forward(g)]
                      /\ live'[Backward(g)] = live[Backward(g)]
    BY <2>1, PutSource, Names DEF PublishNew, IInv, TypeInv, SourceContent
  <2>3. live'[Source(New)] = "after"
    BY <2>1, PutSource DEF PublishNew, IInv, TypeInv, SourceContent
  <2> QED
    BY <2>1, <2>2, <2>3 DEF NamesStay
<1>2. /\ cmd.op = "apply" /\ cmd.pc = "link" /\ cmd'.op = cmd.op /\ cmd'.pc = "published"
      /\ cmd'.i = cmd.i /\ cmd'.i \in Nat /\ cmd'.done = cmd.done
      /\ cmd'.published = cmd.published
  BY <1>1, Frame, Goes DEF PublishNew, At, Pcs, CmdOK, Commands
<1>3. OpAt' /\ NewAt'
  BY <1>1, <1>2 DEF CarryInv, OpAt, NewAt, Staging, Shared, Unpublished
<1> QED
  BY <1>1, <1>2, <1>3, QuietCarries DEF Replacing, Staged

LEMMA ConfirmPublishedCarries ==
    ASSUME IInv, CarryInv, ConfirmPublished
    PROVE  CarryInv'
<1>1. /\ request' = request /\ NamesStay /\ live'[Source(New)] = live[Source(New)]
      /\ journal' = journal
  BY DEF ConfirmPublished, Env, disk, saved, NamesStay
<1>2. PICK p \in {"clean", "sync_target"} : Goto(p)
  BY DEF ConfirmPublished
<1>3. /\ cmd.op = "apply" /\ cmd.pc = "published" /\ cmd'.op = cmd.op /\ cmd'.pc = p
      /\ cmd'.i = cmd.i /\ cmd'.i \in Nat /\ cmd'.done = cmd.done
      /\ cmd'.published = cmd.published
  BY <1>1, <1>2, Frame, Goes DEF ConfirmPublished, At, Pcs, CmdOK, Commands
<1>4. OpAt' /\ NewAt'
  BY <1>1, <1>2, <1>3 DEF CarryInv, OpAt, NewAt, Staging, Shared, Unpublished
<1> QED
  BY <1>1, <1>3, <1>4, QuietCarries DEF Replacing, Staged

LEMMA SyncTargetCarries ==
    ASSUME IInv, CarryInv, SyncTarget
    PROVE  CarryInv'
<1>1. /\ request' = request /\ NamesStay /\ live'[Source(New)] = live[Source(New)]
      /\ journal' = journal
  BY DEF SyncTarget, Env, disk, saved, NamesStay, Sync
<1>2. /\ cmd.op = "apply" /\ cmd.pc = "sync_target" /\ cmd'.op = cmd.op /\ cmd'.pc = "next"
      /\ cmd'.i = 1 /\ cmd'.i \in Nat /\ cmd'.done = cmd.done
      /\ cmd'.published = cmd.published
  BY <1>1, Frame, GoesFirst DEF SyncTarget, At, Pcs, CmdOK, Commands
<1>3. OpAt' /\ NewAt'
  BY <1>1, <1>2 DEF CarryInv, OpAt, NewAt, Staging, Shared, Unpublished
<1> QED
  BY <1>1, <1>2, <1>3, QuietCarries DEF Replacing, Staged

\* The steps of a replacement that only look.
LEMMA SkipFileCarries ==
    ASSUME IInv, CarryInv, SkipFile
    PROVE  CarryInv'
<1>1. /\ request' = request /\ NamesStay /\ live'[Source(New)] = live[Source(New)]
      /\ journal' = journal
  BY DEF SkipFile, Env, disk, saved, NamesStay
<1>2. /\ cmd.op \in {"apply", "rollback"} /\ cmd.pc = "next" /\ cmd'.op = cmd.op
      /\ cmd'.pc = "next" /\ cmd'.i = cmd.i + 1 /\ cmd'.i \in Nat /\ cmd'.done = cmd.done
      /\ cmd'.published = cmd.published
  <2>1. /\ request' = request /\ cmd.op \in {"apply", "rollback"} /\ cmd.pc = "next"
    BY <1>1, Frame DEF SkipFile, CmdOK, Idle, Commands
  <2> QED
    BY <1>1, <2>1, Frame, GoesNext DEF SkipFile, Pcs, CmdOK, Commands
<1>3. OpAt' /\ NewAt'
  BY <1>1, <1>2 DEF CarryInv, OpAt, NewAt, Staging, Shared, Unpublished
<1>4. live[Source(ThisFile)] # From
  <2>1. CASE ThisFile \in cmd.done
    BY <1>2, <2>1 DEF CarryInv, OpAt, DoneAt, From
  <2>2. CASE live[Source(ThisFile)] = To
    BY <1>2, <2>2 DEF From, To
  <2> QED
    BY <2>1, <2>2 DEF SkipFile
<1> QED
  BY <1>1, <1>2, <1>3, <1>4, QuietCarries DEF Replacing, Staged

LEMMA LastCheckCarries ==
    ASSUME IInv, CarryInv, LastCheck
    PROVE  CarryInv'
<1>1. /\ request' = request /\ NamesStay /\ live'[Source(New)] = live[Source(New)]
      /\ journal' = journal
  BY DEF LastCheck, Env, disk, saved, NamesStay
<1>2. /\ cmd.op \in {"apply", "rollback"} /\ cmd.pc \in {"next", "verify"} /\ cmd'.op = cmd.op
      /\ cmd'.pc = "replace" /\ cmd'.i = cmd.i /\ cmd'.i \in Nat /\ cmd'.done = cmd.done
      /\ cmd'.published = cmd.published
  <2>1. /\ request' = request /\ cmd.op \in {"apply", "rollback"} /\ cmd.pc \in {"next", "verify"}
    BY <1>1, Frame DEF LastCheck, CmdOK, Idle, Commands
  <2> QED
    BY <1>1, <2>1, Frame, Goes DEF LastCheck, Pcs, CmdOK, Commands
<1>3. OpAt' /\ NewAt'
  BY <1>1, <1>2 DEF CarryInv, OpAt, NewAt, Staging, Shared, Unpublished
<1>4. MoreFiles /\ live[Temp(ThisFile)] = "full"
  <2>1. CASE cmd.pc = "verify"
    BY <2>1 DEF CarryInv, TempAt, IInv, FileAt
  <2>2. CASE cmd.pc = "next"
    <3>1. MoreFiles /\ StagedAhead /\ live[Source(ThisFile)] = "before"
      BY <2>2 DEF LastCheck, StagedAhead, From
    <3> QED
      BY <1>1, <2>2, <3>1, Frame DEF CarryInv, TempAt, Staged, StagedAhead, Temp
  <2> QED
    BY <1>2, <2>1, <2>2
<1>5. StagedAhead => cmd.pc = "next"
  BY <1>2 DEF StagedAhead, IInv, ApplyAt
<1> QED
  BY <1>1, <1>2, <1>3, <1>4, <1>5, QuietCarries DEF Replacing, Staged

LEMMA ConfirmReplacedCarries ==
    ASSUME IInv, CarryInv, ConfirmReplaced
    PROVE  CarryInv'
<1>1. /\ request' = request /\ NamesStay /\ live'[Source(New)] = live[Source(New)]
      /\ journal' = journal
  BY DEF ConfirmReplaced, Env, disk, saved, NamesStay
<1>2. /\ cmd.op \in {"apply", "rollback"} /\ cmd.pc = "replaced" /\ cmd'.op = cmd.op
      /\ cmd'.pc = "next" /\ cmd'.i = cmd.i + 1 /\ cmd'.i \in Nat /\ cmd'.done = cmd.done
      /\ cmd'.published = cmd.published
  <2>1. /\ request' = request /\ cmd.op \in {"apply", "rollback"} /\ cmd.pc = "replaced"
    BY <1>1, Frame DEF ConfirmReplaced, CmdOK, Idle, Commands
  <2> QED
    BY <1>1, <2>1, Frame, GoesNext DEF ConfirmReplaced, Pcs, CmdOK, Commands, IInv, FileAt
<1>3. OpAt' /\ NewAt'
  BY <1>1, <1>2 DEF CarryInv, OpAt, NewAt, Staging, Shared, Unpublished
<1>4. live[Source(ThisFile)] # From
  BY DEF ConfirmReplaced, From, To
<1> QED
  BY <1>1, <1>2, <1>3, <1>4, QuietCarries DEF Replacing, Staged

LEMMA FinalCheckCarries ==
    ASSUME IInv, CarryInv, FinalCheck
    PROVE  CarryInv'
<1>1. /\ request' = request /\ NamesStay /\ live'[Source(New)] = live[Source(New)]
      /\ journal' = journal
  BY DEF FinalCheck, Env, disk, saved, NamesStay
<1>2. /\ cmd.op \in {"apply", "rollback"} /\ cmd.pc = "next" /\ cmd'.op = cmd.op
      /\ cmd'.pc = "clean" /\ cmd'.i = cmd.i /\ cmd'.i \in Nat /\ cmd'.done = cmd.done
      /\ cmd'.published = cmd.published
  <2>1. /\ request' = request /\ cmd.op \in {"apply", "rollback"} /\ cmd.pc = "next"
    BY <1>1, Frame DEF FinalCheck, CmdOK, Idle, Commands
  <2> QED
    BY <1>1, <2>1, Frame, Goes DEF FinalCheck, Pcs, CmdOK, Commands
<1>3. OpAt' /\ NewAt'
  BY <1>1, <1>2 DEF CarryInv, OpAt, NewAt, Staging, Shared, Unpublished
<1> QED
  BY <1>1, <1>2, <1>3, QuietCarries DEF Replacing, Staged

LEMMA SyncParentsCarries ==
    ASSUME IInv, CarryInv, SyncParents
    PROVE  CarryInv'
<1>1. /\ request' = request /\ NamesStay /\ live'[Source(New)] = live[Source(New)]
      /\ journal' = journal
  BY DEF SyncParents, Env, disk, saved, NamesStay, Sync
<1>2. /\ cmd.op \in {"apply", "rollback"} /\ cmd.pc = "sync" /\ cmd'.op = cmd.op
      /\ cmd'.pc = "acknowledge" /\ cmd'.i = cmd.i /\ cmd'.i \in Nat /\ cmd'.done = cmd.done
      /\ cmd'.published = cmd.published
  <2>1. /\ request' = request /\ cmd.op \in {"apply", "rollback"} /\ cmd.pc = "sync"
    BY <1>1, Frame DEF SyncParents, CmdOK, Idle, Commands
  <2> QED
    BY <1>1, <2>1, Frame, Goes DEF SyncParents, Pcs, CmdOK, Commands
<1>3. OpAt' /\ NewAt'
  BY <1>1, <1>2 DEF CarryInv, OpAt, NewAt, Staging, Shared, Unpublished
<1> QED
  BY <1>1, <1>2, <1>3, QuietCarries DEF Replacing, Staged

\* The steps of a rollback around its replacements.
LEMMA SaveRollbackPreparedCarries ==
    ASSUME IInv, CarryInv, SaveRollbackPrepared
    PROVE  CarryInv'
<1>1. /\ request' = request /\ NamesStay /\ live'[Source(New)] = live[Source(New)]
      /\ journal'.deletion = journal.deletion
  BY Saves DEF SaveRollbackPrepared, Env, disk, saved, NamesStay, Save, IInv, TypeInv, JournalStates
<1>2. /\ cmd.op = "rollback" /\ cmd.pc = "prepare" /\ cmd'.op = cmd.op /\ cmd'.pc = "forward"
      /\ cmd'.i = cmd.i /\ cmd'.i \in Nat /\ cmd'.done = cmd.done
      /\ cmd'.published = cmd.published
  BY <1>1, Frame, Goes DEF SaveRollbackPrepared, At, Pcs, CmdOK, Commands
<1>3. OpAt' /\ NewAt'
  BY <1>1, <1>2 DEF CarryInv, OpAt, NewAt, Staging, Shared, Unpublished
<1> QED
  BY <1>1, <1>2, <1>3, QuietCarries DEF Replacing, Staged

LEMMA SyncSourcesCarries ==
    ASSUME IInv, CarryInv, SyncSources
    PROVE  CarryInv'
<1>1. /\ request' = request /\ NamesStay /\ live'[Source(New)] = live[Source(New)]
      /\ journal' = journal
  BY DEF SyncSources, Env, saved, Sync, NamesStay
<1>2. PICK p \in {"disposed", "mark_deletion"} : Goto(p)
  BY DEF SyncSources
<1>3. /\ cmd.op = "rollback" /\ cmd.pc = "sync_sources" /\ cmd'.op = cmd.op /\ cmd'.pc = p
      /\ cmd'.i = cmd.i /\ cmd'.i \in Nat /\ cmd'.done = cmd.done
      /\ cmd'.published = cmd.published
  BY <1>1, <1>2, Frame, Goes DEF SyncSources, At, Pcs, CmdOK, Commands
<1>4. OpAt' /\ NewAt'
  BY <1>1, <1>2, <1>3 DEF CarryInv, OpAt, NewAt, Staging, Shared, Unpublished
<1> QED
  BY <1>1, <1>3, <1>4, QuietCarries DEF Replacing, Staged, StagedAhead

LEMMA MarkDeletionCarries ==
    ASSUME IInv, CarryInv, MarkDeletion
    PROVE  CarryInv'
<1>1. /\ request' = request /\ NamesStay /\ live'[Source(New)] = live[Source(New)]
      /\ journal'.attempted = journal.attempted
  BY Saves DEF MarkDeletion, Env, disk, saved, NamesStay, Save, IInv, TypeInv
<1>2. /\ cmd.op = "rollback" /\ cmd.pc = "mark_deletion" /\ cmd'.op = cmd.op /\ cmd'.pc = "dispose"
      /\ cmd'.i = cmd.i /\ cmd'.i \in Nat /\ cmd'.done = cmd.done
      /\ cmd'.published = cmd.published
  BY <1>1, Frame, Goes DEF MarkDeletion, At, Pcs, CmdOK, Commands
<1>3. OpAt' /\ NewAt'
  BY <1>1, <1>2 DEF CarryInv, OpAt, NewAt, Staging, Shared, Unpublished
<1> QED
  BY <1>1, <1>2, <1>3, QuietCarries DEF Replacing, Staged

LEMMA DisposeCarries ==
    ASSUME IInv, CarryInv, Dispose
    PROVE  CarryInv'
<1>1. /\ request' = request /\ NamesStay /\ journal' = journal
      /\ live'[Source(New)] = "absent"
  <2>1. /\ request' = request /\ journal' = journal /\ New \in Files /\ New \notin Edits
        /\ Edits \subseteq Files
    BY Frame DEF Dispose, Env, saved
  <2>2. \A g \in Files :
           g # New => /\ live'[Source(g)] = live[Source(g)]
                      /\ live'[Forward(g)] = live[Forward(g)]
                      /\ live'[Backward(g)] = live[Backward(g)]
    BY <2>1, PutSource, Names DEF Dispose, IInv, TypeInv, SourceContent
  <2>3. live'[Source(New)] = "absent"
    BY <2>1, PutSource DEF Dispose, IInv, TypeInv, SourceContent
  <2> QED
    BY <2>1, <2>2, <2>3 DEF NamesStay
<1>2. /\ cmd.op = "rollback" /\ cmd.pc = "dispose" /\ cmd'.op = cmd.op /\ cmd'.pc = "disposed"
      /\ cmd'.i = cmd.i /\ cmd'.i \in Nat /\ cmd'.done = cmd.done
      /\ cmd'.published = cmd.published
  BY <1>1, Frame, Goes DEF Dispose, At, Pcs, CmdOK, Commands
<1>3. OpAt' /\ NewAt'
  BY <1>1, <1>2 DEF CarryInv, OpAt, NewAt, Staging, Shared, Unpublished
<1> QED
  BY <1>1, <1>2, <1>3, QuietCarries DEF Replacing, Staged

LEMMA ConfirmDisposedCarries ==
    ASSUME IInv, CarryInv, ConfirmDisposed
    PROVE  CarryInv'
<1>1. /\ request' = request /\ NamesStay /\ live'[Source(New)] = live[Source(New)]
      /\ journal' = journal
  BY DEF ConfirmDisposed, Env, disk, saved, NamesStay
<1>2. /\ cmd.op = "rollback" /\ cmd.pc = "disposed" /\ cmd'.op = cmd.op /\ cmd'.pc = "sync"
      /\ cmd'.i = cmd.i /\ cmd'.i \in Nat /\ cmd'.done = cmd.done
      /\ cmd'.published = cmd.published
  BY <1>1, Frame, Goes DEF ConfirmDisposed, At, Pcs, CmdOK, Commands
<1>3. OpAt' /\ NewAt'
  BY <1>1, <1>2 DEF CarryInv, OpAt, NewAt, Staging, Shared, Unpublished
<1> QED
  BY <1>1, <1>2, <1>3, QuietCarries DEF Replacing, Staged

\* The command begins: its first checks find no torn temporary, and New published
\* exactly when its publication was attempted.
LEMMA BeginApplyCarries ==
    ASSUME IInv, CarryInv, BeginApply
    PROVE  CarryInv'
<1>1. request' = request /\ live' = live /\ journal' = journal /\ Edits' = Edits
  BY DEF BeginApply, Env, disk, saved, Edits
<1>2. /\ cmd'.op = "apply" /\ cmd'.i = 1 /\ cmd'.done = {}
      /\ cmd'.pc = (IF journal.state = "none" THEN "backup" ELSE "classify")
      /\ cmd'.published = (request.create /\ Published)
  BY DEF BeginApply, Idle
<1>3. \A f \in Edits : live[Forward(f)] # "torn" /\ live[Backward(f)] # "torn"
  BY DEF BeginApply, CanApply, NoTornTemp, IInv, BatchInv, Clear
<1>4. request.create =>
        /\ journal.state = "none" => ~journal.attempted
        /\ journal.attempted => Published
        /\ journal.state = "applied" => journal.attempted
  BY DEF BeginApply, CanApply, CanCreate, IInv, BatchInv, CreationInv
<1>5. OpAt' /\ TornAt' /\ NewAt'
  BY <1>1, <1>2, <1>3, <1>4, NothingTornNext DEF OpAt, NewAt, Unpublished
<1>6. DoneAt' /\ TempAt'
  BY <1>1, <1>2 DEF DoneAt, TempAt, Replacing, Staged
<1> QED
  BY <1>5, <1>6 DEF CarryInv

LEMMA BeginRollbackCarries ==
    ASSUME IInv, CarryInv, BeginRollback
    PROVE  CarryInv'
<1>1. request' = request /\ live' = live /\ journal' = journal /\ Edits' = Edits
  BY DEF BeginRollback, Env, disk, saved, Edits
<1>2. /\ cmd'.op = "rollback" /\ cmd'.i = 1 /\ cmd'.done = {}
      /\ cmd'.pc \in {"sync", "forward", "prepare"}
  BY DEF BeginRollback, Idle
<1>3. \A f \in Edits : live[Forward(f)] # "torn" /\ live[Backward(f)] # "torn"
  <2>1. \A f \in Edits : live[Backward(f)] # "torn"
    BY DEF BeginRollback, CanRollBack, RollbackTempsOK
  <2>2. \A f \in Edits : live[Forward(f)] # "torn"
    BY DEF BeginRollback, CanRollBack, CanRollBackExisting, CanRollBackCreation
  <2> QED
    BY <2>1, <2>2
<1>4. journal.deletion => live[Source(New)] # "after"
  <2>1. journal.deletion => request.create
    BY DEF IInv, CreationInv
  <2> QED
    BY <2>1 DEF BeginRollback, CanRollBack, CanRollBackCreation, Present
<1>5. OpAt' /\ TornAt' /\ NewAt'
  BY <1>1, <1>2, <1>3, <1>4, NothingTornNext DEF OpAt, NewAt, Shared
<1>6. DoneAt' /\ TempAt'
  BY <1>1, <1>2 DEF DoneAt, TempAt, Replacing, StagedAhead
<1> QED
  BY <1>5, <1>6 DEF CarryInv

\* The files that hold the candidate already are remembered.
LEMMA ClassifyCarries ==
    ASSUME IInv, CarryInv, Classify
    PROVE  CarryInv'
<1>1. request' = request /\ live' = live /\ journal' = journal /\ Edits' = Edits
  BY DEF Classify, Env, disk, saved, Edits
<1>2. cmd.op = "apply" /\ cmd.pc = "classify" /\ NoTornTemp
  BY NothingTorn DEF Classify, At, CarryInv
<1>3. PICK p \in {"clean", "next", "anchor", "stage"} :
        cmd' = [cmd EXCEPT !.i = 1, !.done = {f \in Edits : live[Source(f)] = "after"}, !.pc = p]
  BY DEF Classify
<1>4. /\ cmd'.op = "apply" /\ cmd'.pc = p /\ cmd'.i = 1
      /\ cmd'.done = {f \in Edits : live[Source(f)] = "after"}
      /\ cmd'.published = cmd.published
  BY <1>1, <1>2, <1>3, Frame DEF CmdOK, Commands
<1>5. p = "next" => ~request.create
  <2>1. p = cmd'.pc
    BY <1>4
  <2>2. cmd'.pc = "next" => ~request.create
    BY <1>1, Frame DEF Classify, CmdOK, Commands
  <2> QED
    BY <2>1, <2>2
<1>6. OpAt' /\ TornAt' /\ NewAt'
  BY <1>1, <1>2, <1>4, NothingTornNext
  DEF CarryInv, OpAt, NewAt, NoTornTemp, Staging, Shared, Unpublished
<1>7. DoneAt' /\ TempAt'
  BY <1>1, <1>4, <1>5 DEF DoneAt, TempAt, Replacing, Staged, StagedAhead
<1> QED
  BY <1>6, <1>7 DEF CarryInv

\* The command opens a temporary: the only torn one is its own.
LEMMA StageOpenCarries ==
    ASSUME IInv, CarryInv, StageOpen
    PROVE  CarryInv'
<1>1. /\ request' = request /\ journal' = journal /\ cmd.op = "apply" /\ cmd.pc = "stage"
      /\ NoTornTemp
  BY NothingTorn DEF StageOpen, At, Env, saved, CarryInv
<1>2. PICK f \in Edits : f = ThisFile
  BY <1>1, Frame DEF StageOpen
<1>3. /\ cmd'.op = "apply" /\ cmd'.pc = "stage_write" /\ cmd'.i = cmd.i
      /\ cmd'.done = cmd.done /\ cmd'.published = cmd.published
  BY <1>1, Frame, Goes DEF StageOpen, Pcs
<1>4. \A g \in Edits : /\ live'[Source(g)] = live[Source(g)]
                       /\ live'[Forward(g)] = (IF f = g THEN "torn" ELSE live[Forward(g)])
                       /\ live'[Backward(g)] = live[Backward(g)]
  BY <1>1, <1>2, Frame, PutTemp, Names DEF StageOpen, IInv, TypeInv, TempContent
<1>5. ThisFile' = f /\ Edits' = Edits /\ cmd.done \subseteq Edits
  BY <1>1, <1>2, <1>3, Frame DEF ThisFile, CmdOK, Commands
<1>6. OpAt' /\ NewAt'
  BY <1>1, <1>3 DEF CarryInv, OpAt, NewAt, Staging, Unpublished
<1>7. TornAt'
  BY <1>1, <1>3, <1>4, <1>5 DEF TornAt, NoTornTemp
<1>8. DoneAt'
  BY <1>1, <1>3, <1>4, <1>5 DEF CarryInv, DoneAt, Replacing
<1>9. TempAt'
  <2>1. ASSUME NEW j \in 1..Len(request.edits), j < cmd.i
        PROVE  \/ request.edits[j] \in cmd.done
               \/ live'[Forward(request.edits[j])] = "full"
    <3>1. request.edits[j] \in Edits /\ request.edits[j] # f
      BY <1>1, <1>2, <2>1, Frame, EditsAreFiles, OneEditPerFile DEF ThisFile, StageOpen, MoreFiles
    <3> QED
      BY <1>1, <1>4, <2>1, <3>1 DEF CarryInv, TempAt
  <2> QED
    BY <1>1, <1>3, <2>1 DEF TempAt, Staged
<1> QED
  BY <1>6, <1>7, <1>8, <1>9 DEF CarryInv

LEMMA StageWriteCarries ==
    ASSUME IInv, CarryInv, StageWrite
    PROVE  CarryInv'
<1>1. /\ request' = request /\ journal' = journal /\ cmd.op = "apply"
      /\ cmd.pc = "stage_write" /\ MoreFiles
  BY DEF StageWrite, At, Env, saved, IInv, FileAt
<1>2. PICK f \in Edits : f = ThisFile
  BY <1>1, Frame
<1>3. /\ cmd'.op = "apply" /\ cmd'.pc = "stage" /\ cmd'.i = cmd.i + 1
      /\ cmd'.done = cmd.done /\ cmd'.published = cmd.published
  BY <1>1, Frame, GoesNext DEF StageWrite, Pcs
<1>4. \A g \in Edits : /\ live'[Source(g)] = live[Source(g)]
                       /\ live'[Forward(g)] = (IF f = g THEN "full" ELSE live[Forward(g)])
                       /\ live'[Backward(g)] = live[Backward(g)]
  BY <1>1, <1>2, Frame, PutTemp, Names DEF StageWrite, IInv, TypeInv, TempContent
<1>5. Edits' = Edits /\ cmd.done \subseteq Edits
  BY <1>1, Frame DEF CmdOK, Commands
<1>6. OpAt' /\ NewAt'
  BY <1>1, <1>3 DEF CarryInv, OpAt, NewAt, Staging, Unpublished
<1>7. TornAt'
  BY <1>1, <1>2, <1>4, <1>5, NothingTornNext DEF CarryInv, TornAt
<1>8. DoneAt'
  BY <1>1, <1>3, <1>4, <1>5 DEF CarryInv, DoneAt, Replacing
<1>9. TempAt'
  <2>1. ASSUME NEW j \in 1..Len(request.edits), j < cmd.i + 1
        PROVE  \/ request.edits[j] \in cmd.done
               \/ live'[Forward(request.edits[j])] = "full"
    <3>1. request.edits[j] \in Edits /\ (j < cmd.i \/ request.edits[j] = f)
      BY <1>1, <1>2, <2>1, Frame, EditsAreFiles DEF ThisFile
    <3> QED
      BY <1>1, <1>4, <2>1, <3>1 DEF CarryInv, TempAt
  <2> QED
    BY <1>1, <1>3, <2>1 DEF TempAt, Staged
<1> QED
  BY <1>6, <1>7, <1>8, <1>9 DEF CarryInv

\* A file at a time: its temporary is opened and written while its source waits.
LEMMA TempCarries ==
    ASSUME IInv, CarryInv, OpenTemp \/ WriteTemp
    PROVE  CarryInv'
<1>1. /\ request' = request /\ journal' = journal /\ cmd.op \in {"apply", "rollback"}
      /\ cmd.pc \in {"next", "write"} /\ MoreFiles
  <2>1. request' = request /\ journal' = journal /\ cmd.pc \in {"next", "write"} /\ MoreFiles
    BY DEF OpenTemp, WriteTemp, Env, saved, IInv, FileAt
  <2> QED
    BY <2>1, Frame DEF CmdOK, Idle, Commands
<1>2. PICK f \in Edits : f = ThisFile
  BY <1>1, Frame
<1>3. PICK p \in {"write", "verify"}, x \in {"torn", "full"} :
         /\ Put(Temp(f), x) /\ Goto(p) /\ (x = "torn" <=> p = "write")
         /\ p = "verify" <=> cmd.pc = "write"
  BY <1>2 DEF OpenTemp, WriteTemp
<1>4. /\ cmd'.op = cmd.op /\ cmd'.pc = p /\ cmd'.i = cmd.i
      /\ cmd'.done = cmd.done /\ cmd'.published = cmd.published
  BY <1>1, <1>3, Frame, Goes DEF Pcs
<1>5. /\ \A g \in Edits :
           /\ live'[Source(g)] = live[Source(g)]
           /\ live'[Forward(g)] =
                (IF cmd.op = "apply" /\ f = g THEN x ELSE live[Forward(g)])
           /\ live'[Backward(g)] =
                (IF cmd.op = "rollback" /\ f = g THEN x ELSE live[Backward(g)])
      /\ live'[Source(New)] = live[Source(New)]
  BY <1>1, <1>3, Frame, TempWritten DEF TempContent
<1>6. /\ ThisFile' = f /\ Edits' = Edits /\ cmd.done \subseteq Edits
      /\ \A j \in 1..Len(request.edits) : request.edits[j] \in Edits
  BY <1>1, <1>2, <1>4, Frame, EditsAreFiles DEF ThisFile, CmdOK, Commands
<1>7. /\ From' = From /\ To' = To /\ From # To /\ ~StagedAhead' /\ Temp(f)' = Temp(f)
      /\ Temp(f) = IF cmd.op = "apply" THEN Forward(f) ELSE Backward(f)
  <2>1. ~StagedAhead
    BY <1>1 DEF OpenTemp, WriteTemp, StagedAhead, IInv, ApplyAt
  <2> QED
    BY <1>1, <1>4, <2>1, Directions, Temps
<1>8. OpAt' /\ NewAt'
  BY <1>1, <1>4, <1>5 DEF CarryInv, OpAt, NewAt, Shared, Unpublished
<1>9. TornAt'
  <2>1. ASSUME NEW g \in Edits, g # f
        PROVE  live[Forward(g)] # "torn" /\ live[Backward(g)] # "torn"
    BY <1>1, <1>2, <2>1 DEF CarryInv, TornAt
  <2>2. IF cmd.op = "apply" THEN live[Backward(f)] # "torn" ELSE live[Forward(f)] # "torn"
    BY <1>1 DEF CarryInv, TornAt
  <2> QED
    BY <1>1, <1>3, <1>4, <1>5, <1>6, <2>1, <2>2 DEF TornAt
<1>10. DoneAt'
  <2>1. live[Source(f)] # To
    BY <1>1, <1>2, <1>7 DEF OpenTemp, WriteTemp, CarryInv, DoneAt
  <2> QED
    BY <1>1, <1>4, <1>5, <1>6, <1>7, <2>1 DEF CarryInv, DoneAt, Replacing
<1>11. TempAt'
  BY <1>1, <1>3, <1>4, <1>5, <1>6, <1>7 DEF TempAt
<1> QED
  BY <1>8, <1>9, <1>10, <1>11 DEF CarryInv

LEMMA ReplaceCarries ==
    ASSUME IInv, CarryInv, Replace
    PROVE  CarryInv'
<1>1. /\ request' = request /\ journal' = journal /\ cmd.op \in {"apply", "rollback"}
      /\ cmd.pc = "replace" /\ NoTornTemp
  BY SourceReplaced, NothingTorn DEF Replace, saved, CarryInv
<1>2. PICK f \in Edits : f = ThisFile
  BY SourceReplaced
<1>3. /\ cmd'.op = cmd.op /\ cmd'.pc = "replaced" /\ cmd'.i = cmd.i
      /\ cmd'.done = cmd.done /\ cmd'.published = cmd.published
  BY <1>1, Frame, Goes DEF Replace, Pcs
<1>4. /\ \A g \in Edits :
           /\ live'[Source(g)] = (IF f = g THEN To ELSE live[Source(g)])
           /\ live'[Forward(g)] =
                (IF cmd.op = "apply" /\ f = g THEN "absent" ELSE live[Forward(g)])
           /\ live'[Backward(g)] =
                (IF cmd.op = "rollback" /\ f = g THEN "absent" ELSE live[Backward(g)])
      /\ live'[Source(New)] = live[Source(New)]
  BY <1>1, <1>2, Frame, SourceReplaced
<1>5. /\ ThisFile' = f /\ Edits' = Edits /\ cmd.done \subseteq Edits
      /\ \A j \in 1..Len(request.edits) : request.edits[j] \in Edits
  BY <1>1, <1>2, <1>3, Frame, EditsAreFiles DEF ThisFile, CmdOK, Commands
<1>6. From' = From /\ To' = To /\ From # To /\ StagedAhead' = StagedAhead
  BY <1>1, <1>3, Directions
<1>7. OpAt' /\ NewAt'
  BY <1>1, <1>3, <1>4 DEF CarryInv, OpAt, NewAt, Shared, Unpublished
<1>8. TornAt'
  BY <1>1, <1>4, <1>5, NothingTornNext DEF NoTornTemp
<1>9. DoneAt'
  <2>1. cmd'.op = "apply" => \A g \in cmd'.done : live'[Source(g)] # "before"
    BY <1>3, <1>4, <1>5 DEF CarryInv, DoneAt, To
  <2> QED
    BY <1>1, <1>3, <1>4, <1>5, <1>6, <2>1 DEF CarryInv, DoneAt, Replacing
<1>10. TempAt'
  <2>1. ASSUME StagedAhead, NEW g \in Edits, live'[Source(g)] = "before"
        PROVE  live'[Forward(g)] = "full"
    <3>1. g # f /\ live[Source(g)] = "before"
      BY <1>4, <2>1 DEF StagedAhead, To
    <3> QED
      BY <1>1, <1>4, <2>1, <3>1 DEF CarryInv, TempAt, Staged
  <2> QED
    BY <1>3, <1>5, <1>6, <2>1 DEF TempAt
<1> QED
  BY <1>7, <1>8, <1>9, <1>10 DEF CarryInv

\* Removing temporaries leaves none torn.
LEMMA RemovingCarries ==
    ASSUME IInv, CarryInv, RemoveTemps \/ RemoveForward
    PROVE  CarryInv'
<1>1. /\ request' = request /\ journal' = journal /\ cmd.op \in {"apply", "rollback"}
      /\ NoTornTemp
  <2>1. request' = request /\ journal' = journal /\ cmd.pc \in {"clean", "forward"} /\ NoTornTemp
    BY DEF RemoveTemps, RemoveForward, At, Env, saved
  <2> QED
    BY <2>1, Frame DEF CmdOK, Idle, Commands
<1>2. PICK names : Remove(names) /\ \A g \in Files : Source(g) \notin names
  <2>1. CASE RemoveForward
    BY <1>1, <2>1, Frame, Names DEF RemoveForward
  <2>2. CASE RemoveTemps /\ cmd.op = "apply"
    BY <1>1, <2>2, Frame, Names DEF RemoveTemps
  <2>3. CASE RemoveTemps /\ cmd.op # "apply"
    BY <1>1, <2>3, Frame, Names DEF RemoveTemps
  <2> QED
    BY <2>1, <2>2, <2>3
<1>3. \A g \in Files : /\ live'[Source(g)] = live[Source(g)]
                       /\ live'[Forward(g)] \in {"absent", live[Forward(g)]}
                       /\ live'[Backward(g)] \in {"absent", live[Backward(g)]}
  BY <1>2, Removes DEF IInv, TypeInv
<1>4. TornAt'
  BY <1>1, <1>3, Frame, NothingTornNext DEF NoTornTemp
<1>5. CASE RemoveTemps
  <2>1. PICK p \in {"sync", "sync_sources"} :
           Goto(p) /\ (p = "sync_sources" => cmd.op = "rollback")
    BY <1>1, <1>5 DEF RemoveTemps
  <2>2. /\ cmd'.op = cmd.op /\ cmd'.pc = p /\ cmd'.done = cmd.done
        /\ cmd.pc = "clean" /\ cmd.done \subseteq Edits
    BY <1>1, <1>5, <2>1, Frame, Goes DEF Pcs, RemoveTemps, CmdOK, Commands
  <2>3. OpAt' /\ NewAt' /\ DoneAt' /\ TempAt'
    BY <1>1, <1>3, <2>1, <2>2, Frame
    DEF CarryInv, OpAt, NewAt, DoneAt, TempAt, Shared, Replacing, Staged, Unpublished
  <2> QED
    BY <1>4, <2>3 DEF CarryInv
<1>6. CASE RemoveForward
  <2>1. /\ cmd'.op = cmd.op /\ cmd'.pc = "next" /\ cmd'.done = cmd.done
        /\ cmd.op = "rollback" /\ cmd.pc = "forward"
        /\ cmd'.i = 1 \/ journal.deletion
    BY <1>1, <1>6, Frame DEF RemoveForward, At, CmdOK, Commands
  <2>2. OpAt' /\ NewAt' /\ TempAt'
    BY <1>1, <1>3, <2>1, Frame
    DEF CarryInv, OpAt, NewAt, TempAt, Shared, Staged, StagedAhead
  <2>3. DoneAt'
    <3>1. From' = "after"
      BY <2>1 DEF From
    <3>2. \A j \in 1..Len(request.edits) : request.edits[j] \in Edits
      BY <1>1, Frame, EditsAreFiles
    <3>3. journal.deletion => \A f \in Edits : live[Source(f)] # "after"
      BY DEF IInv, CreationInv, Without
    <3> QED
      BY <1>1, <1>3, <2>1, <3>1, <3>2, <3>3, Frame DEF DoneAt
  <2> QED
    BY <1>4, <2>2, <2>3 DEF CarryInv
<1> QED
  BY <1>5, <1>6

\* The user puts "other" at a name, or takes New away: nothing a command counts on
\* can be true by that.
LEMMA UserCarries ==
    ASSUME IInv, CarryInv, User
    PROVE  CarryInv'
<1>1. request' = request /\ journal' = journal /\ cmd' = cmd
  BY DEF User, UserEdits, UserTouchesTarget, UserTouchesElsewhere, saved
<1>2. \A g \in Files : /\ live'[Source(g)] \in {live[Source(g)], "other", "deleted"}
                       /\ live'[Forward(g)] = live[Forward(g)]
                       /\ live'[Backward(g)] = live[Backward(g)]
  <2>1. ASSUME NEW f \in Files, NEW x \in {"other", "deleted"}, f # New => x = "other",
               Put(Source(f), x)
        PROVE  \A g \in Files : /\ live'[Source(g)] \in {live[Source(g)], "other", "deleted"}
                                /\ live'[Forward(g)] = live[Forward(g)]
                                /\ live'[Backward(g)] = live[Backward(g)]
    BY <2>1, PutSource DEF IInv, TypeInv, SourceContent
  <2>2. CASE UserTouchesElsewhere
    BY <2>2 DEF UserTouchesElsewhere, disk
  <2>3. CASE UserTouchesTarget
    <3>1. PICK x \in {"other", "deleted"} : Put(Source(New), x)
      BY <2>3 DEF UserTouchesTarget
    <3> QED
      BY <1>1, <2>1, <3>1, Frame
  <2>4. CASE \E f \in Edits : UserEdits(f)
    BY <1>1, <2>1, <2>4, Frame DEF UserEdits
  <2> QED
    BY <2>2, <2>3, <2>4 DEF User
<1>3. /\ Edits' = Edits /\ ThisFile' = ThisFile /\ cmd.done \subseteq Edits
      /\ From' = From /\ To' = To /\ StagedAhead' = StagedAhead
      /\ \A f : Temp(f)' = Temp(f)
      /\ {From, To} = {"before", "after"}
      /\ \A j \in 1..Len(request.edits) : request.edits[j] \in Edits
      /\ Edits \subseteq Files /\ New \in Files
      /\ MoreFiles => ThisFile \in Edits
  BY <1>1, Frame, Directions, EditsAreFiles DEF ThisFile, CmdOK, Commands, From, To
<1>4. OpAt' /\ TornAt' /\ NewAt'
  BY <1>1, <1>2, <1>3 DEF CarryInv, OpAt, TornAt, NewAt
<1>5. DoneAt'
  <2>1. \A f \in Edits : /\ live[Source(f)] # From => live'[Source(f)] # From
                         /\ live[Source(f)] # To => live'[Source(f)] # To
                         /\ live[Source(f)] # "before" => live'[Source(f)] # "before"
    BY <1>2, <1>3
  <2>2. cmd.pc \in {"replaced", "write", "verify"} => ThisFile \in Edits
    BY <1>3 DEF IInv, FileAt
  <2> QED
    BY <1>1, <1>3, <2>1, <2>2 DEF CarryInv, DoneAt
<1>6. TempAt'
  <2>1. \A f \in Edits : /\ live'[Temp(f)] = live[Temp(f)]
                         /\ live'[Source(f)] = "before" => live[Source(f)] = "before"
                         /\ live'[Forward(f)] = live[Forward(f)]
    BY <1>2, <1>3 DEF Temp
  <2>2. cmd.pc \in {"replace", "verify"} => ThisFile \in Edits
    BY <1>3 DEF IInv, FileAt
  <2> QED
    BY <1>1, <1>3, <2>1, <2>2 DEF CarryInv, TempAt
<1> QED
  BY <1>4, <1>5, <1>6 DEF CarryInv

LEMMA NextCarries ==
    ASSUME IInv, CarryInv, [Next]_vars
    PROVE  CarryInv'
<1>1. CASE Apply
  BY <1>1, BeginApplyCarries, WriteBackupCarries, SavePreparedCarries, ClassifyCarries,
     WriteAnchorCarries, SaveIdentityCarries, ReuseAnchorCarries, LinkTemporaryCarries,
     StageSkipCarries, StageOpenCarries, StageWriteCarries, CheckStagedCarries,
     MarkPublicationCarries, PublishNewCarries, ConfirmPublishedCarries, SyncTargetCarries
     DEF Apply
<1>2. CASE ReplaceFiles
  BY <1>2, SkipFileCarries, TempCarries, LastCheckCarries, ReplaceCarries,
     ConfirmReplacedCarries, FinalCheckCarries, RemovingCarries, SyncParentsCarries,
     IdleCarries DEF ReplaceFiles, Acknowledge
<1>3. CASE Rollback
  BY <1>3, BeginRollbackCarries, SaveRollbackPreparedCarries, RemovingCarries,
     SyncSourcesCarries, MarkDeletionCarries, DisposeCarries, ConfirmDisposedCarries
     DEF Rollback
<1>4. CASE Stop \/ PowerLoss
  BY <1>4, IdleCarries DEF Stop, PowerLoss
<1>5. CASE User
  BY <1>5, UserCarries
<1>6. CASE UNCHANGED vars
  <2>1. /\ request' = request /\ live' = live /\ journal' = journal /\ cmd' = cmd
        /\ Edits' = Edits
    BY <1>6 DEF vars, Edits
  <2>2. ThisFile' = ThisFile /\ From' = From /\ To' = To /\ StagedAhead' = StagedAhead
        /\ \A f : Temp(f)' = Temp(f)
    BY <2>1, Directions DEF ThisFile
  <2> QED
    BY <2>1, <2>2 DEF CarryInv, OpAt, TornAt, NewAt, DoneAt, TempAt
<1> QED
  BY <1>1, <1>2, <1>3, <1>4, <1>5, <1>6 DEF Next, Command

LEMMA SpecCarries == Spec => [](IInv /\ CarryInv)
<1>1. Init => CarryInv
  <2> SUFFICES ASSUME Init PROVE CarryInv
    OBVIOUS
  <2>1. cmd.op = "none" /\ cmd.pc = "idle" /\ cmd.done = {}
    BY DEF Init, Idle
  <2>2. OpAt /\ TornAt /\ NewAt
    BY <2>1 DEF OpAt, TornAt, NewAt
  <2>3. DoneAt /\ TempAt
    BY <2>1 DEF DoneAt, TempAt, StagedAhead, Replacing
  <2> QED
    BY <2>2, <2>3 DEF CarryInv
<1>2. IInv /\ CarryInv /\ [Next]_vars => CarryInv'
  BY NextCarries
<1> QED
  BY <1>1, <1>2, SpecIInv, PTL DEF Spec

\* What the steps of the run left true is what the guard of the next one asks.
LEMMA CarriesOn ==
    ASSUME IInv, CarryInv, LeftAlone
    PROVE  StepAhead
<1>1. /\ cmd.op \in {"apply", "rollback"} /\ clean /\ Classified
      /\ \A f \in Edits : live[Source(f)] \in {"before", "after"}
      /\ live[Source(New)] \in {"after", "absent"}
      /\ Present <=> Published
      /\ Edits \subseteq Files /\ request \in Requests /\ Len(request.edits) \in Nat
      /\ cmd.i \in Nat
      /\ MoreFiles => ThisFile \in Edits
      /\ From # To /\ {From, To} = {"before", "after"}
      /\ \A j \in 1..Len(request.edits) : request.edits[j] \in Edits
  <2>1. /\ cmd.op \in {"apply", "rollback"} /\ Edits \subseteq Files /\ request \in Requests
        /\ Len(request.edits) \in Nat /\ cmd.i \in Nat
        /\ MoreFiles => ThisFile \in Edits
        /\ \A j \in 1..Len(request.edits) : request.edits[j] \in Edits
    BY EditsAreFiles DEF LeftAlone, IInv, TypeInv, CmdOK, Commands
  <2>2. /\ clean /\ Classified /\ live[Source(New)] \in {"after", "absent"}
        /\ \A f \in Edits : live[Source(f)] \in {"before", "after"}
    BY DEF LeftAlone, Undisturbed, Classified, IInv, TypeInv, ViewOK, SourceContent
  <2> QED
    BY <2>1, <2>2 DEF Present, Published, From, To
<1>2. cmd.pc \notin {"write", "stage_write"} => NoTornTemp
  BY <1>1, NothingTorn DEF CarryInv
<1>3. CASE cmd.pc = "classify"
  <2>1. cmd.op = "apply"
    BY <1>1, <1>3 DEF CarryInv, OpAt, Shared
  <2>2. journal.state = "applied" => All("after")
    BY <1>1 DEF IInv, BatchInv, Without, All
  <2> QED
    BY <1>1, <1>3, <2>1, <2>2 DEF StepAhead, CarryInv, NewAt
<1>4. CASE cmd.pc = "anchor"
  <2>1. ~journal.identity => ~journal.attempted /\ ~anchor /\ live[Forward(New)] = "absent"
    BY <1>4 DEF LeftAlone, IInv, CreationInv, Clear
  <2>2. journal.identity => anchor
    BY DEF IInv, CreationInv
  <2> QED
    BY <1>4, <2>1, <2>2 DEF StepAhead
<1>5. CASE cmd.pc = "stage"
  <2>1. cmd.op = "apply" /\ request.create
    BY <1>1, <1>5 DEF CarryInv, OpAt, Shared, IInv, ApplyAt, Staging
  <2>2. cmd.published \/ ~Present
    BY <1>1, <1>5, <2>1 DEF CarryInv, NewAt, Unpublished, IInv, CreationInv, Without, Present
  <2>3. MoreFiles => live[Forward(ThisFile)] # "torn"
    BY <1>1, <1>2, <1>5 DEF NoTornTemp
  <2> QED
    BY <1>1, <1>2, <1>5, <2>2, <2>3 DEF StepAhead
<1>6. CASE cmd.pc \in {"link", "published"}
  <2>1. cmd.op = "apply" /\ request.create
    BY <1>1, <1>6 DEF CarryInv, OpAt, Shared, IInv, ApplyAt, Staging
  <2> QED
    BY <1>1, <1>6, <2>1 DEF StepAhead, CarryInv, NewAt, Present, Published
<1>7. CASE cmd.pc = "next"
  <2>1. StagedAhead => Published
    BY <1>1, <1>7 DEF StagedAhead, IInv, ApplyAt, Without, Published
  <2>2. Checked
    BY <1>1, <1>2, <1>7, <2>1 DEF Checked
  <2>3. MoreFiles => live[Source(ThisFile)] \in {From, To}
    BY <1>1
  <2>4. ASSUME ~MoreFiles, NEW f \in Edits
        PROVE  live[Source(f)] = To
    <3>1. PICK j \in 1..Len(request.edits) : request.edits[j] = f
      <4>1. request.edits \in Seq(File)
        BY <1>1, EditsAreFiles
      <4> QED
        BY <4>1 DEF Edits
    <3>2. live[Source(f)] # From
      BY <1>1, <1>7, <2>4, <3>1 DEF CarryInv, DoneAt, Replacing, MoreFiles
    <3> QED
      BY <1>1, <3>2
  <2> QED
    BY <1>1, <1>2, <1>7, <2>1, <2>2, <2>3, <2>4 DEF StepAhead, All
<1>8. CASE cmd.pc \in {"verify", "replace", "replaced"}
  <2>1. ThisFile \in Edits
    BY <1>1, <1>8 DEF IInv, FileAt
  <2>2. cmd.pc = "verify" => live[Source(ThisFile)] = From
    BY <1>1, <2>1 DEF CarryInv, DoneAt
  <2>3. cmd.pc = "replaced" => live[Source(ThisFile)] = To
    BY <1>1, <2>1 DEF CarryInv, DoneAt
  <2>4. cmd.pc = "replace" => live[Temp(ThisFile)] = "full"
    BY DEF CarryInv, TempAt
  <2> QED
    BY <1>1, <1>2, <1>8, <2>2, <2>3, <2>4 DEF StepAhead
<1>9. CASE cmd.pc \in {"clean", "forward"}
  BY <1>2, <1>9 DEF StepAhead
<1>10. CASE cmd.pc = "disposed"
  <2>1. cmd.op = "rollback" /\ journal.deletion
    BY <1>1, <1>10 DEF CarryInv, OpAt, Shared, Staging, IInv, RollbackAt
  <2>2. ~Present
    BY <1>1, <1>10, <2>1 DEF CarryInv, NewAt, Present
  <2>3. All("before")
    BY <1>1, <2>1 DEF IInv, CreationInv, Without, All
  <2> QED
    BY <1>1, <1>2, <1>10, <2>2, <2>3 DEF StepAhead
<1> QED
  BY <1>3, <1>4, <1>5, <1>6, <1>7, <1>8, <1>9, <1>10 DEF StepAhead

\* A command whose first checks pass is never stopped by one of its own later checks:
\* unless something interferes, the guard of its next step holds at every step (the
\* checks of apply_selected, apply_creation, apply_mixed and of the rollbacks).
THEOREM CommandsMeetTheirChecks == Spec => [](LeftAlone => StepAhead)
<1>1. IInv /\ CarryInv => (LeftAlone => StepAhead)
  BY CarriesOn
<1> QED
  BY <1>1, SpecCarries, PTL

=============================================================================
