------------------------------ MODULE LocalGoals ------------------------------
(***************************************************************************)
(* Local goals from admission to their saved evidence                      *)
(* (phonton-cli/src/local_goal_cli.rs): the sidecar's requests, the        *)
(* command line and the terminal interface start, watch, cancel and apply  *)
(* bounded runs that share one settings file, one lease and the folders    *)
(* where evidence is kept.                                                 *)
(*                                                                         *)
(* What a run does inside is LocalRun's: here it saves receipts and        *)
(* returns one, fails, or is dropped.  What apply writes is LocalApply's.  *)
(* Any process may be killed at any moment, any write may fail, a chosen   *)
(* folder may be unplugged, and candidates, plan files, the runtime and    *)
(* the selection change under everybody.  Repositories are left out.       *)
(***************************************************************************)
EXTENDS Naturals

CONSTANTS
    Handler,        \* requests under way in the sidecar, which is one process
    Shell,          \* command lines and terminals, a process each
    Id,             \* run ids
    Profile,        \* calibrations that may be selected
    Legacy, Folder, \* where evidence is kept: beside the state, or chosen
    Rounds,         \* candidates a run may try
    MaxAsks,        \* bound: operations that are asked for
    MaxChanges,     \* bound: what happens from outside
    None

Actor == Handler \cup Shell
Place == {Legacy} \cup Folder

ASSUME GoalsAssumption ==
    /\ Handler \cap Shell = {}
    /\ Legacy \notin Folder
    /\ Rounds \in Nat /\ MaxAsks \in Nat /\ MaxChanges \in Nat
    /\ None \notin Actor \cup Id \cup Profile

VARIABLES
    settings,   \* what the settings file says of models and storage
    plugged,    \* the folders that can be reached
    runtime,    \* what answers at the endpoint
    planFile,   \* a saved plan: what was reviewed, and what the file holds now
    lease,      \* who holds the lease of the settings file
    evidence,   \* per place and run: attempt, ended, receipt and end records
    task,       \* what each actor is at
    desk,       \* the sidecar's State
    returned,   \* history: what the run of an id returned
    applied,    \* history: runs that were applied
    launches,   \* history: how often an id was started
    orphans,    \* history: attempts written for a start that was refused
    asks, changes

world   == <<plugged, runtime, planFile, changes>>
outside == <<world, asks>>
history == <<returned, applied, launches, orphans>>
vars == <<settings, outside, lease, evidence, task, desk, history>>

Final == {"review", "stopped"}                  \* what a run may return
Unfinished == {"working", "verifying"}
Cut == {"interrupted", "run_failed"}            \* what record_end makes of a receipt

Evidence == [attempt : BOOLEAN,
             ended : {"none", "interrupted_before_receipt", "ended_before_receipt"},
             receipt : {"none"} \cup Unfinished \cup Final,
             end : {"none"} \cup Final \cup Cut,
             intact : BOOLEAN]          \* the selected candidate is as it was hashed

NoEvidence == [attempt |-> FALSE, ended |-> "none", receipt |-> "none",
               end |-> "none", intact |-> TRUE]

\* A plan: the calibration, and whether a runtime that Phonton did not start
\* may be used.  The permission to run project commands goes the same ways.
Plan == [profile : Profile, unverified : BOOLEAN]

Kinds == {"request", "cli", "tui"}

Idle == [pc |-> "idle", kind |-> "request", id |-> None, place |-> Legacy, plan |-> None,
         shown |-> None, origin |-> "managed", result |-> "none", rounds |-> 0]

NoRun == [id |-> None, running |-> FALSE, asked |-> FALSE, receipt |-> "none"]

Init ==
    /\ settings \in [place : Place, used : {FALSE}, profile : Profile]
    /\ plugged = Folder
    /\ runtime \in {"managed", "external", "damaged"}
    /\ planFile \in {None} \cup {[reviewed |-> plan, now |-> plan] :
                                 plan \in [profile : {settings.profile}, unverified : BOOLEAN]}
    /\ lease = None
    /\ evidence = [x \in Place |-> [i \in Id |-> NoEvidence]]
    /\ task = [a \in Actor |-> Idle]
    /\ desk = NoRun
    /\ returned = [i \in Id |-> "none"] /\ launches = [i \in Id |-> 0]
    /\ applied = {} /\ orphans = {}
    /\ asks = 0 /\ changes = 0

-----------------------------------------------------------------------------
At(a, pc) == task[a].pc = pc
Goto(a, pc) == task' = [task EXCEPT ![a].pc = pc]
Leave(a) == task' = [task EXCEPT ![a] = Idle]

Reachable(x) == x = Legacy \/ x \in plugged

Has(x, i) == evidence[x][i].attempt             \* has_evidence: it is written first

\* saved_directory_at: evidence beside the state comes first.
Lookup(i) == IF Has(Legacy, i) THEN Legacy ELSE settings.place

Mine(a) == evidence[task[a].place][task[a].id]

Write(a, e) ==
    /\ Reachable(task[a].place)
    /\ evidence' = [evidence EXCEPT ![task[a].place][task[a].id] = e]

-----------------------------------------------------------------------------
(***************************************************************************)
(* What a reader is told of a run (read_saved_receipt_internal), whether   *)
(* or not it believes the run to be alive.                                 *)
(***************************************************************************)
\* Faulty: a receipt that says reviewed is believed without its end record.
SavedUnchecked(e, live) ==
    IF e.end = "review" /\ ~e.intact THEN "saved_review_unavailable"
    ELSE IF e.end # "none" THEN e.end
    ELSE IF e.receipt \in Unfinished /\ ~live THEN "interrupted"
    ELSE IF e.receipt # "none" THEN e.receipt
    ELSE IF e.ended # "none" THEN e.ended
    ELSE IF live THEN "started" ELSE "interrupted_before_receipt"

Saved(e, live) ==
    IF e.end = "review" /\ ~e.intact THEN "saved_review_unavailable"
    ELSE IF e.end # "none" THEN e.end
    ELSE IF e.receipt \in Unfinished \cup {"review"} /\ ~live THEN "interrupted"
    ELSE IF e.receipt = "review" THEN "finalizing"
    ELSE IF e.receipt # "none" THEN e.receipt
    ELSE IF e.ended # "none" THEN e.ended
    ELSE IF live THEN "started" ELSE "interrupted_before_receipt"

Found(i) == evidence[Lookup(i)][i]

\* Its evidence is found, and the selected candidate is as it was hashed.
Valid(i) == Reachable(Lookup(i)) /\ Has(Lookup(i), i) /\ Found(i).intact

\* local.run.status: a selected candidate is validated again, outside the lock,
\* and demoted when its evidence is missing or changed.
Status ==
    IF desk.running \/ desk.receipt # "review" THEN desk.receipt
    ELSE IF Valid(desk.id) THEN desk.receipt
    ELSE "saved_review_unavailable"

-----------------------------------------------------------------------------
(***************************************************************************)
(* Review.  `shown` is what the user saw and allowed in this invocation.   *)
(***************************************************************************)
Asks(a, kind, i, plan, shown) ==
    /\ At(a, "idle") /\ asks < MaxAsks
    /\ asks' = asks + 1
    /\ task' = [task EXCEPT ![a] = [Idle EXCEPT !.pc = "reviewed", !.kind = kind, !.id = i,
                                                !.plan = plan, !.shown = shown]]

PlanOf(profile, permit) == [profile |-> profile, unverified |-> permit]

\* A start request names its run; the terminal's consent is for the runtime
\* its plan names; the command line's is in its flags.
Review(a) ==
    /\ settings.profile # None
    /\ \E kind \in Kinds, i \in Id \cup {None}, permit \in BOOLEAN :
         /\ kind = "request" <=> a \in Handler
         /\ kind = "request" <=> i # None
         /\ kind = "tui" => permit = (runtime = "external")
         /\ Asks(a, kind, i, PlanOf(settings.profile, permit), PlanOf(settings.profile, permit))
    /\ UNCHANGED <<settings, world, lease, evidence, desk, history>>

\* Faulty: the hash of the file is not compared.
PlanOnFile == planFile # None

PlanUnchanged == planFile # None /\ planFile.now = planFile.reviewed

\* --reviewed-plan: the file is the one that was reviewed, and host execution
\* and an unverified runtime are allowed now (request_from_reviewed_plan_args).
ReviewedPlan(a) ==
    /\ a \in Shell /\ PlanUnchanged
    /\ \E permit \in BOOLEAN :
         /\ planFile.now.unverified => permit
         /\ Asks(a, "cli", None, PlanOf(planFile.now.profile, permit),
                                 PlanOf(planFile.reviewed.profile, permit))
    /\ UNCHANGED <<settings, world, lease, evidence, desk, history>>

\* --request: permissions of the file have to be given again; nobody looked at
\* a model, so the one selected now is meant (request_from_file_args).
RequestFile(a) ==
    /\ a \in Shell /\ planFile # None /\ settings.profile # None
    /\ \E permit \in BOOLEAN :
         /\ planFile.now.unverified => permit
         /\ Asks(a, "cli", None, PlanOf(settings.profile, permit), PlanOf(settings.profile, permit))
    /\ UNCHANGED <<settings, world, lease, evidence, desk, history>>

-----------------------------------------------------------------------------
(***************************************************************************)
(* Admission (prepare_live_at, prepare_at): the selection is confirmed and *)
(* the evidence folder noted without the lease, and both again with it.    *)
(***************************************************************************)
\* Faulty: any selected calibration will do.
AnySelected(a) == settings.profile # None

StillSelected(a) == settings.profile = task[a].plan.profile

Confirm(a) ==
    /\ At(a, "reviewed")
    /\ StillSelected(a)
    /\ Reachable(settings.place)
    /\ task' = [task EXCEPT ![a].place = settings.place, ![a].pc = "confirmed"]
    /\ UNCHANGED <<settings, outside, lease, evidence, desk, history>>

\* Faulty: the lease file is created, not locked.
LeaseAnyhow == lease \in Actor \cup {None}

LeaseFree == lease = None

\* Faulty: the folder noted before the lease will do.
SameRootAnyhow(a) == Reachable(task[a].place)

SameRoot(a) == Reachable(settings.place) /\ settings.place = task[a].place

\* A runtime Phonton did not start needs consent; a damaged one is refused.
RuntimeAllowed(plan) == runtime = "managed" \/ (runtime = "external" /\ plan.unverified)

\* A fresh UUID, or the id the request names if it has no evidence.
Fresh(i) ==
    /\ \A x \in Place : ~Has(x, i)
    /\ \A b \in Actor : task[b].id # i

Names(a, i) ==
    IF task[a].id = None THEN Fresh(i)
    ELSE i = task[a].id /\ ~Has(task[a].place, i) /\ ~Has(Legacy, i)

\* Faulty: the folder is not marked as used.
UnmarkedUse(x) == settings.used

MarkedUse(x) == settings.used \/ x # Legacy

Prepare(a) ==
    /\ At(a, "confirmed")
    /\ LeaseFree
    /\ SameRoot(a)
    /\ StillSelected(a)
    /\ RuntimeAllowed(task[a].plan)
    /\ \E i \in Id :
         /\ Names(a, i)
         /\ task' = [task EXCEPT ![a].id = i, ![a].origin = runtime, ![a].pc = "prepared"]
    /\ lease' = a
    /\ settings' = [settings EXCEPT !.used = MarkedUse(task[a].place)]
    /\ UNCHANGED <<outside, evidence, desk, history>>

\* Refused, or failed, before anything of the run was written.
Refuse(a) ==
    /\ task[a].pc \in {"reviewed", "confirmed", "prepared"}
    /\ Leave(a)
    /\ lease' = IF lease = a THEN None ELSE lease
    /\ UNCHANGED <<settings, outside, evidence, desk, history>>

-----------------------------------------------------------------------------
(***************************************************************************)
(* The attempt is on disk before anything runs (begin_attempt).  The index *)
(* of recent runs is left out.                                             *)
(***************************************************************************)
BeginAttempt(a) ==
    /\ At(a, "prepared")
    /\ ~Has(task[a].place, task[a].id)
    /\ Write(a, [NoEvidence EXCEPT !.attempt = TRUE])
    /\ launches' = [launches EXCEPT ![task[a].id] = @ + 1]
    /\ Goto(a, "begun")
    /\ UNCHANGED <<settings, outside, lease, desk, returned, applied, orphans>>

\* The run is on its way; what was reviewed is no longer told apart.
Runs(a) ==
    task' = [task EXCEPT ![a].plan = None, ![a].shown = None, ![a].origin = "managed",
                         ![a].pc = "running"]

Launch(a) ==
    /\ At(a, "begun") /\ a \in Shell
    /\ Runs(a)
    /\ UNCHANGED <<settings, outside, lease, evidence, desk, history>>

\* The sidecar looks only now whether a run of its own is under way.
Spawn(a) ==
    /\ At(a, "begun") /\ a \in Handler
    /\ IF desk.running
         THEN /\ orphans' = orphans \cup {task[a].id}
              /\ Leave(a) /\ lease' = None
              /\ UNCHANGED desk
         ELSE /\ desk' = [NoRun EXCEPT !.id = task[a].id, !.running = TRUE]
              /\ Runs(a)
              /\ UNCHANGED <<lease, orphans>>
    /\ UNCHANGED <<settings, outside, evidence, returned, applied, launches>>

-----------------------------------------------------------------------------
(***************************************************************************)
(* The run.  The sidecar shows each receipt, a reviewed one as finalizing. *)
(***************************************************************************)
After(receipt) ==
    CASE receipt = "none"      -> {"working"}
      [] receipt = "working"   -> {"verifying"} \cup Final
      [] receipt = "verifying" -> {"working"}
      [] OTHER                 -> {}

\* Faulty: every receipt is shown as it is.
VisibleAsSaved(receipt) == receipt

Visible(receipt) == IF receipt = "review" THEN "finalizing" ELSE receipt

Persist(a) ==
    /\ At(a, "running")
    /\ \E r \in After(Mine(a).receipt) :
         /\ r = "verifying" => task[a].rounds < Rounds
         /\ r = "review" => task[a].rounds > 0
         /\ Write(a, [Mine(a) EXCEPT !.receipt = r])
         /\ task' = [task EXCEPT ![a].rounds = @ + (IF r = "verifying" THEN 1 ELSE 0)]
         /\ desk' = IF a \in Handler THEN [desk EXCEPT !.receipt = Visible(r)] ELSE desk
    /\ UNCHANGED <<settings, outside, lease, history>>

Ends(a, result) ==
    /\ task' = [task EXCEPT ![a].result = result, ![a].rounds = 0, ![a].pc = "returned"]
    /\ UNCHANGED <<settings, outside, lease, evidence, desk, applied, launches, orphans>>

Returns(a) ==
    /\ At(a, "running") /\ Reachable(task[a].place)
    /\ Mine(a).receipt \in Final
    /\ Ends(a, Mine(a).receipt)
    /\ returned' = [returned EXCEPT ![task[a].id] = Mine(a).receipt]

Fails(a) ==
    /\ At(a, "running")
    /\ Ends(a, "error")
    /\ UNCHANGED returned

\* Ctrl-C, or the sidecar's request: the run is dropped where it is.
Dropped(a) ==
    /\ At(a, "running")
    /\ task[a].kind = "cli" \/ (a \in Handler /\ desk.asked)
    /\ Ends(a, "cancelled")
    /\ UNCHANGED returned

Cancel(i) ==
    /\ desk.id = i /\ desk.running /\ ~desk.asked
    /\ desk' = [desk EXCEPT !.asked = TRUE]
    /\ UNCHANGED <<settings, outside, lease, evidence, task, history>>

-----------------------------------------------------------------------------
(***************************************************************************)
(* The end of a run: its end record, or what record_end makes of what was  *)
(* saved so far; the State of the sidecar; and the lease, which goes last. *)
(***************************************************************************)
WriteEnd(a) ==
    /\ At(a, "returned") /\ task[a].result \in Final
    /\ Write(a, [Mine(a) EXCEPT !.end = task[a].result])
    /\ Goto(a, "ended")
    /\ UNCHANGED <<settings, outside, lease, desk, history>>

\* The terminal leaves it at that (run_goal); the others record the error.
WriteEndFails(a) ==
    /\ At(a, "returned") /\ task[a].result \in Final
    /\ task' = [task EXCEPT ![a].result = "error",
                            ![a].pc = IF task[a].kind = "tui" THEN "ended" ELSE "returned"]
    /\ UNCHANGED <<settings, outside, lease, evidence, desk, history>>

\* Faulty: the state is kept, with its selected candidate.
CutAsSaved(receipt, result) == IF receipt = "review" THEN receipt ELSE "interrupted"

CutTo(receipt, result) == IF result = "cancelled" THEN "interrupted" ELSE "run_failed"

EndedTo(result) == IF result = "cancelled" THEN "interrupted_before_receipt" ELSE "ended_before_receipt"

RecordEnd(a) ==
    /\ At(a, "returned") /\ task[a].result \in {"error", "cancelled"}
    /\ LET e == Mine(a)
           readable == Reachable(task[a].place) /\ e.receipt # "none"
           cut == CutTo(e.receipt, task[a].result)
       IN  /\ \/ readable /\ Write(a, [e EXCEPT !.end = cut])
              \/ ~readable /\ Write(a, [e EXCEPT !.ended = EndedTo(task[a].result)])
              \/ UNCHANGED evidence
           /\ task' = [task EXCEPT ![a].result = IF readable THEN cut ELSE "none",
                                   ![a].pc = "ended"]
    /\ UNCHANGED <<settings, outside, lease, desk, history>>

Publish(a) ==
    /\ At(a, "ended") /\ a \in Handler
    /\ desk' = [desk EXCEPT !.running = FALSE, !.asked = FALSE, !.receipt = task[a].result]
    /\ Goto(a, "published")
    /\ UNCHANGED <<settings, outside, lease, evidence, history>>

Release(a) ==
    /\ IF a \in Handler THEN At(a, "published") ELSE At(a, "ended")
    /\ Leave(a)
    /\ lease' = None
    /\ UNCHANGED <<settings, outside, evidence, desk, history>>

-----------------------------------------------------------------------------
(***************************************************************************)
(* Apply reads the saved review without the lease, then takes it and has   *)
(* the candidate's bytes compared again (local.run.apply, apply_selected). *)
(***************************************************************************)
ReadToApply(a) ==
    /\ At(a, "idle") /\ asks < MaxAsks
    /\ asks' = asks + 1
    /\ \E i \in Id :
         /\ Has(Lookup(i), i) /\ Reachable(Lookup(i))
         /\ Saved(Found(i), a \in Handler /\ desk.running /\ desk.id = i) = "review"
         /\ task' = [task EXCEPT ![a] = [Idle EXCEPT !.pc = "applying", !.id = i]]
    /\ UNCHANGED <<settings, world, lease, evidence, desk, history>>

Apply(a) ==
    /\ At(a, "applying")
    /\ \/ /\ LeaseFree
          /\ Valid(task[a].id)
          /\ applied' = applied \cup {task[a].id}
       \/ UNCHANGED applied
    /\ Leave(a)
    /\ UNCHANGED <<settings, outside, lease, evidence, desk, returned, launches, orphans>>

-----------------------------------------------------------------------------
(***************************************************************************)
(* Other operations, which hold the lease throughout, and other programs.  *)
(***************************************************************************)
Operation ==
    /\ LeaseFree
    /\ asks < MaxAsks
    /\ asks' = asks + 1
    /\ UNCHANGED <<world, lease, evidence, task, desk, history>>

Recalibrate ==
    /\ \E f \in (Profile \cup {None}) \ {settings.profile} :
         settings' = [settings EXCEPT !.profile = f]
    /\ Operation

\* set_managed_storage_at: to an empty folder, from one that was not used and
\* has no files, or cannot be looked at.
Empty(x) == \A i \in Id : ~Has(x, i)

ChooseFolder ==
    /\ ~settings.used
    /\ settings.place \in plugged => Empty(settings.place)
    /\ \E x \in plugged \ {settings.place} :
         /\ Empty(x)
         /\ settings' = [settings EXCEPT !.place = x]
    /\ Operation

Changes ==
    /\ changes < MaxChanges
    /\ changes' = changes + 1
    /\ UNCHANGED <<evidence, history, asks>>

Replug ==
    /\ \E x \in Folder :
         plugged' = IF x \in plugged THEN plugged \ {x} ELSE plugged \cup {x}
    /\ Changes
    /\ UNCHANGED <<settings, runtime, planFile, lease, task, desk>>

RuntimeChanges ==
    /\ runtime' \in {"managed", "external", "damaged"} \ {runtime}
    /\ Changes
    /\ UNCHANGED <<settings, plugged, planFile, lease, task, desk>>

\* Somebody edits the file.
EditPlanFile ==
    /\ planFile # None
    /\ \E plan \in Plan \ {planFile.now} : planFile' = [planFile EXCEPT !.now = plan]
    /\ Changes
    /\ UNCHANGED <<settings, plugged, runtime, lease, task, desk>>

Tamper ==
    /\ changes < MaxChanges
    /\ changes' = changes + 1
    /\ \E x \in Place, i \in Id :
         /\ evidence[x][i].receipt = "review" /\ evidence[x][i].intact
         /\ evidence' = [evidence EXCEPT ![x][i].intact = FALSE]
    /\ UNCHANGED <<settings, plugged, runtime, planFile, lease, task, desk, history, asks>>

Processes == {Handler} \cup {{a} : a \in Shell}

Kill(process) ==
    /\ \E a \in process : ~At(a, "idle")
    /\ task' = [a \in Actor |-> IF a \in process THEN Idle ELSE task[a]]
    /\ lease' = IF lease \in process THEN None ELSE lease
    /\ desk' = IF process = Handler THEN NoRun ELSE desk
    /\ Changes
    /\ UNCHANGED <<settings, plugged, runtime, planFile>>

Over ==
    /\ changes = MaxChanges
    /\ \A a \in Actor : At(a, "idle")
    /\ UNCHANGED vars

Admission(a) ==
    \/ Review(a) \/ ReviewedPlan(a) \/ RequestFile(a)
    \/ Confirm(a) \/ Prepare(a) \/ Refuse(a)
    \/ BeginAttempt(a) \/ Launch(a) \/ Spawn(a)

Run(a) ==
    \/ Persist(a) \/ Returns(a) \/ Fails(a) \/ Dropped(a)
    \/ WriteEnd(a) \/ WriteEndFails(a) \/ RecordEnd(a)
    \/ Publish(a) \/ Release(a)

Next ==
    \/ \E a \in Actor : Admission(a) \/ Run(a) \/ ReadToApply(a) \/ Apply(a)
    \/ \E i \in Id : Cancel(i)
    \/ Recalibrate \/ ChooseFolder \/ Replug \/ RuntimeChanges \/ EditPlanFile \/ Tamper
    \/ \E process \in Processes : Kill(process)
    \/ Over

Spec == Init /\ [][Next]_vars

-----------------------------------------------------------------------------
(* Properties *)

Pcs == {"idle", "reviewed", "confirmed", "prepared", "begun", "running",
        "returned", "ended", "published", "applying"}

States == {"none"} \cup Unfinished \cup Final \cup Cut

TypeOK ==
    /\ settings \in [place : Place, used : BOOLEAN, profile : Profile \cup {None}]
    /\ plugged \subseteq Folder
    /\ lease \in Actor \cup {None}
    /\ evidence \in [Place -> [Id -> Evidence]]
    /\ \A a \in Actor :
         /\ task[a].pc \in Pcs /\ task[a].kind \in Kinds
         /\ task[a].id \in Id \cup {None} /\ task[a].place \in Place
         /\ task[a].result \in States \cup {"error", "cancelled"}
    /\ desk \in [id : Id \cup {None}, running : BOOLEAN, asked : BOOLEAN,
                 receipt : States \cup {"finalizing"}]
    /\ applied \subseteq Id /\ orphans \subseteq Id

Admitted == {"prepared", "begun"}

Holding == Admitted \cup {"running", "returned", "ended", "published"}

\* Whoever works on a run holds the lease, and nobody else works on one.
LeaseHeld ==
    \A a \in Actor : task[a].pc \in Holding => lease = a

(***************************************************************************)
(* A review is shown, and applied, only of a run that returned it, whose   *)
(* end is on disk and whose candidate is as it was hashed: not of one that *)
(* was cut off after it said so, nor while it is being finished.           *)
(***************************************************************************)
ReviewsAreFinished ==
    /\ \A i \in Id, live \in BOOLEAN :
         Saved(Found(i), live) = "review" =>
             returned[i] = "review" /\ Found(i).intact
    /\ Status = "review" => returned[desk.id] = "review" /\ Found(desk.id).intact
    /\ \A i \in applied : returned[i] = "review"

\* After a run the sidecar says of it what its saved evidence says.
StatusAgrees ==
    ~desk.running /\ desk.id # None /\ Reachable(Lookup(desk.id)) =>
        /\ Status = "review" <=> Saved(Found(desk.id), FALSE) = "review"
        /\ Status \in Final => Saved(Found(desk.id), FALSE) = Status

\* The sidecar does not call its own run interrupted while it runs.
LiveIsLive ==
    desk.running =>
        \E a \in Handler :
            /\ task[a].id = desk.id
            /\ At(a, "running") =>
                 Saved(Found(desk.id), TRUE) \in {"started", "finalizing", "stopped"} \cup Unfinished

(***************************************************************************)
(* What the user is told of local goals is true, whoever runs them, reads  *)
(* them or is killed; and no refused start leaves an attempt behind.       *)
(***************************************************************************)
GoalsInv ==
    /\ TypeOK
    /\ LeaseHeld
    /\ StatusAgrees
    /\ LiveIsLive
    /\ orphans = {}

(***************************************************************************)
(* A run is the one its user saw: that calibration is still the selected   *)
(* one, and a runtime of others is used only if this very invocation       *)
(* allows it, whatever a file says.                                        *)
(***************************************************************************)
RunsAsReviewed ==
    \A a \in Actor :
        task[a].pc \in Admitted =>
            /\ task[a].plan.profile = task[a].shown.profile
            /\ settings.profile = task[a].shown.profile
            /\ task[a].origin # "managed" => task[a].shown.unverified

(***************************************************************************)
(* Evidence stays: a run is found where its evidence was put, from the     *)
(* moment it is begun on and whatever is done with the storage folder; its *)
(* id is not begun again, and its end is not rewritten.                    *)
(***************************************************************************)
EvidenceKept ==
    \A x \in Place, i \in Id :
        /\ Has(x, i)' => Lookup(i)' = x
        /\ Has(x, i) =>
             /\ Has(x, i)'
             /\ launches'[i] = launches[i]
             /\ evidence[x][i].end # "none" => evidence'[x][i].end = evidence[x][i].end

EvidenceStays == [][EvidenceKept]_vars
=============================================================================
