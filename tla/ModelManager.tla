---------------------------- MODULE ModelManager ----------------------------
(***************************************************************************)
(* The local models of one user: the settings file that the command line   *)
(* and the desktop sidecar share (phonton-cli/src/models_cli.rs and        *)
(* phonton-local/src/storage.rs), the operations on it, and the runtimes   *)
(* that hold the models.  A local goal is an operation too: it keeps the   *)
(* lease of the file while it uses the selected model.                     *)
(*                                                                         *)
(* Every operation works on a copy of the settings, loaded under the lease *)
(* and saved after each change; requests to the runtime come in between.   *)
(* An operation may end anywhere: an error, a cancellation that drops it,  *)
(* or the end of its process, which releases the lease.  Programs outside  *)
(* Phonton replace and delete models in a runtime at any time.             *)
(***************************************************************************)
EXTENDS Naturals, Sequences, SequencesExt, FiniteSets

CONSTANTS
    Process,        \* the command line and the sidecar
    Sidecar,        \* those whose requests name what their user was shown
    Model, Digest,
    Endpoint,
    Managed,        \* the endpoint of the managed runtime
    Home,           \* the models each endpoint may hold
    Root, DefaultRoot,
    AttemptCap,     \* unconfirmed installs that are remembered (8)
    MaxOps,         \* bound: operations begun
    MaxChanges,     \* bound: changes by other programs
    None

ASSUME ManagerAssumption ==
    /\ Sidecar \subseteq Process
    /\ Managed \in Endpoint /\ DefaultRoot \in Root
    /\ Home \in [Endpoint -> SUBSET Model]
    /\ AttemptCap \in Nat \ {0} /\ MaxOps \in Nat /\ MaxChanges \in Nat
    /\ None \notin Process \cup Model \cup Digest

VARIABLES
    file,       \* LocalSettings on disk
    lease,      \* who holds the lease of the file
    op,         \* the operation of each process
    weights,    \* the model files of each runtime
    data,       \* roots that hold a managed runtime, its models or run evidence
    pulled,     \* history: pulls asked of a runtime and not confirmed since
    ops, changes

vars == <<file, lease, op, weights, data, pulled, ops, changes>>

Place == {p \in Endpoint \X Model : p[2] \in Home[p[1]]}

\* `sound` is a history: the weights that the digest names are those that were
\* measured, or they were replaced more than once meanwhile.
Profile == [model : Model, endpoint : Endpoint, digest : Digest,
            protocol : BOOLEAN, sound : BOOLEAN]

Results == {"none", "edit", "create"}

Settings == [schema : 1 .. 5, endpoint : Endpoint, active : Model \cup {None},
             profiles : SUBSET Profile, attempts : Seq(Place),
             calibrating : BOOLEAN, root : Root, used : BOOLEAN, installed : BOOLEAN]

Fresh == [schema |-> 1, endpoint |-> Managed, active |-> None, profiles |-> {},
          attempts |-> <<>>, calibrating |-> FALSE, root |-> DefaultRoot,
          used |-> FALSE, installed |-> FALSE]

\* What a status or a plan showed: where, and which calibration is selected.
Shown == [endpoint : Endpoint, root : Root, profile : Profile \cup {None}]

Kinds == {"endpoint", "storage", "setup", "deselect", "install", "calibrate",
          "select", "remove", "goal"}

Idle == [kind |-> "none", pc |-> "idle"]

Init ==
    /\ file = Fresh
    /\ lease = None
    /\ op = [p \in Process |-> Idle]
    /\ \E present \in SUBSET Place, d \in Digest :
         weights = [x \in Place |-> IF x \in present THEN d ELSE None]
    /\ data = {} /\ pulled = {}
    /\ ops = 0 /\ changes = 0

-----------------------------------------------------------------------------
At(p, pc) == op[p].pc = pc
Kind(p) == op[p].kind
S(p) == op[p].s
Here(p) == <<S(p).endpoint, op[p].model>>

Goto(p, pc) == op' = [op EXCEPT ![p].pc = pc]

Larger(a, b) == IF a > b THEN a ELSE b
AtLeast(s, n) == [s EXCEPT !.schema = Larger(@, n)]

ProfilesOf(s, m) == {f \in s.profiles : f.model = m /\ f.endpoint = s.endpoint}

\* selected_profile, after the live checks of current_model_selection_at.
Selected(s) ==
    IF s.active # None /\ Cardinality(ProfilesOf(s, s.active)) = 1
      THEN CHOOSE f \in ProfilesOf(s, s.active) : TRUE
      ELSE None

\* load refuses what a newer or a broken writer left.
Loadable(s) ==
    /\ s.schema = 1 => s.root = DefaultRoot /\ ~s.used /\ ~s.installed
    /\ s.used => s.root # DefaultRoot
    /\ s.installed => s.schema >= 3
    /\ s.calibrating => s.schema >= 4
    /\ s.attempts # <<>> => s.schema = 5 /\ Len(s.attempts) <= AttemptCap

\* Save the operation's copy, changed to s, and go on or end.
Save(p, s, pc) ==
    /\ file' = s
    /\ op' = [op EXCEPT ![p].s = s, ![p].pc = pc]
    /\ UNCHANGED lease

End(p) ==
    /\ op' = [op EXCEPT ![p] = Idle]
    /\ lease' = None

SaveAndEnd(p, s) == file' = s /\ End(p)

Runtime == <<weights, data, pulled>>
Bounds  == <<ops, changes>>

-----------------------------------------------------------------------------
(***************************************************************************)
(* Admission.  A sidecar's request and a goal name what the user was       *)
(* shown; the lease is held from here to the end of the operation.         *)
(***************************************************************************)
Live(f) == f # None /\ f.protocol /\ weights[<<f.endpoint, f.model>>] = f.digest

Showing == [endpoint |-> file.endpoint, root |-> file.root,
            profile |-> IF Live(Selected(file)) THEN Selected(file) ELSE None]

Expects(p, kind) == kind = "goal" \/ (p \in Sidecar /\ kind \notin {"endpoint", "storage"})

OnModel == {"install", "calibrate", "select", "remove"}

ModelsFor(p, kind) ==
    IF kind \in OnModel \/ (kind = "deselect" /\ p \in Sidecar) THEN Model ELSE {None}

Ask(p, kind) ==
    /\ At(p, "idle") /\ ops < MaxOps
    /\ kind = "goal" => Showing.profile # None
    /\ \E m \in ModelsFor(p, kind) :
         op' = [op EXCEPT ![p] =
                  [kind |-> kind, model |-> m, pc |-> "asked", s |-> Fresh,
                   shown |-> IF Expects(p, kind) THEN Showing ELSE None,
                   digest |-> None, best |-> "none",
                   moves |-> 0, alien |-> FALSE]]
    /\ ops' = ops + 1
    /\ UNCHANGED <<file, lease, Runtime, changes>>

\* Faulty: nobody looks whether the lease is held.
LeaseAnyhow == TRUE

LeaseFree == lease = None

AsShown(p) ==
    op[p].shown # None => /\ file.endpoint = op[p].shown.endpoint
                          /\ file.root = op[p].shown.root

Admit(p) ==
    /\ At(p, "asked") /\ Kind(p) # "goal"
    /\ LeaseFree
    /\ AsShown(p)
    /\ lease' = p
    /\ Goto(p, "admitted")
    /\ UNCHANGED <<file, Runtime, Bounds>>

Load(p) ==
    /\ At(p, "admitted") /\ Kind(p) # "goal"
    /\ Loadable(file)
    /\ op' = [op EXCEPT ![p].s = file, ![p].pc = "loaded"]
    /\ UNCHANGED <<file, lease, Runtime, Bounds>>

\* The settings are loaded; an endpoint that cannot hold the model refuses.
Starts(p, kind) ==
    /\ At(p, "loaded") /\ Kind(p) = kind
    /\ kind \in OnModel => Here(p) \in Place

-----------------------------------------------------------------------------
(***************************************************************************)
(* Selection, endpoint and storage.                                        *)
(***************************************************************************)
Deselect(p) ==
    /\ Starts(p, "deselect")
    /\ op[p].model # None => op[p].model = S(p).active
    /\ SaveAndEnd(p, [S(p) EXCEPT !.active = None])
    /\ UNCHANGED <<Runtime, Bounds>>

\* Its calibrations stay, bound to their endpoint; the selection does not.
ChangedEndpoint(s, e) == [s EXCEPT !.endpoint = e, !.active = None]

SetEndpoint(p) ==
    /\ Starts(p, "endpoint")
    /\ \E e \in Endpoint \ {S(p).endpoint} : SaveAndEnd(p, ChangedEndpoint(S(p), e))
    /\ UNCHANGED <<Runtime, Bounds>>

\* Faulty: the flags are believed, the folder is not looked at.
CanSwitchByFlags(s) == ~s.used /\ ~s.installed

CanSwitch(s) == ~s.used /\ ~s.installed /\ s.root \notin data

SetStorage(p) ==
    /\ Starts(p, "storage")
    /\ CanSwitch(S(p))
    /\ \E r \in Root \ ({S(p).root, DefaultRoot} \cup data) :
         SaveAndEnd(p, [AtLeast(S(p), 2) EXCEPT !.root = r])
    /\ UNCHANGED <<Runtime, Bounds>>

Select(p) ==
    /\ Starts(p, "select")
    /\ Cardinality(ProfilesOf(S(p), op[p].model)) = 1
    /\ \A f \in ProfilesOf(S(p), op[p].model) : Live(f)
    /\ Goto(p, "selected")
    /\ UNCHANGED <<file, lease, Runtime, Bounds>>

SaveSelection(p) ==
    /\ At(p, "selected")
    /\ SaveAndEnd(p, [S(p) EXCEPT !.active = op[p].model])
    /\ UNCHANGED <<Runtime, Bounds>>

-----------------------------------------------------------------------------
(***************************************************************************)
(* Setup of the managed runtime: its files are in the folder before the    *)
(* settings say so.                                                        *)
(***************************************************************************)
WithRuntime(s) ==
    IF s.installed THEN s
    ELSE [AtLeast(s, 3) EXCEPT !.installed = TRUE, !.used = @ \/ s.root # DefaultRoot]

\* The service that answers was launched by Phonton from this folder.
SetupExisting(p) ==
    /\ Starts(p, "setup") /\ S(p).endpoint = Managed
    /\ S(p).root \in data
    /\ SaveAndEnd(p, WithRuntime(S(p)))
    /\ UNCHANGED <<Runtime, Bounds>>

SetupInstall(p) ==
    /\ Starts(p, "setup") /\ S(p).endpoint = Managed
    /\ data' = data \cup {S(p).root}
    /\ Goto(p, "provisioned")
    /\ UNCHANGED <<file, lease, weights, pulled, Bounds>>

SetupRecord(p) ==
    /\ At(p, "provisioned")
    /\ Save(p, WithRuntime(S(p)), "starting")
    /\ UNCHANGED <<Runtime, Bounds>>

SetupStart(p) ==
    /\ At(p, "starting")
    /\ End(p)
    /\ UNCHANGED <<file, Runtime, Bounds>>

-----------------------------------------------------------------------------
(***************************************************************************)
(* Installing and removing a model.                                        *)
(***************************************************************************)
\* retain
Without(attempts, x) ==
    LET kept[n \in 0 .. Len(attempts)] ==
          IF n = 0 THEN <<>>
          ELSE IF attempts[n] = x THEN kept[n - 1]
          ELSE Append(kept[n - 1], attempts[n])
    IN  kept[Len(attempts)]

Recent(attempts) ==
    IF Len(attempts) > AttemptCap THEN Tail(attempts) ELSE attempts

BeginInstall(p) ==
    /\ Starts(p, "install")
    /\ LET all == Append(Without(S(p).attempts, Here(p)), Here(p))
       IN  /\ Save(p, [AtLeast(S(p), 5) EXCEPT !.attempts = Recent(all)], "pull")
           /\ pulled' = pulled \ (ToSet(all) \ ToSet(Recent(all)))
    /\ UNCHANGED <<weights, data, Bounds>>

AskPull(p) ==
    /\ At(p, "pull")
    /\ pulled' = pulled \cup {Here(p)}
    /\ Goto(p, "pulling")
    /\ UNCHANGED <<file, lease, weights, data, Bounds>>

Pulled(p) ==
    /\ At(p, "pulling")
    /\ \E d \in Digest : weights' = [weights EXCEPT ![Here(p)] = d]
    /\ Goto(p, "pulled")
    /\ UNCHANGED <<file, lease, data, pulled, Bounds>>

ConfirmInstall(p) ==
    /\ At(p, "pulled")
    /\ weights[Here(p)] # None
    /\ SaveAndEnd(p, [S(p) EXCEPT !.attempts = Without(@, Here(p))])
    /\ pulled' = pulled \ {Here(p)}
    /\ UNCHANGED <<weights, data, Bounds>>

RemoveModel(p) ==
    /\ Starts(p, "remove")
    /\ weights[Here(p)] # None
    /\ op[p].model # S(p).active
    /\ Goto(p, "delete")
    /\ UNCHANGED <<file, lease, Runtime, Bounds>>

DeleteModel(p) ==
    /\ At(p, "delete")
    /\ weights[Here(p)] # None
    /\ weights' = [weights EXCEPT ![Here(p)] = None]
    /\ Goto(p, "deleted")
    /\ UNCHANGED <<file, lease, data, pulled, Bounds>>

ConfirmRemove(p) ==
    /\ At(p, "deleted")
    /\ weights[Here(p)] = None
    /\ SaveAndEnd(p, [S(p) EXCEPT !.profiles = @ \ ProfilesOf(S(p), op[p].model)])
    /\ UNCHANGED <<Runtime, Bounds>>

-----------------------------------------------------------------------------
(***************************************************************************)
(* Calibration: edits, then creations if an edit passed, first without     *)
(* thinking and then, unless that made a file, with the runtime's default. *)
(* Every finished probe is saved; the weights must be those it began with. *)
(***************************************************************************)
BeginCalibration(p) ==
    /\ Starts(p, "calibrate")
    /\ weights[Here(p)] # None
    /\ LET s == [AtLeast(S(p), 4) EXCEPT !.calibrating = TRUE]
       IN  /\ file' = s
           /\ op' = [op EXCEPT ![p].s = s, ![p].digest = weights[Here(p)], ![p].pc = "off_edit"]
    /\ UNCHANGED <<lease, Runtime, Bounds>>

\* A probe that ends with `result`: its evidence is saved with the attempt.
Probe(p, result, pc) ==
    /\ result # "none" => weights[Here(p)] # None
    /\ file' = S(p)
    /\ op' = [op EXCEPT ![p].best = result, ![p].pc = pc,
                        ![p].alien = @ \/ weights[Here(p)] \notin {None, op[p].digest}]
    /\ UNCHANGED <<lease, Runtime, Bounds>>

ProbeOffEdit(p) ==
    At(p, "off_edit") /\ (Probe(p, "none", "default_edit") \/ Probe(p, "edit", "off_create"))

ProbeOffCreate(p) ==
    At(p, "off_create") /\ (Probe(p, "edit", "default_edit") \/ Probe(p, "create", "recheck"))

\* The better of the two modes; the first of equals.
Better(off, default) == IF default = "create" \/ off = "none" THEN default ELSE off

ProbeDefault(p) ==
    /\ At(p, "default_edit")
    /\ \E result \in Results : Probe(p, Better(op[p].best, result), "recheck")

\* Faulty: any weights will do.
StillMeasuredAny(p) == weights[Here(p)] # None

StillMeasured(p) == weights[Here(p)] = op[p].digest

NewProfile(p) ==
    [model |-> op[p].model, endpoint |-> S(p).endpoint, digest |-> op[p].digest,
     protocol |-> op[p].best # "none", sound |-> op[p].alien => op[p].moves > 1]

RecordCalibration(p) ==
    /\ At(p, "recheck")
    /\ StillMeasured(p)
    /\ SaveAndEnd(p, [S(p) EXCEPT
         !.active = IF @ = op[p].model /\ op[p].best = "none" THEN None ELSE @,
         !.profiles = (@ \ ProfilesOf(S(p), op[p].model)) \cup {NewProfile(p)},
         !.calibrating = FALSE])
    /\ UNCHANGED <<Runtime, Bounds>>

-----------------------------------------------------------------------------
(***************************************************************************)
(* A local goal: the selection is confirmed without the lease, and again   *)
(* with it.  Its evidence goes to the chosen folder, if there is one.      *)
(***************************************************************************)
ConfirmGoal(p) ==
    /\ At(p, "asked") /\ Kind(p) = "goal"
    /\ Showing.profile = op[p].shown.profile
    /\ op' = [op EXCEPT ![p].shown.root = file.root, ![p].pc = "confirmed"]
    /\ UNCHANGED <<file, lease, Runtime, Bounds>>

AdmitGoal(p) ==
    /\ At(p, "confirmed")
    /\ LeaseFree
    /\ lease' = p
    /\ Goto(p, "admitted")
    /\ UNCHANGED <<file, Runtime, Bounds>>

AsReviewed(p) == Selected(file) = op[p].shown.profile

PrepareGoal(p) ==
    /\ At(p, "admitted") /\ Kind(p) = "goal"
    /\ Loadable(file)
    /\ file.root = op[p].shown.root
    /\ AsReviewed(p)
    /\ data' = data \cup ({file.root} \ {DefaultRoot})
    /\ op' = [op EXCEPT ![p].s = file, ![p].pc = "prepared"]
    /\ UNCHANGED <<file, lease, weights, pulled, Bounds>>

BeginRun(p) ==
    /\ At(p, "prepared")
    /\ Save(p, [S(p) EXCEPT !.used = @ \/ S(p).root # DefaultRoot], "running")
    /\ UNCHANGED <<Runtime, Bounds>>

EndRun(p) ==
    /\ At(p, "running")
    /\ End(p)
    /\ UNCHANGED <<file, Runtime, Bounds>>

-----------------------------------------------------------------------------
(***************************************************************************)
(* An error, a cancellation or the end of the process, at any moment; a    *)
(* refused admission; and the other programs.                              *)
(***************************************************************************)
Stops(p) ==
    /\ ~At(p, "idle")
    /\ op' = [op EXCEPT ![p] = Idle]
    /\ lease' = IF lease = p THEN None ELSE lease
    /\ UNCHANGED <<file, Runtime, Bounds>>

Calibrates(p, x) ==
    /\ Kind(p) = "calibrate"
    /\ op[p].digest # None
    /\ Here(p) = x

OtherPrograms(x) ==
    /\ changes < MaxChanges
    /\ \E d \in (Digest \cup {None}) \ {weights[x]} : weights' = [weights EXCEPT ![x] = d]
    /\ op' = [p \in Process |-> IF Calibrates(p, x) THEN [op[p] EXCEPT !.moves = @ + 1] ELSE op[p]]
    /\ changes' = changes + 1
    /\ UNCHANGED <<file, lease, data, pulled, ops>>

Over ==
    /\ ops = MaxOps /\ changes = MaxChanges
    /\ \A p \in Process : At(p, "idle")
    /\ UNCHANGED vars

Step(p) ==
    \/ \E kind \in Kinds : Ask(p, kind)
    \/ Admit(p) \/ Load(p)
    \/ Deselect(p) \/ SetEndpoint(p) \/ SetStorage(p) \/ Select(p) \/ SaveSelection(p)
    \/ SetupExisting(p) \/ SetupInstall(p) \/ SetupRecord(p) \/ SetupStart(p)
    \/ BeginInstall(p) \/ AskPull(p) \/ Pulled(p) \/ ConfirmInstall(p)
    \/ RemoveModel(p) \/ DeleteModel(p) \/ ConfirmRemove(p)
    \/ BeginCalibration(p) \/ ProbeOffEdit(p) \/ ProbeOffCreate(p) \/ ProbeDefault(p)
    \/ RecordCalibration(p)
    \/ ConfirmGoal(p) \/ AdmitGoal(p) \/ PrepareGoal(p) \/ BeginRun(p) \/ EndRun(p)
    \/ Stops(p)

Next == (\E p \in Process : Step(p)) \/ (\E x \in Place : OtherPrograms(x)) \/ Over

Spec == Init /\ [][Next]_vars

-----------------------------------------------------------------------------
(* Properties *)

TypeOK ==
    /\ file \in Settings
    /\ lease \in Process \cup {None}
    /\ \A p \in Process : Kind(p) \in Kinds \cup {"none"}
    /\ \A p \in Process : Kind(p) # "none" => op[p].shown \in Shown \cup {None}
    /\ weights \in [Place -> Digest \cup {None}]
    /\ data \subseteq Root /\ pulled \subseteq Place

Working(p) == op[p].pc \notin {"idle", "asked", "confirmed", "admitted"}

(***************************************************************************)
(* No update is lost: the copy an operation works on and saves is what the *)
(* file holds, whatever the other process does meanwhile.                  *)
(***************************************************************************)
NoLostUpdate == \A p \in Process : Working(p) => lease = p /\ S(p) = file

(***************************************************************************)
(* An operation works where its user was shown it would: on that endpoint  *)
(* and in that folder, until it ends (OperationExpectation).               *)
(***************************************************************************)
WorksAsShown == \A p \in Process : Working(p) => AsShown(p)

(***************************************************************************)
(* The lease: two processes and interrupted operations share one file, and *)
(* nobody's change is lost or made where it was not asked for.             *)
(***************************************************************************)
LeaseInv ==
    /\ NoLostUpdate
    /\ WorksAsShown

\* A selected model has a calibration at this endpoint that can be used.
ActiveIsCalibrated ==
    file.active # None => \E f \in ProfilesOf(file, file.active) : f.protocol

\* A calibration belongs to the weights it names, when they were replaced at
\* most once while it was measured.
ProfilesAreMeasured == \A f \in file.profiles : f.sound

\* While a goal runs, the selection it was reviewed with stands.
RunKeepsItsModel ==
    \A p \in Process :
        Kind(p) = "goal" /\ Working(p) => Selected(file) = op[p].shown.profile

(***************************************************************************)
(* What a goal is given to run with: a selected model is calibrated, its   *)
(* calibration measured what it names, and neither changes under a run.    *)
(***************************************************************************)
SelectionInv ==
    /\ ActiveIsCalibrated
    /\ ProfilesAreMeasured
    /\ RunKeepsItsModel

(***************************************************************************)
(* Nothing is forgotten, wherever an operation was cut off: a model that   *)
(* was asked for and not confirmed is listed, unless later ones pushed it  *)
(* out; and the folder in use is the one that holds Phonton's data.        *)
(***************************************************************************)
NothingForgotten ==
    /\ pulled \subseteq ToSet(file.attempts)
    /\ data \subseteq {file.root}

(***************************************************************************)
(* What the file says: it can always be loaded again, and is not behind    *)
(* what was done in the runtime and the folders.                           *)
(***************************************************************************)
RecordInv ==
    /\ TypeOK
    /\ Loadable(file)
    /\ NothingForgotten
=============================================================================
