---------------------------- MODULE Verification ----------------------------
(***************************************************************************)
(* verify_diff_with_checks (src/phonton-verify/src/lib.rs): static checks  *)
(* of a candidate diff, then the executable checks in a patched copy of    *)
(* the workspace, and once more without its edits of existing tests when   *)
(* it makes any.                                                           *)
(*                                                                         *)
(* Verifications run concurrently, in one process (workers and the         *)
(* orchestrator) and in several.  They share per workspace a cache root,   *)
(* guarded by a lock file, and per process a memo of verdicts.  A process  *)
(* may be killed; a lock file an hour old is taken for a killed one's.     *)
(*                                                                         *)
(* A copy is what it was patched with: the candidate's sources, and its    *)
(* tests or the original ones.  What else is in the workspace is left out. *)
(* A Rust workspace with the detected layers is assumed: the crate and the *)
(* workspace check as one, which every candidate reaches, and the tests of *)
(* the packages touched by the hunks of this run.  Nothing but the         *)
(* timeouts makes a verification take an hour.                             *)
(***************************************************************************)
EXTENDS Naturals, Sequences, FiniteSets

CONSTANTS
    Job,            \* verifications, one diff each
    ProcessOf,      \* the process of each
    Package,        \* packages of the workspace
    Untested,       \* those in which no test completes
    Workload,       \* the candidates that the verifications may be given
    NoTree,         \* no copy
    NoJob,          \* no lock
    MemoSize        \* entries of the memo: 64 in the code

Process == {ProcessOf[j] : j \in Job}

(***************************************************************************)
(* A candidate changes something other than existing tests in the packages *)
(* "edits" (new test files included; some, or the second run has no hunks  *)
(* and makes no copy) and existing tests in "rewrites".                    *)
(* Its sources build or not, and the original tests of "breaks" fail on    *)
(* them; rewritten tests pass, which is what the second run is for.        *)
(* is_test_path looks at paths only: assertions inside a source file       *)
(* belong to the sources.                                                  *)
(***************************************************************************)
Diffs == [edits : SUBSET Package, rewrites : SUBSET Package, breaks : SUBSET Package,
          builds : BOOLEAN, manifest : BOOLEAN]

\* A copy of the workspace: its sources, and the packages with rewritten tests.
Trees == [builds : BOOLEAN, breaks : SUBSET Package, tests : SUBSET Package]

\* tree_fingerprint: the copy and the packages whose checks are to run.
Keys == [tree : Trees, packages : SUBSET Package]

ASSUME VerificationAssumption ==
    /\ ProcessOf \in [Job -> Process]
    /\ Untested \subseteq Package
    /\ Workload \subseteq [Job -> Diffs]
    /\ \A given \in Workload, j \in Job : given[j].edits # {}
    /\ NoTree \notin Trees \cup Keys /\ NoJob \notin Job
    /\ MemoSize \in Nat \ {0}

VARIABLES
    job,        \* each verification: what it checks, how far it is
    verdict,    \* its answer
    alive,      \* processes not killed
    lock,       \* the lock file of the cache root: who created it, and its age
    shared,     \* <root>/ws of the cache root
    own,        \* the copy in a throwaway root
    memo,       \* CHECK_MEMO of each process
    pruner,     \* prune_stale_caches of a verification of another workspace
    takenOver,  \* history: a stale lock was removed
    disturbed   \* history: a copy was replaced or deleted while in use

vars == <<job, verdict, alive, lock, shared, own, memo, pruner, takenOver, disturbed>>

Verdicts == {"pass", "fail", "unavailable", "not_run", "error"}
Stages   == {"static", "lock", "remove", "reopen", "copy", "memo",
             "check", "test", "ended"}

NoLock == [owner |-> NoJob, stale |-> FALSE]

Init ==
    /\ \E given \in Workload :
         job = [j \in Job |-> [diff |-> given[j], stage |-> "static", original |-> FALSE,
                               cached |-> FALSE, key |-> NoTree, passed |-> FALSE]]
    /\ verdict = [j \in Job |-> "none"]
    /\ alive = Process
    /\ lock = NoLock
    /\ shared = NoTree
    /\ own = [j \in Job |-> NoTree]
    /\ memo = [p \in Process |-> <<>>]
    /\ pruner = "none"
    /\ takenOver = FALSE /\ disturbed = FALSE

-----------------------------------------------------------------------------
Runs(j, stage) == ProcessOf[j] \in alive /\ job[j].stage = stage

\* On the cache root, between the lock and its release.
Using(j) ==
    ProcessOf[j] \in alive /\ job[j].cached /\ job[j].stage \in {"memo", "check", "test"}

Goto(j, stage) == job' = [job EXCEPT ![j].stage = stage]

CopyOf(j) == IF job[j].cached THEN shared ELSE own[j]

\* The hunks of this run: the second one leaves out the edits of existing tests.
Rewrites(j) == IF job[j].original THEN {} ELSE job[j].diff.rewrites

\* touched_packages of these hunks, and the copy patched with them.
Touched(j) == job[j].diff.edits \cup Rewrites(j)
TreeOf(j)  == [builds |-> job[j].diff.builds, breaks |-> job[j].diff.breaks,
               tests |-> Rewrites(j)]

\* verify_test: the tests of the packages ps in a copy, and what they amount to.
TestVerdict(tree, ps) ==
    CASE ps \cap (tree.breaks \ tree.tests) # {} -> "fail"
      [] ps \cap (tree.breaks \ tree.tests) = {} /\ ps \cap Untested # {} -> "not_run"
      [] OTHER -> "pass"

\* The checks of a whole copy, when nothing disturbs them.
Truth(key) == IF key.tree.builds THEN TestVerdict(key.tree, key.packages) ELSE "fail"

(***************************************************************************)
(* The end of run_command_checks: the copy is dropped, the lock with it,   *)
(* whoever's lock it is by now.  A Pass of a candidate that edits existing *)
(* tests is put to a run without those edits; nothing but a Pass there     *)
(* confirms it.                                                            *)
(***************************************************************************)
\* Faulty: a throwaway root releases the lock as well.
ReleaseAlways(j) == lock' = NoLock

Release(j) == lock' = IF job[j].cached THEN NoLock ELSE lock

\* Faulty: a Pass stands although the candidate edits existing tests.
AgainWithOriginalsNever(j, v) == FALSE

AgainWithOriginals(j, v) ==
    v = "pass" /\ ~job[j].original /\ job[j].diff.rewrites # {}

Answer(j, v) ==
    LET again == AgainWithOriginals(j, v)
        final == IF ~job[j].original \/ v \in {"pass", "error"} THEN v ELSE "unavailable"
    IN  /\ job' = [job EXCEPT ![j].stage = IF again THEN "lock" ELSE "ended",
                              ![j].original = again,
                              ![j].cached = FALSE, ![j].key = NoTree,
                              ![j].passed = FALSE]
        /\ verdict' = IF again THEN verdict ELSE [verdict EXCEPT ![j] = final]
        /\ own' = [own EXCEPT ![j] = NoTree]
        /\ Release(j)

-----------------------------------------------------------------------------
(***************************************************************************)
(* The patch applies, the syntax holds, no recorded decision is violated,  *)
(* host execution is approved and no manifest is touched; or the verdict   *)
(* is here.                                                                *)
(***************************************************************************)
MayExecute(c) == ~c.manifest

StaticChecks(j) ==
    /\ Runs(j, "static")
    /\ \/ /\ MayExecute(job[j].diff)
          /\ Goto(j, "lock")
          /\ UNCHANGED verdict
       \/ /\ Goto(j, "ended")
          /\ \E v \in {"fail", "unavailable"} : verdict' = [verdict EXCEPT ![j] = v]
    /\ UNCHANGED <<alive, lock, shared, own, memo, pruner, takenOver, disturbed>>

(***************************************************************************)
(* try_lock: create the file, or find it stale, remove it and create it.   *)
(* Whoever fails takes a throwaway root.                                   *)
(***************************************************************************)
TryLock(j) ==
    /\ Runs(j, "lock")
    /\ IF lock = NoLock
         THEN /\ lock' = [owner |-> j, stale |-> FALSE]
              /\ job' = [job EXCEPT ![j].stage = "copy", ![j].cached = TRUE]
         ELSE /\ Goto(j, IF lock.stale THEN "remove" ELSE "copy")
              /\ UNCHANGED lock
    /\ UNCHANGED <<verdict, alive, shared, own, memo, pruner, takenOver, disturbed>>

\* The file is removed by name, stale or not by now.
RemoveLock(j) ==
    /\ Runs(j, "remove")
    /\ Goto(j, IF lock = NoLock THEN "copy" ELSE "reopen")
    /\ lock' = NoLock
    /\ takenOver' = (takenOver \/ lock # NoLock)
    /\ UNCHANGED <<verdict, alive, shared, own, memo, pruner, disturbed>>

ReopenLock(j) ==
    /\ Runs(j, "reopen")
    /\ IF lock = NoLock
         THEN /\ lock' = [owner |-> j, stale |-> FALSE]
              /\ job' = [job EXCEPT ![j].stage = "copy", ![j].cached = TRUE]
         ELSE /\ Goto(j, "copy")
              /\ UNCHANGED lock
    /\ UNCHANGED <<verdict, alive, shared, own, memo, pruner, takenOver, disturbed>>

\* patched_verification_worktree after the lock: the old copy is removed.
Patch(j) ==
    /\ Runs(j, "copy")
    /\ Goto(j, "memo")
    /\ IF job[j].cached
         THEN shared' = TreeOf(j) /\ UNCHANGED own
         ELSE own' = [own EXCEPT ![j] = TreeOf(j)] /\ UNCHANGED shared
    /\ disturbed' = (disturbed \/ (job[j].cached /\ \E k \in Job \ {j} : Using(k)))
    /\ UNCHANGED <<verdict, alive, lock, memo, pruner, takenOver>>

PatchFails(j) ==
    /\ Runs(j, "copy")
    /\ Answer(j, "error")
    /\ UNCHANGED <<alive, shared, memo, pruner, takenOver, disturbed>>

-----------------------------------------------------------------------------
(***************************************************************************)
(* The memo, keyed by the fingerprint of the copy and its packages.  A     *)
(* copy that cannot be read has none.                                      *)
(***************************************************************************)
Entries(p) == {memo[p][i] : i \in DOMAIN memo[p]}

KeyOf(j) ==
    IF CopyOf(j) = NoTree THEN NoTree ELSE [tree |-> CopyOf(j), packages |-> Touched(j)]

MemoGet(j) ==
    LET key  == KeyOf(j)
        hits == {e \in Entries(ProcessOf[j]) : e.key = key}
    IN  /\ Runs(j, "memo")
        /\ IF key # NoTree /\ hits # {}
             THEN \E e \in hits : Answer(j, e.verdict)
             ELSE /\ job' = [job EXCEPT ![j].stage = "check", ![j].key = key]
                  /\ UNCHANGED <<verdict, own, lock>>
        /\ UNCHANGED <<alive, shared, memo, pruner, takenOver, disturbed>>

\* Faulty: a timeout is remembered as well.
KeepsAnything(v) == TRUE

Keeps(v) == v # "unavailable"

MemoPut(p, key, v) ==
    LET m == IF Len(memo[p]) >= MemoSize THEN Tail(memo[p]) ELSE memo[p]
    IN  memo' = IF key = NoTree \/ ~Keeps(v) THEN memo
                ELSE [memo EXCEPT ![p] = Append(m, [key |-> key, verdict |-> v])]

Conclude(j, v) ==
    /\ Answer(j, v)
    /\ MemoPut(ProcessOf[j], job[j].key, v)
    /\ UNCHANGED <<alive, shared, pruner, takenOver, disturbed>>

(***************************************************************************)
(* run_checks_in: layer by layer, each in the copy as it finds it.  Where  *)
(* there is no workspace left a layer has nothing to say, nor have the     *)
(* tests of no package.  A layer that times out or cannot start ends the   *)
(* run.                                                                    *)
(***************************************************************************)
ChecksPass(j) ==
    /\ Runs(j, "check")
    /\ CopyOf(j) # NoTree => CopyOf(j).builds
    /\ job' = [job EXCEPT ![j].stage = "test", ![j].passed = CopyOf(j) # NoTree]
    /\ UNCHANGED <<verdict, alive, lock, shared, own, memo, pruner, takenOver, disturbed>>

ChecksFail(j) ==
    /\ Runs(j, "check")
    /\ CopyOf(j) # NoTree /\ ~CopyOf(j).builds
    /\ Conclude(j, "fail")

TestsSkipped(j) == CopyOf(j) = NoTree \/ Touched(j) = {}

TestsEnd(j) ==
    /\ Runs(j, "test")
    /\ \/ /\ TestsSkipped(j)
          /\ Conclude(j, IF job[j].passed THEN "pass" ELSE "not_run")
       \/ /\ ~TestsSkipped(j)
          /\ Conclude(j, TestVerdict(CopyOf(j), Touched(j)))

LayerUnavailable(j) ==
    /\ Runs(j, "check") \/ (Runs(j, "test") /\ ~TestsSkipped(j))
    /\ CopyOf(j) # NoTree
    /\ Conclude(j, "unavailable")

-----------------------------------------------------------------------------
(***************************************************************************)
(* The process is killed: its lock stays, and is an hour old some day.     *)
(***************************************************************************)
Kill(p) ==
    /\ p \in alive
    /\ alive' = alive \ {p}
    /\ memo' = [memo EXCEPT ![p] = <<>>]
    /\ UNCHANGED <<job, verdict, lock, shared, own, pruner, takenOver, disturbed>>

LockAges ==
    /\ lock # NoLock
    /\ ProcessOf[lock.owner] \notin alive
    /\ ~lock.stale
    /\ lock' = [lock EXCEPT !.stale = TRUE]
    /\ UNCHANGED <<job, verdict, alive, shared, own, memo, pruner, takenOver, disturbed>>

(***************************************************************************)
(* Another workspace's verification finds this cache unused for a week and *)
(* unlocked, and then deletes it.                                          *)
(***************************************************************************)
PruneLooks ==
    /\ pruner = "none"
    /\ lock = NoLock
    /\ \A j \in Job : job[j].stage \in {"static", "lock"} /\ ~job[j].original
    /\ pruner' = "deleting"
    /\ UNCHANGED <<job, verdict, alive, lock, shared, own, memo, takenOver, disturbed>>

PruneDeletes ==
    /\ pruner = "deleting"
    /\ pruner' = "deleted"
    /\ shared' = NoTree
    /\ disturbed' = (disturbed \/ \E j \in Job : Using(j))
    /\ UNCHANGED <<job, verdict, alive, lock, own, memo, takenOver>>

VerifyStep(j) ==
    \/ StaticChecks(j) \/ TryLock(j) \/ RemoveLock(j) \/ ReopenLock(j)
    \/ Patch(j) \/ PatchFails(j) \/ MemoGet(j)
    \/ ChecksPass(j) \/ ChecksFail(j) \/ TestsEnd(j) \/ LayerUnavailable(j)

Ended == /\ \A j \in Job : job[j].stage = "ended" \/ ProcessOf[j] \notin alive
         /\ UNCHANGED vars

Next ==
    \/ \E j \in Job : VerifyStep(j)
    \/ \E p \in Process : Kill(p)
    \/ LockAges \/ PruneLooks \/ PruneDeletes
    \/ Ended

Spec == Init /\ [][Next]_vars
-----------------------------------------------------------------------------
(* Properties *)

TypeOK ==
    /\ job \in [Job -> [diff : Diffs, stage : Stages, original : BOOLEAN,
                         cached : BOOLEAN, key : Keys \cup {NoTree}, passed : BOOLEAN]]
    /\ verdict \in [Job -> Verdicts \cup {"none"}]
    /\ alive \subseteq Process
    /\ lock \in [owner : Job \cup {NoJob}, stale : BOOLEAN]
    /\ shared \in Trees \cup {NoTree}
    /\ own \in [Job -> Trees \cup {NoTree}]
    /\ \A p \in Process :
         /\ Len(memo[p]) <= MemoSize
         /\ Entries(p) \subseteq [key : Keys, verdict : Verdicts]

(***************************************************************************)
(* A Pass is earned: whatever ran at the same time, was cached or killed,  *)
(* the candidate's sources build, it brought no manifest of its own, and   *)
(* tests it did not write completed and passed in every package in which   *)
(* it changes anything but existing tests (the second run of               *)
(* verify_diff_with_checks, the memo and the cache root together).  That   *)
(* much and no more: in a package where it only edits existing tests, the  *)
(* originals are not run, see OriginalsMustPass.                           *)
(***************************************************************************)
PassIsEarned ==
    ~disturbed =>
        \A j \in Job : verdict[j] = "pass" =>
            LET given == job[j].diff
            IN  /\ given.builds /\ ~given.manifest
                /\ given.edits \cap (given.breaks \cup Untested) = {}

(***************************************************************************)
(* The memo holds what the checks say of the copy and the packages it is   *)
(* keyed by, never an answer that a retry could change.                    *)
(***************************************************************************)
MemoTruthful ==
    ~disturbed =>
        \A p \in Process : \A e \in Entries(p) : e.verdict = Truth(e.key)

(***************************************************************************)
(* A verdict is a true one when it is given and when it is given again.    *)
(***************************************************************************)
VerdictInv ==
    /\ PassIsEarned
    /\ MemoTruthful

(***************************************************************************)
(* The lock file protects a copy in use from every other verification of   *)
(* the workspace, of this process or another, unless a stale lock was      *)
(* taken over or another workspace's verification pruned the cache.        *)
(***************************************************************************)
LockProtects == disturbed => takenOver \/ pruner = "deleted"

(***************************************************************************)
(* No verification leaves its lock behind, whichever way it ends: only a   *)
(* killed process does (Drop of VerifyCopy).                               *)
(***************************************************************************)
OnlyKilledLeaveLocks ==
    lock # NoLock =>
        \/ ProcessOf[lock.owner] \notin alive
        \/ job[lock.owner].cached /\ job[lock.owner].stage # "ended"

(***************************************************************************)
(* The lock file over its whole life: taken, held, released or left.       *)
(***************************************************************************)
LockInv ==
    /\ TypeOK
    /\ LockProtects
    /\ OnlyKilledLeaveLocks
-----------------------------------------------------------------------------
(***************************************************************************)
(* What a comment says and the code does not do.                           *)
(***************************************************************************)

\* verify_diff_with_checks: "If the candidate edits existing tests, those
\* originals must also pass against its source changes, so a candidate can
\* never certify itself".
OriginalsMustPass ==
    ~disturbed =>
        \A j \in Job : verdict[j] = "pass" =>
            job[j].diff.rewrites \cap job[j].diff.breaks = {}
=============================================================================
