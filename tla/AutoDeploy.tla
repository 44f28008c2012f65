------------------------------ MODULE AutoDeploy ------------------------------
(***************************************************************************)
(* The deployment poller of the X1C host: scripts/x1c-auto-deploy.sh, and  *)
(* scripts/deploy-x1c-rag.sh, which it calls.                              *)
(*                                                                         *)
(* systemd starts the script every five minutes, and an operator may start *)
(* it at any time; a file lock lets one run at a time through.  A run      *)
(* resolves the branch, asks GitHub's CI about the commit, tests it in a   *)
(* worktree of its own, moves the production checkout to it, rebuilds and  *)
(* restarts the services, and records it.  Any command may fail, which     *)
(* ends the run, and any run may be cut off where it stands: what it left  *)
(* in the file system is what the next one finds.  After a loss of power   *)
(* infra/systemd/agentweb-rag.service starts the services at the boot,     *)
(* from the images there are, and asks for no lock.                        *)
(***************************************************************************)
EXTENDS Naturals, FiniteSets

CONSTANTS
    Runs,       \* what starts the script: the timer, an operator
    Commits,
    Initial,    \* the commit that production was installed from
    Images,     \* the images that `compose build' builds, one by one
    Services,   \* the containers that `compose up' recreates, one by one
    ImageOf,    \* the image of each service
    Good,       \* commits whose candidate tests pass on all of their files
    Healthy,    \* commits whose services become healthy
    None,       \* no commit
    MaxPushes,  \* bound: pushes to the branch, forced ones included
    MaxForced,  \* bound: forced ones
    MaxFaults,  \* bound: commands that fail, runs that are cut off
    MaxRetries  \* bound: CI workflows started again, failed markers removed

ASSUME CommitsAssumption ==
    Initial \in Commits /\ Good \subseteq Commits /\ Healthy \subseteq Commits /\ None \notin Commits
ASSUME ImagesAssumption == ImageOf \in [Services -> Images]
ASSUME BoundsAssumption ==
    MaxPushes \in Nat /\ MaxForced \in Nat /\ MaxFaults \in Nat /\ MaxRetries \in Nat

VARIABLES
    branch,     \* the commit that origin/$BRANCH points to
    reachable,  \* the commits that a fetch of the branch brings
    pushed,     \* every commit the branch has pointed to
    ci,         \* the latest push workflow of each commit
    pc,         \* the command each run is at
    remote,     \* remote_sha of each run
    objects,    \* the commits in the deployment checkout's object store
    trees,      \* the release worktree of each commit
    failed,     \* the failed-$sha markers
    checkout,   \* the deployment checkout: its HEAD, whether its files are all of that commit,
                \* whether git's index.lock lies in it
    image,      \* the commit that each image tag of production was built from
    running,    \* the commit that each service runs
    booting,    \* whether agentweb-rag.service is at its `compose up'
    deployed,   \* the deployed-sha file
    green, tested,  \* history: commits that CI passed; whose tests passed on all of their files
    forced, pushes, faults, retries  \* counted against the bounds

remoteVars == <<branch, reachable, pushed, ci, green>>
counters == <<forced, pushes, faults, retries>>
hostVars == <<objects, trees, failed, checkout, image, running, booting, deployed, tested>>
vars == <<remoteVars, counters, hostVars, pc, remote>>

Steps == {"idle", "resolve", "ask ci", "fetch", "worktree", "test", "checkout",
          "build", "up", "health", "record"}

\* "occupied": the path exists and is no worktree of the commit; "torn": it is one, and lacks files.
TreeStates == {"absent", "occupied", "torn", "intact"}

TypeOK ==
    /\ branch \in Commits /\ reachable \subseteq Commits /\ pushed \subseteq Commits
    /\ ci \in [Commits -> {"pending", "passed", "failed"}]
    /\ pc \in [Runs -> Steps]
    /\ remote \in [Runs -> Commits \cup {None}]
    /\ \A r \in Runs : remote[r] = None <=> pc[r] \in {"idle", "resolve"}
    /\ objects \subseteq Commits
    /\ trees \in [Commits -> TreeStates]
    /\ failed \subseteq Commits
    /\ checkout \in [at : Commits, clean : BOOLEAN, locked : BOOLEAN]
    /\ image \in [Images -> Commits]
    /\ running \in [Services -> Commits] /\ booting \in BOOLEAN
    /\ deployed \in Commits \cup {None}
    /\ green \subseteq Commits /\ tested \subseteq Commits
    /\ pushes \in 0 .. MaxPushes /\ forced \in 0 .. MaxForced
    /\ faults \in 0 .. MaxFaults /\ retries \in 0 .. MaxRetries

\* As the first check leaves it, which bootstrap-x1c-cd.sh starts once it has cloned the branch.
Init ==
    /\ branch = Initial /\ reachable = {Initial} /\ pushed = {Initial}
    /\ ci = [c \in Commits |-> IF c = Initial THEN "passed" ELSE "pending"]
    /\ pc = [r \in Runs |-> "idle"]
    /\ remote = [r \in Runs |-> None]
    /\ objects = {Initial}
    /\ trees = [c \in Commits |-> "absent"]
    /\ failed = {}
    /\ checkout = [at |-> Initial, clean |-> TRUE, locked |-> FALSE]
    /\ image = [i \in Images |-> Initial]
    /\ running = [s \in Services |-> Initial] /\ booting = FALSE
    /\ deployed = Initial
    /\ green = {Initial} /\ tested = {}
    /\ forced = 0 /\ pushes = 0 /\ faults = 0 /\ retries = 0

-----------------------------------------------------------------------------
(* GitHub, and the operator.                                               *)

\* A push of a new commit on top, or a forced one of any commit, which drops the others.
Push(c, isForced) ==
    /\ pushes < MaxPushes /\ c # branch
    /\ IF isForced THEN forced < MaxForced ELSE c \notin pushed
    /\ branch' = c
    /\ reachable' = IF isForced THEN {c} ELSE reachable \cup {c}
    /\ pushed' = pushed \cup {c}
    /\ pushes' = pushes + 1
    /\ forced' = IF isForced THEN forced + 1 ELSE forced
    /\ UNCHANGED <<ci, green, faults, retries, hostVars, pc, remote>>

FinishCI(c) ==
    /\ c \in pushed /\ ci[c] = "pending"
    /\ \E outcome \in {"passed", "failed"} :
          /\ ci' = [ci EXCEPT ![c] = outcome]
          /\ green' = IF outcome = "passed" THEN green \cup {c} ELSE green
    /\ UNCHANGED <<branch, reachable, pushed, counters, hostVars, pc, remote>>

\* Somebody starts the workflow of a commit again: until it ends, its status is not "completed".
RerunCI(c) ==
    /\ ci[c] # "pending" /\ retries < MaxRetries
    /\ ci' = [ci EXCEPT ![c] = "pending"]
    /\ retries' = retries + 1
    /\ UNCHANGED <<branch, reachable, pushed, green, forced, pushes, faults,
                   hostVars, pc, remote>>

\* docs/x1c-cicd.md:114-116: to retry a commit, remove its failed marker.
RemoveMarker(c) ==
    /\ c \in failed /\ retries < MaxRetries
    /\ failed' = failed \ {c}
    /\ retries' = retries + 1
    /\ UNCHANGED <<remoteVars, forced, pushes, faults,
                   objects, trees, checkout, image, running, booting, deployed, tested, pc, remote>>

-----------------------------------------------------------------------------
(* A run.                                                                  *)

\* flock -n: the lock goes with the process that holds it.
LockFree(r) == \A other \in Runs \ {r} : pc[other] = "idle"

GoTo(r, step) == pc' = [pc EXCEPT ![r] = step] /\ UNCHANGED remote

End(r) ==
    /\ pc' = [pc EXCEPT ![r] = "idle"]
    /\ remote' = [remote EXCEPT ![r] = None]

\* A checkout with tracked changes makes the script refuse, every time.
Start(r) ==
    /\ pc[r] = "idle"
    /\ LockFree(r)
    /\ checkout.clean
    /\ GoTo(r, "resolve")
    /\ UNCHANGED <<remoteVars, counters, hostVars>>

Resolve_Unchecked(r) ==
    /\ pc[r] = "resolve"
    /\ pc' = [pc EXCEPT ![r] = "ask ci"]
    /\ \E sha \in {branch, None} : remote' = [remote EXCEPT ![r] = sha]
    /\ UNCHANGED <<remoteVars, counters, hostVars>>

\* ls-remote; the run ends here when the commit is deployed already, or known to fail.
Resolve(r) ==
    /\ pc[r] = "resolve"
    /\ IF branch = deployed \/ branch \in failed
       THEN End(r)
       ELSE /\ pc' = [pc EXCEPT ![r] = "ask ci"]
            /\ remote' = [remote EXCEPT ![r] = branch]
    /\ UNCHANGED <<remoteVars, counters, hostVars>>

CIPassed_NotFailed(c) == ci[c] # "failed"

\* The status of the last push workflow of the commit.
CIPassed(c) == ci[c] = "passed"

AskCI(r) ==
    /\ pc[r] = "ask ci"
    /\ IF CIPassed(remote[r]) THEN GoTo(r, "fetch") ELSE End(r)
    /\ UNCHANGED <<remoteVars, counters, hostVars>>

\* The branch may have been forced away from the commit: then cat-file does not find it.
Fetch(r) ==
    /\ pc[r] = "fetch"
    /\ objects' = objects \cup reachable
    /\ IF remote[r] \in objects' THEN GoTo(r, "worktree") ELSE End(r)
    /\ UNCHANGED <<remoteVars, counters,
                   trees, failed, checkout, image, running, booting, deployed, tested>>

AddWorktree_New(r) ==
    /\ pc[r] = "worktree"
    /\ IF trees[remote[r]] # "absent"
       THEN End(r) /\ UNCHANGED trees
       ELSE /\ trees' = [trees EXCEPT ![remote[r]] = "intact"]
            /\ GoTo(r, "test")
    /\ UNCHANGED <<remoteVars, counters,
                   objects, failed, checkout, image, running, booting, deployed, tested>>

\* An existing worktree is accepted by its HEAD, whatever files it has.
AddWorktree(r) ==
    /\ pc[r] = "worktree"
    /\ IF trees[remote[r]] = "occupied"
       THEN End(r) /\ UNCHANGED trees
       ELSE /\ trees' = [trees EXCEPT ![remote[r]] = IF @ = "absent" THEN "intact" ELSE @]
            /\ GoTo(r, "test")
    /\ UNCHANGED <<remoteVars, counters,
                   objects, failed, checkout, image, running, booting, deployed, tested>>

CandidatePasses(r) ==
    /\ pc[r] = "test"
    /\ remote[r] \in Good \/ trees[remote[r]] = "torn"
    /\ tested' = IF trees[remote[r]] = "intact" THEN tested \cup {remote[r]} ELSE tested
    /\ GoTo(r, "checkout")
    /\ UNCHANGED <<remoteVars, counters, objects, trees, failed, checkout, image, running, booting, deployed>>

\* A test fails, or a build does for a reason that has nothing to do with the commit: the
\* script does not tell the two apart.
CandidateFails(r) ==
    /\ pc[r] = "test"
    /\ \/ remote[r] \in Good /\ trees[remote[r]] = "intact"
          /\ faults < MaxFaults /\ faults' = faults + 1
       \/ (remote[r] \notin Good \/ trees[remote[r]] = "torn") /\ UNCHANGED faults
    /\ failed' = failed \cup {remote[r]}
    /\ End(r)
    /\ UNCHANGED <<remoteVars, forced, pushes, retries,
                   objects, trees, checkout, image, running, booting, deployed, tested>>

Advance_Recorded(r) ==
    /\ pc[r] = "checkout" /\ ~checkout.locked
    /\ checkout' = [checkout EXCEPT !.at = remote[r], !.clean = TRUE]
    /\ deployed' = remote[r]
    /\ GoTo(r, "build")
    /\ UNCHANGED <<remoteVars, counters, objects, trees, failed, image, running, booting, tested>>

\* git checkout --detach, which fails for as long as there is an index.lock.
Advance(r) ==
    /\ pc[r] = "checkout"
    /\ IF checkout.locked
       THEN End(r) /\ UNCHANGED checkout
       ELSE /\ checkout' = [checkout EXCEPT !.at = remote[r], !.clean = TRUE]
            /\ GoTo(r, "build")
    /\ UNCHANGED <<remoteVars, counters,
                   objects, trees, failed, image, running, booting, deployed, tested>>

-----------------------------------------------------------------------------
(* deploy-x1c-rag.sh                                                       *)

\* compose build: whatever the checkout holds by now, one image after the other.
Build(r, i) ==
    /\ pc[r] = "build"
    /\ image[i] # checkout.at
    /\ image' = [image EXCEPT ![i] = checkout.at]
    /\ UNCHANGED <<remoteVars, counters, pc, remote,
                   objects, trees, failed, checkout, running, booting, deployed, tested>>

FinishBuild(r) ==
    /\ pc[r] = "build"
    /\ \A i \in Images : image[i] = checkout.at
    /\ GoTo(r, "up")
    /\ UNCHANGED <<remoteVars, counters, hostVars>>

\* compose up -d: the services whose image has changed are recreated one after the other.
Current(s) == image[ImageOf[s]]
Recreate(s) ==
    /\ running[s] # Current(s)
    /\ running' = [running EXCEPT ![s] = Current(s)]
    /\ UNCHANGED <<remoteVars, counters, pc, remote,
                   objects, trees, failed, checkout, image, booting, deployed, tested>>

Up(r, s) == pc[r] = "up" /\ Recreate(s)

FinishUp(r) ==
    /\ pc[r] = "up"
    /\ \A s \in Services : running[s] = Current(s)
    /\ GoTo(r, "health")
    /\ UNCHANGED <<remoteVars, counters, hostVars>>

\* check-x1c-rag.sh, every two seconds for four minutes; an unhealthy release stays.
CheckHealth(r) ==
    /\ pc[r] = "health"
    /\ IF \A s \in Services : running[s] \in Healthy THEN GoTo(r, "record") ELSE End(r)
    /\ UNCHANGED <<remoteVars, counters, hostVars>>

Record(r) ==
    /\ pc[r] = "record"
    /\ deployed' = remote[r]
    /\ failed' = failed \ {remote[r]}
    /\ End(r)
    /\ UNCHANGED <<remoteVars, counters, objects, trees, checkout, image, running, booting, tested>>

-----------------------------------------------------------------------------
(* Faults.                                                                 *)

Fault == faults < MaxFaults /\ faults' = faults + 1

\* A command outside of the candidate's tests fails: the script ends, and nothing is undone.
StepFails(r) ==
    /\ Fault
    /\ pc[r] \in {"resolve", "ask ci", "fetch", "worktree", "checkout", "build", "up", "health"}
    /\ End(r)
    /\ UNCHANGED <<remoteVars, forced, pushes, retries, hostVars>>

\* The process is killed, or the host loses power, in the middle of a command: of
\* `git worktree add', with some files written; of `git checkout', the same, and with or
\* without its lock; of the redirection that writes deployed-sha, with the file truncated.
CutOff(r) ==
    /\ Fault
    /\ pc[r] # "idle"
    /\ IF pc[r] = "worktree" /\ trees[remote[r]] = "absent"
       THEN \E left \in TreeStates \ {"intact"} : trees' = [trees EXCEPT ![remote[r]] = left]
       ELSE UNCHANGED trees
    /\ IF pc[r] = "checkout" /\ ~checkout.locked
       THEN checkout' \in [at : {checkout.at}, clean : BOOLEAN, locked : BOOLEAN]
       ELSE UNCHANGED checkout
    /\ IF pc[r] = "record"
       THEN deployed' \in {deployed, None}
       ELSE UNCHANGED deployed
    /\ booting' \in {booting, TRUE}
    /\ End(r)
    /\ UNCHANGED <<remoteVars, forced, pushes, retries, objects, failed, image, running, tested>>

\* A loss of power while no run is under way.
LosePower ==
    /\ Fault
    /\ \A r \in Runs : pc[r] = "idle"
    /\ booting' = TRUE
    /\ UNCHANGED <<remoteVars, forced, pushes, retries, pc, remote,
                   objects, trees, failed, checkout, image, running, deployed, tested>>

\* agentweb-rag.service: `compose up' at the boot, beside any run; it may end half way.
UpAtBoot(s) == booting /\ Recreate(s)
FinishBoot ==
    /\ booting
    /\ booting' = FALSE
    /\ UNCHANGED <<remoteVars, counters, pc, remote,
                   objects, trees, failed, checkout, image, running, deployed, tested>>

Command(r) ==
    \/ Resolve(r) \/ AskCI(r) \/ Fetch(r) \/ AddWorktree(r)
    \/ CandidatePasses(r) \/ CandidateFails(r) \/ Advance(r)
    \/ (\E i \in Images : Build(r, i)) \/ FinishBuild(r)
    \/ (\E s \in Services : Up(r, s)) \/ FinishUp(r) \/ CheckHealth(r) \/ Record(r)

Next ==
    \/ \E c \in Commits :
          \/ \E isForced \in BOOLEAN : Push(c, isForced)
          \/ FinishCI(c) \/ RerunCI(c) \/ RemoveMarker(c)
    \/ \E r \in Runs : Start(r) \/ Command(r) \/ StepFails(r) \/ CutOff(r)
    \/ LosePower \/ (\E s \in Services : UpAtBoot(s)) \/ FinishBoot

\* The timer starts the script again and again (agentweb-rag-cd.timer), git and curl have a
\* timeout and the health check gives up after four minutes; that docker answers is assumed
\* (TimeoutStartSec=0).  Pushes, CI, the operator and the faults owe nothing.
Spec == Init /\ [][Next]_vars

FairSpec == Spec /\ WF_vars(\E r \in Runs : Start(r) \/ Command(r))

-----------------------------------------------------------------------------
(* Properties.                                                             *)

\* docs/x1c-cicd.md:36-47: production runs no commit but one that CI has passed and whose
\* candidate tests have passed -- on all of its files, unless a worktree was cut off while it
\* was made, which a later run takes for complete (x1c-auto-deploy.sh:148-153).
ProductionIsTested ==
    \A s \in Services :
        \/ running[s] = Initial
        \/ running[s] \in green /\ (running[s] \in tested \/ trees[running[s]] = "torn")

RunsEverywhere(c) == \A s \in Services : running[s] = c

\* The recorded commit is what production runs, however many runs were started at once, cut off
\* or failed half way: whenever HEAD of the checkout is at it (services of another commit are
\* only found with a HEAD that moved on), and, as long as nobody rewrites the branch, whenever
\* the branch is, so that "production already runs" (x1c-auto-deploy.sh:79-82) is true.
MarkersAgree ==
    /\ checkout.at = deployed => RunsEverywhere(deployed)
    /\ forced = 0 /\ branch = deployed => RunsEverywhere(deployed)

\* What ends the matter of a commit: it is recorded, and production runs it unless the branch
\* was rewritten (a branch forced back to the recorded commit after another one's failed
\* deployment is reported as running, and is not); or its tests have failed; or somebody has
\* to look at it.
Settled(c) ==
    \/ deployed = c /\ (forced = 0 => RunsEverywhere(c))
    \/ c \in failed
    \/ c \notin Healthy
    \/ trees[c] = "occupied" \/ ~checkout.clean \/ checkout.locked

\* A commit that stays the head of the branch and stays passed by CI is deployed in the end,
\* or given up for one of the reasons above, whatever failed or was cut off in between.
WantedIsSettled ==
    \A c \in Commits :
        <>[](branch = c /\ ci[c] = "passed") => []<>Settled(c)
=============================================================================
