--------------------------- MODULE AutoDeployProofs ---------------------------
(***************************************************************************)
(* Proofs about AutoDeploy, for any runs, commits, images, services and    *)
(* bounds: the lock lets one run at a time through, so what a run has      *)
(* established about the commit it resolved holds until it ends.           *)
(***************************************************************************)
EXTENDS AutoDeploy, TLAPS

RunTypes ==
    /\ pc \in [Runs -> Steps]
    /\ remote \in [Runs -> Commits \cup {None}]
    /\ \A r \in Runs : remote[r] = None <=> pc[r] \in {"idle", "resolve"}

LEMMA TypesByRun == TypeOK => RunTypes
BY DEF TypeOK, RunTypes

LEMMA EndTypes == ASSUME RunTypes, NEW r \in Runs, End(r) PROVE RunTypes'
<1>1. pc' \in [Runs -> Steps] /\ remote' \in [Runs -> Commits \cup {None}]
  BY DEF RunTypes, End, Steps
<1>2. ASSUME NEW q \in Runs
      PROVE  remote'[q] = None <=> pc'[q] \in {"idle", "resolve"}
  <2>1. CASE q = r
    BY <2>1 DEF RunTypes, End
  <2>2. CASE q # r
    BY <2>2 DEF RunTypes, End
  <2> QED BY <2>1, <2>2
<1> QED BY <1>1, <1>2 DEF RunTypes

LEMMA GoToTypes ==
    ASSUME RunTypes, NEW r \in Runs, pc[r] \notin {"idle", "resolve"},
           NEW step \in Steps \ {"idle", "resolve"}, GoTo(r, step)
    PROVE  RunTypes'
<1>1. pc' \in [Runs -> Steps] /\ remote' = remote
  BY DEF RunTypes, GoTo
<1>2. \A q \in Runs : pc'[q] = IF q = r THEN step ELSE pc[q]
  BY DEF RunTypes, GoTo
<1> QED BY <1>1, <1>2 DEF RunTypes

LEMMA FaultTypes == ASSUME TypeOK, Fault PROVE faults' \in 0 .. MaxFaults
BY BoundsAssumption DEF TypeOK, Fault

LEMMA RecreateTypes == ASSUME TypeOK, NEW s \in Services, Recreate(s) PROVE TypeOK'
<1>1. Current(s) \in Commits
  BY ImagesAssumption DEF Current, TypeOK
<1> QED BY <1>1 DEF Recreate, TypeOK, remoteVars, counters

\* The boot: a loss of power, and what agentweb-rag.service does after it.
Boot == LosePower \/ (\E s \in Services : UpAtBoot(s)) \/ FinishBoot

\* Type correctness: a run past the look-up holds a commit, and every marker names one.
THEOREM TypeCorrect == Spec => []TypeOK
<1>1. Init => TypeOK
  <2> SUFFICES ASSUME Init PROVE TypeOK
    OBVIOUS
  <2>1. pc \in [Runs -> Steps] /\ remote \in [Runs -> Commits \cup {None}]
    BY DEF Init, Steps
  <2>2. \A r \in Runs : remote[r] = None <=> pc[r] \in {"idle", "resolve"}
    BY DEF Init
  <2>3. trees \in [Commits -> TreeStates] /\ ci \in [Commits -> {"pending", "passed", "failed"}]
    BY DEF Init, TreeStates
  <2>4. /\ checkout \in [at : Commits, clean : BOOLEAN, locked : BOOLEAN]
        /\ image \in [Images -> Commits] /\ running \in [Services -> Commits]
    BY CommitsAssumption DEF Init
  <2>5. branch \in Commits /\ reachable \subseteq Commits /\ pushed \subseteq Commits
        /\ objects \subseteq Commits /\ failed \subseteq Commits /\ booting \in BOOLEAN
        /\ deployed \in Commits \cup {None} /\ green \subseteq Commits /\ tested \subseteq Commits
    BY CommitsAssumption DEF Init
  <2>6. pushes \in 0 .. MaxPushes /\ forced \in 0 .. MaxForced
        /\ faults \in 0 .. MaxFaults /\ retries \in 0 .. MaxRetries
    BY BoundsAssumption DEF Init
  <2> QED BY <2>1, <2>2, <2>3, <2>4, <2>5, <2>6 DEF TypeOK
<1>2. TypeOK /\ [Next]_vars => TypeOK'
  <2> SUFFICES ASSUME TypeOK, [Next]_vars PROVE TypeOK'
    OBVIOUS
  <2>1. ASSUME NEW c \in Commits, NEW isForced \in BOOLEAN, Push(c, isForced) PROVE TypeOK'
    <3>1. pushes' \in 0 .. MaxPushes /\ forced' \in 0 .. MaxForced
      BY <2>1, BoundsAssumption DEF Push, TypeOK
    <3> QED BY <2>1, <3>1 DEF Push, TypeOK, hostVars
  <2>2. ASSUME NEW c \in Commits, FinishCI(c) \/ RerunCI(c) \/ RemoveMarker(c) PROVE TypeOK'
    BY <2>2, BoundsAssumption
       DEF FinishCI, RerunCI, RemoveMarker, TypeOK, remoteVars, counters, hostVars
  <2>3. ASSUME NEW r \in Runs, Start(r) PROVE TypeOK'
    BY <2>3 DEF Start, GoTo, TypeOK, Steps, remoteVars, counters, hostVars
  <2>4. ASSUME NEW r \in Runs, Command(r) PROVE TypeOK'
    <3>1. CASE Resolve(r)
      <4>1. CASE branch = deployed \/ branch \in failed
        <5>1. RunTypes'
          BY <3>1, <4>1, TypesByRun, EndTypes DEF Resolve
        <5> QED BY <3>1, <5>1 DEF Resolve, TypeOK, RunTypes, remoteVars, counters, hostVars
      <4>2. CASE ~(branch = deployed \/ branch \in failed)
        <5>1. /\ pc' = [pc EXCEPT ![r] = "ask ci"] /\ remote' = [remote EXCEPT ![r] = branch]
              /\ branch \in Commits /\ branch # None
          BY <3>1, <4>2, CommitsAssumption DEF Resolve, TypeOK
        <5>2. RunTypes'
          BY <5>1, TypesByRun DEF RunTypes, Steps
        <5> QED BY <3>1, <5>2 DEF Resolve, TypeOK, RunTypes, remoteVars, counters, hostVars
      <4> QED BY <4>1, <4>2
    <3>2. CASE AskCI(r)
      <4>1. RunTypes'
        BY <3>2, TypesByRun, EndTypes, GoToTypes DEF AskCI, Steps
      <4> QED BY <3>2, <4>1 DEF AskCI, TypeOK, RunTypes, remoteVars, counters, hostVars
    <3>3. CASE Fetch(r)
      BY <3>3 DEF Fetch, GoTo, End, TypeOK, Steps, remoteVars, counters
    <3>4. CASE AddWorktree(r)
      <4>1. RunTypes'
        BY <3>4, TypesByRun, EndTypes, GoToTypes DEF AddWorktree, Steps
      <4>2. trees' \in [Commits -> TreeStates]
        BY <3>4 DEF AddWorktree, TypeOK, TreeStates
      <4> QED BY <3>4, <4>1, <4>2 DEF AddWorktree, TypeOK, RunTypes, remoteVars, counters
    <3>5. CASE CandidatePasses(r)
      <4>1. RunTypes'
        BY <3>5, TypesByRun, GoToTypes DEF CandidatePasses, Steps
      <4>2. tested' \subseteq Commits
        BY <3>5 DEF CandidatePasses, TypeOK
      <4> QED BY <3>5, <4>1, <4>2 DEF CandidatePasses, TypeOK, RunTypes, remoteVars, counters
    <3>6. CASE CandidateFails(r)
      <4>1. RunTypes' /\ failed' \subseteq Commits
        BY <3>6, TypesByRun, EndTypes DEF CandidateFails, TypeOK
      <4>2. faults' \in 0 .. MaxFaults
        BY <3>6, BoundsAssumption DEF CandidateFails, TypeOK
      <4> QED BY <3>6, <4>1, <4>2 DEF CandidateFails, TypeOK, RunTypes, remoteVars
    <3>7. CASE Advance(r)
      <4>1. RunTypes'
        BY <3>7, TypesByRun, EndTypes, GoToTypes DEF Advance, Steps
      <4>2. checkout' \in [at : Commits, clean : BOOLEAN, locked : BOOLEAN]
        BY <3>7 DEF Advance, TypeOK
      <4> QED BY <3>7, <4>1, <4>2 DEF Advance, TypeOK, RunTypes, remoteVars, counters
    <3>8. ASSUME NEW i \in Images, Build(r, i) PROVE TypeOK'
      BY <3>8 DEF Build, TypeOK, remoteVars, counters
    <3>9. ASSUME NEW s \in Services, Up(r, s) PROVE TypeOK'
      BY <3>9, RecreateTypes DEF Up
    <3>10. CASE FinishBuild(r) \/ FinishUp(r) \/ CheckHealth(r)
      <4>1. RunTypes'
        BY <3>10, TypesByRun, EndTypes, GoToTypes DEF FinishBuild, FinishUp, CheckHealth, Steps
      <4> QED
        BY <3>10, <4>1
           DEF FinishBuild, FinishUp, CheckHealth, TypeOK, RunTypes, remoteVars, counters, hostVars
    <3>11. CASE Record(r)
      BY <3>11 DEF Record, End, TypeOK, Steps, remoteVars, counters
    <3> QED
      BY <2>4, <3>1, <3>2, <3>3, <3>4, <3>5, <3>6, <3>7, <3>8, <3>9, <3>10, <3>11 DEF Command
  <2>5. ASSUME NEW r \in Runs, StepFails(r) PROVE TypeOK'
    <3>1. RunTypes'
      BY <2>5, TypesByRun, EndTypes DEF StepFails
    <3>2. faults' \in 0 .. MaxFaults
      BY <2>5, FaultTypes DEF StepFails
    <3> QED BY <2>5, <3>1, <3>2 DEF StepFails, TypeOK, RunTypes, remoteVars, hostVars
  <2>6. ASSUME NEW r \in Runs, CutOff(r) PROVE TypeOK'
    <3>1. RunTypes' /\ faults' \in 0 .. MaxFaults
      BY <2>6, TypesByRun, EndTypes, FaultTypes DEF CutOff
    <3>2. trees' \in [Commits -> TreeStates]
      BY <2>6 DEF CutOff, TypeOK, TreeStates
    <3>3. /\ checkout' \in [at : Commits, clean : BOOLEAN, locked : BOOLEAN]
          /\ deployed' \in Commits \cup {None} /\ booting' \in BOOLEAN
      BY <2>6 DEF CutOff, TypeOK
    <3> QED BY <2>6, <3>1, <3>2, <3>3 DEF CutOff, TypeOK, RunTypes, remoteVars
  <2>7. CASE Boot
    <3>1. CASE LosePower
      BY <3>1, FaultTypes DEF LosePower, TypeOK, remoteVars
    <3>2. CASE FinishBoot
      BY <3>2 DEF FinishBoot, TypeOK, remoteVars, counters
    <3> QED BY <2>7, <3>1, <3>2, RecreateTypes DEF Boot, UpAtBoot
  <2>8. CASE UNCHANGED vars
    BY <2>8 DEF vars, TypeOK, remoteVars, counters, hostVars
  <2> QED BY <2>1, <2>2, <2>3, <2>4, <2>5, <2>6, <2>7, <2>8 DEF Next, Boot
<1> QED BY <1>1, <1>2, PTL DEF Spec

-----------------------------------------------------------------------------
(* The markers. *)

Advanced == {"build", "up", "health", "record"}

OneRun == \A r, q \in Runs : pc[r] # "idle" /\ pc[q] # "idle" => r = q

Built(c) == \A i \in Images : image[i] = c

\* A run goes past its look-up only for a commit that is not recorded yet; from the checkout
\* on HEAD is that commit, after the build every image is, after `up' every service is.
RunInv(r) ==
    /\ pc[r] \notin {"idle", "resolve"} => remote[r] # deployed
    /\ pc[r] \in Advanced => checkout.at = remote[r]
    /\ pc[r] \in Advanced \ {"build"} => Built(remote[r])
    /\ pc[r] \in {"health", "record"} => RunsEverywhere(remote[r])

\* HEAD at the recorded commit means that production runs it, and would start nothing else.
HeadAgrees == checkout.at = deployed => Built(deployed) /\ RunsEverywhere(deployed)

MarkersInv == OneRun /\ (\A r \in Runs : RunInv(r)) /\ HeadAgrees

LEMMA CommandIsOfOneRun ==
    ASSUME TypeOK, NEW r \in Runs, Command(r) \/ StepFails(r) \/ CutOff(r)
    PROVE  pc[r] # "idle" /\ \A q \in Runs \ {r} : pc'[q] = pc[q]
<1>1. \A step : GoTo(r, step) => \A q \in Runs \ {r} : pc'[q] = pc[q]
  BY DEF GoTo, TypeOK
<1>2. End(r) => \A q \in Runs \ {r} : pc'[q] = pc[q]
  BY DEF End, TypeOK
<1>3. CASE Resolve(r)
  <2>1. pc' = [pc EXCEPT ![r] = "ask ci"] => \A q \in Runs \ {r} : pc'[q] = pc[q]
    BY DEF TypeOK
  <2> QED BY <1>2, <1>3, <2>1 DEF Resolve
<1>4. CASE AskCI(r) \/ Fetch(r) \/ AddWorktree(r)
  BY <1>1, <1>2, <1>4 DEF AskCI, Fetch, AddWorktree
<1>5. CASE CandidatePasses(r) \/ CandidateFails(r) \/ Advance(r) \/ FinishBuild(r)
  BY <1>1, <1>2, <1>5 DEF CandidatePasses, CandidateFails, Advance, FinishBuild
<1>6. CASE (\E i \in Images : Build(r, i)) \/ (\E s \in Services : Up(r, s))
  BY <1>6 DEF Build, Up, Recreate
<1>7. CASE FinishUp(r) \/ CheckHealth(r) \/ Record(r)
  BY <1>1, <1>2, <1>7 DEF FinishUp, CheckHealth, Record
<1>8. CASE StepFails(r) \/ CutOff(r)
  BY <1>2, <1>8 DEF StepFails, CutOff
<1> QED BY <1>3, <1>4, <1>5, <1>6, <1>7, <1>8 DEF Command

\* The lock: whoever takes a step that is not the start of a run is the one run there is.
LEMMA OneRunKept ==
    ASSUME TypeOK, OneRun, [Next]_vars
    PROVE  OneRun'
<1>1. ASSUME NEW r \in Runs, Start(r) PROVE OneRun'
  BY <1>1 DEF Start, LockFree, GoTo, OneRun, TypeOK
<1>2. ASSUME NEW r \in Runs, Command(r) \/ StepFails(r) \/ CutOff(r) PROVE OneRun'
  <2>1. pc[r] # "idle" /\ \A q \in Runs \ {r} : pc'[q] = pc[q]
    BY <1>2, CommandIsOfOneRun
  <2> QED BY <2>1 DEF OneRun
<1>3. ASSUME NEW c \in Commits, (\E isForced \in BOOLEAN : Push(c, isForced))
                                  \/ FinishCI(c) \/ RerunCI(c) \/ RemoveMarker(c)
      PROVE  OneRun'
  BY <1>3 DEF Push, FinishCI, RerunCI, RemoveMarker, OneRun
<1>4. CASE Boot \/ UNCHANGED vars
  BY <1>4 DEF Boot, LosePower, UpAtBoot, Recreate, FinishBoot, vars, OneRun
<1> QED BY <1>1, <1>2, <1>3, <1>4 DEF Next, Boot

\* What a run does leaves the others where they are: idle.
LEMMA OthersAreIdle ==
    ASSUME TypeOK, OneRun, NEW r \in Runs, pc[r] # "idle",
           \A q \in Runs \ {r} : pc'[q] = pc[q]
    PROVE  \A q \in Runs \ {r} : pc'[q] = "idle" /\ pc[q] = "idle"
BY DEF OneRun

\* `compose up' at a boot starts what the images are.
LEMMA BootKeeps ==
    ASSUME TypeOK, NEW c, Built(c), RunsEverywhere(c), Boot
    PROVE  Built(c)' /\ RunsEverywhere(c)'
<1>1. CASE LosePower \/ FinishBoot
  BY <1>1 DEF LosePower, FinishBoot, Built, RunsEverywhere
<1>2. ASSUME NEW s \in Services, UpAtBoot(s) PROVE Built(c)' /\ RunsEverywhere(c)'
  <2>1. running' = [running EXCEPT ![s] = Current(s)] /\ image' = image
    BY <1>2 DEF UpAtBoot, Recreate
  <2>2. Current(s) = c
    BY ImagesAssumption DEF Current, Built
  <2> QED BY <2>1, <2>2 DEF Built, RunsEverywhere, TypeOK
<1> QED BY <1>1, <1>2 DEF Boot

LEMMA MarkersInvariant == Spec => []MarkersInv
<1>1. Init => MarkersInv
  BY CommitsAssumption
     DEF Init, MarkersInv, OneRun, RunInv, Advanced, HeadAgrees, Built, RunsEverywhere
<1>2. TypeOK /\ MarkersInv /\ [Next]_vars => MarkersInv'
  <2> SUFFICES ASSUME TypeOK, MarkersInv, [Next]_vars PROVE MarkersInv'
    OBVIOUS
  <2> DEFINE Kept == (\A r \in Runs : RunInv(r)') /\ HeadAgrees'
  <2>0. OneRun'
    BY OneRunKept DEF MarkersInv
  <2>1. ASSUME NEW c \in Commits, (\E isForced \in BOOLEAN : Push(c, isForced))
                                    \/ FinishCI(c) \/ RerunCI(c) \/ RemoveMarker(c)
        PROVE  Kept
    BY <2>1 DEF Push, FinishCI, RerunCI, RemoveMarker, hostVars, MarkersInv, RunInv,
                HeadAgrees, Built, RunsEverywhere
  <2>2. ASSUME NEW r \in Runs, Start(r) PROVE Kept
    BY <2>2 DEF Start, GoTo, hostVars, TypeOK, MarkersInv, RunInv, Advanced,
                HeadAgrees, Built, RunsEverywhere
  <2>3. ASSUME NEW r \in Runs, Command(r) PROVE Kept
    <3>1. pc[r] # "idle" /\ \A q \in Runs \ {r} : pc'[q] = pc[q]
      BY <2>3, CommandIsOfOneRun
    <3>2. \A q \in Runs \ {r} : RunInv(q)'
      BY <3>1, OthersAreIdle DEF MarkersInv, RunInv, Advanced
    <3>3. CASE Resolve(r) \/ AskCI(r) \/ Fetch(r) \/ AddWorktree(r)
                 \/ CandidatePasses(r) \/ CandidateFails(r)
      <4>1. UNCHANGED <<checkout, image, running, deployed>>
        BY <3>3 DEF Resolve, AskCI, Fetch, AddWorktree, CandidatePasses, CandidateFails, hostVars
      <4>2. RunInv(r)'
        BY <3>3, <4>1 DEF Resolve, AskCI, Fetch, AddWorktree, CandidatePasses, CandidateFails,
                          GoTo, End, TypeOK, MarkersInv, RunInv, Advanced
      <4> QED BY <3>2, <4>1, <4>2 DEF MarkersInv, HeadAgrees, Built, RunsEverywhere
    <3>4. CASE Advance(r)
      <4>1. CASE checkout.locked
        BY <3>2, <3>4, <4>1
           DEF Advance, End, TypeOK, MarkersInv, RunInv, Advanced, HeadAgrees, Built, RunsEverywhere
      <4>2. CASE ~checkout.locked
        <5>1. /\ pc[r] = "checkout" /\ pc'[r] = "build" /\ checkout'.at = remote[r]
              /\ UNCHANGED <<remote, image, running, deployed>>
          BY <3>4, <4>2 DEF Advance, GoTo, TypeOK
        <5>2. remote[r] # deployed
          BY <5>1 DEF MarkersInv, RunInv
        <5> QED BY <3>2, <5>1, <5>2 DEF RunInv, Advanced, HeadAgrees
      <4> QED BY <4>1, <4>2
    <3>5. ASSUME NEW i \in Images, Build(r, i) PROVE Kept
      BY <3>2, <3>5 DEF Build, TypeOK, MarkersInv, RunInv, Advanced, HeadAgrees
    <3>6. ASSUME NEW s \in Services, Up(r, s) PROVE Kept
      <4>1. UNCHANGED <<pc, remote, checkout, image, deployed>> /\ pc[r] = "up"
        BY <3>6 DEF Up, Recreate
      <4> QED BY <3>2, <4>1 DEF MarkersInv, RunInv, Advanced, HeadAgrees, Built
    <3>7. CASE FinishBuild(r)
      BY <3>2, <3>7 DEF FinishBuild, GoTo, hostVars, TypeOK, MarkersInv, RunInv, Advanced,
                        HeadAgrees, Built, RunsEverywhere
    <3>8. CASE FinishUp(r)
      <4>1. \A s \in Services : running[s] = remote[r]
        BY <3>8, ImagesAssumption DEF FinishUp, Current, MarkersInv, RunInv, Advanced, Built
      <4> QED BY <3>2, <3>8, <4>1
              DEF FinishUp, GoTo, hostVars, TypeOK, MarkersInv, RunInv, Advanced, HeadAgrees, Built,
                  RunsEverywhere
    <3>9. CASE CheckHealth(r)
      BY <3>2, <3>9 DEF CheckHealth, GoTo, End, hostVars, TypeOK, MarkersInv, RunInv, Advanced,
                        HeadAgrees, Built, RunsEverywhere
    <3>10. CASE Record(r)
      BY <3>2, <3>10 DEF Record, End, TypeOK, MarkersInv, RunInv, Advanced, HeadAgrees, Built,
                         RunsEverywhere
    <3> QED BY <2>3, <3>3, <3>4, <3>5, <3>6, <3>7, <3>8, <3>9, <3>10 DEF Command
  <2>4. ASSUME NEW r \in Runs, StepFails(r) \/ CutOff(r) PROVE Kept
    <3>1. pc[r] # "idle" /\ \A q \in Runs \ {r} : pc'[q] = pc[q]
      BY <2>4, CommandIsOfOneRun
    <3>2. \A q \in Runs \ {r} : RunInv(q)'
      BY <3>1, OthersAreIdle DEF MarkersInv, RunInv, Advanced
    <3>3. pc'[r] = "idle" /\ UNCHANGED <<image, running>> /\ checkout'.at = checkout.at
      BY <2>4 DEF StepFails, CutOff, End, hostVars, TypeOK
    <3>4. deployed' \in {deployed, None} /\ checkout.at # None
      BY <2>4, CommitsAssumption DEF StepFails, CutOff, hostVars, TypeOK
    <3> QED
      BY <3>2, <3>3, <3>4 DEF MarkersInv, RunInv, Advanced, HeadAgrees, Built, RunsEverywhere
  <2>5. ASSUME Boot PROVE Kept
    <3>1. UNCHANGED <<pc, remote, checkout, image, deployed>>
      BY <2>5 DEF Boot, LosePower, UpAtBoot, Recreate, FinishBoot
    <3>2. ASSUME NEW c, Built(c), RunsEverywhere(c) PROVE RunsEverywhere(c)'
      BY <2>5, <3>2, BootKeeps
    <3> QED BY <3>1, <3>2 DEF MarkersInv, RunInv, Advanced, HeadAgrees, Built, RunsEverywhere
  <2>6. ASSUME UNCHANGED vars PROVE Kept
    <3>1. UNCHANGED <<pc, remote, checkout, image, running, deployed>>
      BY <2>6 DEF vars, hostVars
    <3> QED BY <3>1 DEF MarkersInv, RunInv, HeadAgrees, Built, RunsEverywhere
  <2> QED BY <2>0, <2>1, <2>2, <2>3, <2>4, <2>5, <2>6 DEF Next, Boot, MarkersInv
<1> QED BY <1>1, <1>2, TypeCorrect, PTL DEF Spec

\* The branch, unless it is rewritten, comes to no commit twice: once it has left the recorded
\* commit it does not come back, and while it is there no run goes past its look-up.
BranchInv ==
    /\ branch \in pushed
    /\ \A r \in Runs : remote[r] \in pushed \cup {None}
    /\ deployed \in pushed \cup {None}
    /\ forced = 0 /\ branch = deployed =>
          /\ Built(deployed) /\ RunsEverywhere(deployed)
          /\ \A r \in Runs : pc[r] \in {"idle", "resolve"}

\* A run finds its commit at the head of the branch.
LEMMA BranchInvariant == Spec => []BranchInv
<1>1. Init => BranchInv
  BY DEF Init, BranchInv, Built, RunsEverywhere
<1>2. TypeOK /\ MarkersInv /\ BranchInv /\ [Next]_vars => BranchInv'
  <2> SUFFICES ASSUME TypeOK, MarkersInv, BranchInv, [Next]_vars PROVE BranchInv'
    OBVIOUS
  <2>none. branch \in Commits /\ branch # None
    BY CommitsAssumption DEF TypeOK
  <2>1. ASSUME NEW c \in Commits, NEW isForced \in BOOLEAN, Push(c, isForced) PROVE BranchInv'
    <3>1. /\ branch' = c /\ pushed' = pushed \cup {c} /\ c # None
          /\ UNCHANGED <<pc, remote, deployed, image, running>>
      BY <2>1, CommitsAssumption DEF Push, hostVars
    <3>2. forced' = 0 => c \notin pushed
      BY <2>1 DEF Push, TypeOK
    <3> QED BY <3>1, <3>2 DEF BranchInv
  <2>2. ASSUME NEW c \in Commits, FinishCI(c) \/ RerunCI(c) \/ RemoveMarker(c) PROVE BranchInv'
    BY <2>2 DEF FinishCI, RerunCI, RemoveMarker, hostVars, remoteVars, counters, BranchInv,
                Built, RunsEverywhere
  <2>3. ASSUME NEW r \in Runs, Start(r) PROVE BranchInv'
    BY <2>3 DEF Start, GoTo, hostVars, remoteVars, counters, TypeOK, BranchInv, Built,
                RunsEverywhere
  <2>4. ASSUME NEW r \in Runs, Command(r) \/ StepFails(r) \/ CutOff(r) PROVE BranchInv'
    <3>1. pc[r] # "idle" /\ \A q \in Runs \ {r} : pc'[q] = pc[q] /\ pc'[q] = "idle"
      BY <2>4, CommandIsOfOneRun, OthersAreIdle DEF MarkersInv
    <3>2. UNCHANGED <<branch, pushed, forced>>
      BY <2>4 DEF Command, Resolve, AskCI, Fetch, AddWorktree, CandidatePasses, CandidateFails,
                  Advance, Build, FinishBuild, Up, Recreate, FinishUp, CheckHealth, Record,
                  StepFails, CutOff,
                  remoteVars, counters
    <3>3. \A q \in Runs : remote'[q] \in pushed \cup {None}
      <4>1. \A step : GoTo(r, step) => remote' = remote
        BY DEF GoTo
      <4>2. remote' = remote \/ End(r) \/ remote' = [remote EXCEPT ![r] = branch]
        BY <2>4, <4>1 DEF Command, Resolve, AskCI, Fetch, AddWorktree, CandidatePasses,
                  CandidateFails, Advance, Build, FinishBuild, Up, Recreate, FinishUp,
                  CheckHealth, Record, StepFails, CutOff
      <4> QED BY <4>2 DEF End, TypeOK, BranchInv
    <3>4. CASE Record(r)
      <4>1. /\ deployed' = remote[r] /\ UNCHANGED <<image, running>>
            /\ Built(remote[r]) /\ RunsEverywhere(remote[r])
        BY <3>4 DEF Record, MarkersInv, RunInv, Advanced
      <4>2. \A q \in Runs : pc'[q] = "idle"
        BY <3>1, <3>4 DEF Record, End, TypeOK
      <4> QED BY <3>2, <3>3, <4>1, <4>2 DEF BranchInv, Built, RunsEverywhere
    <3>5. CASE ~Record(r)
      <4>1. deployed' \in {deployed, None}
        BY <2>4, <3>5 DEF Command, Resolve, AskCI, Fetch, AddWorktree, CandidatePasses,
                  CandidateFails, Advance, Build, FinishBuild, Up, Recreate, FinishUp,
                  CheckHealth, StepFails, CutOff, hostVars
      <4>2. ASSUME forced' = 0, branch' = deployed'
            PROVE  /\ Built(deployed)' /\ RunsEverywhere(deployed)'
                   /\ \A q \in Runs : pc'[q] \in {"idle", "resolve"}
        <5>1. forced = 0 /\ branch = deployed /\ deployed' = deployed
          BY <2>none, <3>2, <4>1, <4>2
        <5>2. pc[r] = "resolve" /\ Built(deployed) /\ RunsEverywhere(deployed)
          BY <3>1, <5>1 DEF BranchInv
        <5>3. Resolve(r) \/ StepFails(r) \/ CutOff(r)
          BY <2>4, <3>5, <5>2
             DEF Command, AskCI, Fetch, AddWorktree, CandidatePasses, CandidateFails, Advance,
                 Build, FinishBuild, Up, FinishUp, CheckHealth
        <5>4. UNCHANGED <<image, running>> /\ pc'[r] = "idle"
          BY <5>1, <5>3 DEF Resolve, StepFails, CutOff, End, hostVars, TypeOK
        <5> QED BY <3>1, <5>1, <5>2, <5>4 DEF Built, RunsEverywhere
      <4> QED BY <3>2, <3>3, <4>1, <4>2 DEF BranchInv
    <3> QED BY <3>4, <3>5
  <2>5. CASE Boot
    <3>1. UNCHANGED <<branch, pushed, forced, pc, remote, deployed>>
      BY <2>5 DEF Boot, LosePower, UpAtBoot, Recreate, FinishBoot, remoteVars, counters
    <3>2. Built(deployed) /\ RunsEverywhere(deployed)
            => Built(deployed)' /\ RunsEverywhere(deployed)'
      BY <2>5, <3>1, BootKeeps DEF Built, RunsEverywhere
    <3> QED BY <3>1, <3>2 DEF BranchInv
  <2>6. CASE UNCHANGED vars
    BY <2>6 DEF vars, hostVars, remoteVars, counters, BranchInv, Built, RunsEverywhere
  <2> QED BY <2>1, <2>2, <2>3, <2>4, <2>5, <2>6 DEF Next, Boot
<1> QED BY <1>1, <1>2, TypeCorrect, MarkersInvariant, PTL DEF Spec

\* The recorded commit is what production runs whenever HEAD of the checkout is at it, and,
\* unless the branch is rewritten, whenever the branch is: "production already runs" is true,
\* for any number of runs started at once and any faults.
THEOREM MarkersAgreeCorrect == Spec => []MarkersAgree
<1>1. MarkersInv /\ BranchInv => MarkersAgree
  BY DEF MarkersInv, HeadAgrees, BranchInv, MarkersAgree
<1> QED BY <1>1, MarkersInvariant, BranchInvariant, PTL

-----------------------------------------------------------------------------
(* What production runs. *)

Vetted(c) == c = Initial \/ (c \in green /\ (c \in tested \/ trees[c] = "torn"))

\* What a run has established about its commit: CI passed it, it has a worktree, the tests
\* passed there.
Asked == Steps \ {"idle", "resolve", "ask ci"}
Tested == {"checkout"} \cup Advanced

VettingInv ==
    /\ \A c \in Commits : ci[c] = "passed" => c \in green
    /\ \A r \in Runs :
          /\ pc[r] \in Asked => remote[r] \in green
          /\ pc[r] = "test" => trees[remote[r]] \in {"intact", "torn"}
          /\ pc[r] \in Tested => Vetted(remote[r])
    /\ \A i \in Images : Vetted(image[i])
    /\ \A s \in Services : Vetted(running[s])

\* CI may be started again, but what it passed it has passed; a torn worktree stays one.
LEMMA VettedStays ==
    ASSUME TypeOK, [Next]_vars, NEW c \in Commits, Vetted(c)
    PROVE  Vetted(c)'
<1> DEFINE Grows == /\ green \subseteq green' /\ tested \subseteq tested'
                    /\ trees[c] = "torn" => trees'[c] = "torn"
<1>1. ASSUME NEW d \in Commits, (\E isForced \in BOOLEAN : Push(d, isForced))
                                  \/ FinishCI(d) \/ RerunCI(d) \/ RemoveMarker(d)
      PROVE  Grows
  BY <1>1 DEF Push, FinishCI, RerunCI, RemoveMarker, hostVars, remoteVars
<1>2. ASSUME NEW r \in Runs, Start(r) \/ StepFails(r) PROVE Grows
  BY <1>2 DEF Start, StepFails, hostVars, remoteVars
<1>3. ASSUME NEW r \in Runs, Command(r) PROVE Grows
  <2>1. CASE AddWorktree(r)
    BY <2>1 DEF AddWorktree, TypeOK, remoteVars
  <2>2. CASE Resolve(r) \/ AskCI(r) \/ Fetch(r) \/ CandidatePasses(r) \/ CandidateFails(r)
    BY <2>2 DEF Resolve, AskCI, Fetch, CandidatePasses, CandidateFails, hostVars, remoteVars
  <2>3. CASE Advance(r) \/ FinishBuild(r) \/ FinishUp(r) \/ CheckHealth(r) \/ Record(r)
               \/ (\E i \in Images : Build(r, i)) \/ (\E s \in Services : Up(r, s))
    BY <2>3 DEF Advance, Build, FinishBuild, Up, Recreate, FinishUp, CheckHealth, Record, hostVars,
                remoteVars
  <2> QED BY <1>3, <2>1, <2>2, <2>3 DEF Command
<1>4. ASSUME NEW r \in Runs, CutOff(r) PROVE Grows
  BY <1>4 DEF CutOff, TypeOK, remoteVars
<1>5. ASSUME Boot \/ UNCHANGED vars PROVE Grows
  BY <1>5 DEF Boot, LosePower, UpAtBoot, Recreate, FinishBoot, vars, hostVars, remoteVars
<1> HIDE DEF Grows
<1>6. Grows
  BY <1>1, <1>2, <1>3, <1>4, <1>5 DEF Next, Boot
<1> QED BY <1>6 DEF Vetted, Grows

\* Production runs no commit but one that CI has passed and whose candidate tests have passed,
\* on all of its files unless its worktree was torn, for any number of runs and any faults.
THEOREM ProductionIsTestedCorrect == Spec => []ProductionIsTested
<1>1. Init => VettingInv
  BY CommitsAssumption DEF Init, VettingInv, Asked, Tested, Advanced, Vetted
<1>2. TypeOK /\ MarkersInv /\ VettingInv /\ [Next]_vars => VettingInv'
  <2> SUFFICES ASSUME TypeOK, MarkersInv, VettingInv, [Next]_vars PROVE VettingInv'
    OBVIOUS
  <2> DEFINE OfRun(r) == /\ pc[r] \in Asked => remote[r] \in green
                         /\ pc[r] = "test" => trees[remote[r]] \in {"intact", "torn"}
                         /\ pc[r] \in Tested => Vetted(remote[r])
  <2> DEFINE AllVetted == /\ \A i \in Images : Vetted(image[i])
                          /\ \A s \in Services : Vetted(running[s])
  <2>1. \A c \in Commits : Vetted(c) => Vetted(c)'
    BY VettedStays
  <2>2. \A r \in Runs : OfRun(r)
    BY DEF VettingInv
  <2>3. \A s \in Services : running[s] \in Commits /\ Vetted(running[s])
    BY DEF VettingInv, TypeOK
  <2>4. \A i \in Images : image[i] \in Commits /\ Vetted(image[i])
    BY DEF VettingInv, TypeOK
  <2>5. ASSUME NEW c \in Commits, (\E isForced \in BOOLEAN : Push(c, isForced))
                                    \/ FinishCI(c) \/ RerunCI(c) \/ RemoveMarker(c)
        PROVE  VettingInv'
    <3>1. UNCHANGED <<pc, remote, trees, tested, image, running>> /\ green \subseteq green'
      BY <2>5 DEF Push, FinishCI, RerunCI, RemoveMarker, hostVars, remoteVars
    <3>2. \A d \in Commits : ci'[d] = "passed" => d \in green'
      BY <2>5 DEF Push, FinishCI, RerunCI, RemoveMarker, remoteVars, VettingInv, TypeOK
    <3>3. \A r \in Runs : OfRun(r)'
      BY <2>2, <3>1 DEF Vetted
    <3>4. (\A i \in Images : Vetted(image[i])') /\ \A s \in Services : Vetted(running[s])'
      BY <2>3, <2>4, <3>1 DEF Vetted
    <3> QED BY <3>2, <3>3, <3>4 DEF VettingInv
  <2>6. ASSUME NEW r \in Runs, Start(r) PROVE VettingInv'
    BY <2>6 DEF Start, GoTo, hostVars, remoteVars, TypeOK, VettingInv, Vetted, Asked, Tested,
                Advanced, Steps
  <2>7. ASSUME NEW r \in Runs, Command(r) \/ StepFails(r) \/ CutOff(r) PROVE VettingInv'
    <3>1. UNCHANGED <<ci, green>>
      BY <2>7 DEF Command, Resolve, AskCI, Fetch, AddWorktree, CandidatePasses, CandidateFails,
                  Advance, Build, FinishBuild, Up, Recreate, FinishUp, CheckHealth, Record,
                  StepFails, CutOff,
                  remoteVars
    <3>2. \A q \in Runs \ {r} : pc'[q] = "idle"
      BY <2>7, CommandIsOfOneRun, OthersAreIdle DEF MarkersInv
    <3>3. \A q \in Runs \ {r} : OfRun(q)'
      BY <3>2 DEF Asked, Tested, Advanced
    <3> SUFFICES OfRun(r)' /\ AllVetted'
      BY <3>1, <3>3 DEF VettingInv
    <3>goes. \A step : GoTo(r, step) => pc'[r] = step /\ remote'[r] = remote[r]
      BY DEF GoTo, TypeOK
    <3>ends. End(r) => pc'[r] = "idle"
      BY DEF End, TypeOK
    <3>commit. pc[r] \notin {"idle", "resolve"} => remote[r] \in Commits
      BY DEF TypeOK
    <3>4. pc'[r] = "idle" /\ UNCHANGED <<image, running>>
            => OfRun(r)' /\ AllVetted'
      BY <2>1, <2>3, <2>4 DEF Asked, Tested, Advanced
    <3>5. CASE StepFails(r) \/ CutOff(r)
      BY <3>4, <3>5 DEF StepFails, CutOff, End, hostVars, TypeOK
    <3>6. CASE Resolve(r) \/ AskCI(r) \/ Fetch(r) \/ AddWorktree(r)
                 \/ CandidatePasses(r) \/ CandidateFails(r)
      <4>1. UNCHANGED <<image, running>>
        BY <3>6 DEF Resolve, AskCI, Fetch, AddWorktree, CandidatePasses, CandidateFails, hostVars
      <4>2. OfRun(r)'
        <5>1. CASE Resolve(r)
          BY <5>1 DEF Resolve, End, TypeOK, Asked, Tested, Advanced, Steps
        <5>2. CASE AskCI(r)
          <6>1. CIPassed(remote[r]) => remote[r] \in green
            BY <3>commit, <5>2 DEF AskCI, CIPassed, VettingInv
          <6>2. \/ pc'[r] = "idle"
                \/ CIPassed(remote[r]) /\ pc'[r] = "fetch" /\ remote'[r] = remote[r]
            BY <3>goes, <3>ends, <5>2 DEF AskCI
          <6> QED BY <3>1, <6>1, <6>2 DEF Asked, Tested, Advanced
        <5>3. CASE Fetch(r)
          <6>1. remote[r] \in green
            BY <2>2, <5>3 DEF Fetch, Asked, Steps
          <6>2. pc'[r] = "idle" \/ (pc'[r] = "worktree" /\ remote'[r] = remote[r])
            BY <3>goes, <3>ends, <5>3 DEF Fetch
          <6> QED BY <3>1, <6>1, <6>2 DEF Asked, Tested, Advanced
        <5>4. CASE AddWorktree(r)
          <6>1. trees[remote[r]] # "occupied" => trees'[remote[r]] \in {"intact", "torn"}
            BY <3>commit, <5>4 DEF AddWorktree, TypeOK, TreeStates
          <6>2. remote[r] \in green
            BY <2>2, <5>4 DEF AddWorktree, Asked, Steps
          <6>3. \/ pc'[r] = "idle"
                \/ trees[remote[r]] # "occupied" /\ pc'[r] = "test" /\ remote'[r] = remote[r]
            BY <3>goes, <3>ends, <5>4 DEF AddWorktree
          <6> QED BY <3>1, <6>1, <6>2, <6>3 DEF Asked, Tested, Advanced
        <5>5. CASE CandidatePasses(r)
          BY <2>2, <3>1, <5>5 DEF CandidatePasses, GoTo, TypeOK, Asked, Tested, Advanced, Steps,
                                  Vetted
        <5>6. CASE CandidateFails(r)
          BY <5>6 DEF CandidateFails, End, TypeOK, Asked, Tested, Advanced
        <5> QED BY <3>6, <5>1, <5>2, <5>3, <5>4, <5>5, <5>6
      <4> QED BY <2>1, <2>3, <2>4, <4>1, <4>2
    <3>7. CASE Advance(r) \/ FinishBuild(r) \/ FinishUp(r) \/ CheckHealth(r) \/ Record(r)
      <4>1. UNCHANGED <<image, running>>
        BY <3>7 DEF Advance, FinishBuild, FinishUp, CheckHealth, Record, hostVars
      <4>2. pc[r] \in Tested /\ (pc'[r] = "idle" \/ (pc'[r] \in Tested /\ remote'[r] = remote[r]))
        BY <3>7, <3>goes, <3>ends
           DEF Advance, FinishBuild, FinishUp, CheckHealth, Record, Tested, Advanced
      <4>3. remote[r] \in Commits /\ Vetted(remote[r]) /\ remote[r] \in green
        BY <2>2, <3>commit, <4>2 DEF Asked, Tested, Advanced, Steps
      <4>4. pc'[r] \in Tested => OfRun(r)'
        BY <2>1, <3>1, <4>2, <4>3 DEF Tested, Advanced, Vetted
      <4> QED BY <2>1, <2>3, <2>4, <3>4, <4>1, <4>2, <4>4
    <3>8. ASSUME NEW i \in Images, Build(r, i)
          PROVE  OfRun(r)' /\ AllVetted'
      <4>1. UNCHANGED <<pc, remote, trees, green, tested, running>> /\ Vetted(checkout.at)
        BY <2>2, <3>8 DEF Build, MarkersInv, RunInv, Tested, Advanced, remoteVars
      <4>2. \A j \in Images : image'[j] = image[j] \/ image'[j] = checkout.at
        BY <3>8 DEF Build, TypeOK
      <4> QED BY <2>2, <2>3, <2>4, <4>1, <4>2 DEF Vetted
    <3>9. ASSUME NEW s \in Services, Up(r, s)
          PROVE  OfRun(r)' /\ AllVetted'
      <4>1. UNCHANGED <<pc, remote, trees, green, tested, image>>
        BY <3>9 DEF Up, Recreate, remoteVars
      <4>2. \A t \in Services : running'[t] \in {running[t], Current(s)}
        BY <3>9 DEF Up, Recreate, TypeOK
      <4>3. Vetted(Current(s))
        BY <2>4, ImagesAssumption DEF Current
      <4> QED BY <2>2, <2>3, <2>4, <4>1, <4>2, <4>3 DEF Vetted
    <3> QED
      BY <2>7, <3>5, <3>6, <3>7, <3>8, <3>9 DEF Command
  <2>8. CASE Boot
    <3>1. CASE LosePower \/ FinishBoot
      BY <3>1 DEF LosePower, FinishBoot, remoteVars, VettingInv, Vetted
    <3>2. ASSUME NEW s \in Services, UpAtBoot(s) PROVE VettingInv'
      <4>1. UNCHANGED <<ci, green, pc, remote, trees, tested, image>>
        BY <3>2 DEF UpAtBoot, Recreate, remoteVars
      <4>2. \A t \in Services : running'[t] \in {running[t], Current(s)}
        BY <3>2 DEF UpAtBoot, Recreate, TypeOK
      <4>3. Vetted(Current(s))
        BY <2>4, ImagesAssumption DEF Current
      <4> QED BY <4>1, <4>2, <4>3 DEF VettingInv, Vetted
    <3> QED BY <2>8, <3>1, <3>2 DEF Boot
  <2>9. CASE UNCHANGED vars
    BY <2>9 DEF vars, hostVars, remoteVars, VettingInv, Vetted
  <2> QED BY <2>5, <2>6, <2>7, <2>8, <2>9 DEF Next, Boot
<1>3. VettingInv => ProductionIsTested
  BY DEF VettingInv, Vetted, ProductionIsTested
<1> QED BY <1>1, <1>2, <1>3, TypeCorrect, MarkersInvariant, PTL DEF Spec
=============================================================================
