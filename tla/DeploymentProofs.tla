--------------------------- MODULE DeploymentProofs ---------------------------
(***************************************************************************)
(* Proofs about Deployment for every number of commits, pipeline runs,     *)
(* runs of the lambda, Create requests and databases.                      *)
(*                                                                         *)
(* Nearly every step of the pipelines puts one run into a new position and *)
(* perhaps supersedes others that wait.  Changes says that much of a step, *)
(* Moves how the position may change; what the invariants need follows     *)
(* from the two, and each action is shown to be such a step.               *)
(***************************************************************************)
EXTENDS Deployment, TLAPS

IInv ==
    /\ TypeOK
    /\ RunsAreSerial
    /\ UrlsNameThePasswords
    /\ RunsKeepOrder
    /\ BuildsLeave
    /\ ReleasesAreBacked
    /\ ProductionWasApproved
    /\ TagsMoveForward

-----------------------------------------------------------------------------
(* Positions of runs.                                                      *)

\* The ranks of the stages.
LEMMA Ranks ==
    /\ Rank("Build") = 1 /\ Rank("Validation") = 2 /\ Rank("Deploy") = 3
    /\ \A s \in Stages : Rank(s) \in 1 .. 3
    /\ \A s, t \in Stages : Rank(s) = Rank(t) => s = t
<1>1. Rank("Build") = 1 /\ Rank("Validation") = 2 /\ Rank("Deploy") = 3
  BY DEF Rank
<1>. QED
  BY <1>1 DEF Stages

\* What is started is a Run, and its state is not that of an unstarted one.
LEMMA StartedIsRun ==
    ASSUME TypeOK, NEW p \in Pipes, NEW r \in Runs
    PROVE  /\ Started(p, r) => pipe[p][r] \in Run
           /\ ~Started(p, r) => pipe[p][r].state = "unstarted"
           /\ pipe[p][r].state # "unstarted" => Started(p, r)
<1>1. pipe[p][r] \in Run \cup {Unstarted}
  BY DEF TypeOK
<1>. QED
  BY <1>1 DEF Started, Run, Unstarted

PipeType == [Pipes -> [Runs -> Run \cup {Unstarted}]]

Superseded(b) == [b EXCEPT !.state = "superseded"]

\* Run r of pipeline p becomes b; where b waits, the others give way.
Changes(p, r, b) ==
    /\ pipe' \in PipeType
    /\ b \in Run
    /\ pipe'[p][r] = b
    /\ \A q \in Pipes, k \in Runs : q # p \/ k # r =>
          IF q = p /\ b.state = "waiting" /\ pipe[q][k].state = "waiting" /\ pipe[q][k].stage = b.stage
          THEN pipe'[q][k] = Superseded(pipe[q][k])
          ELSE pipe'[q][k] = pipe[q][k]

LEMMA SetChanges ==
    ASSUME TypeOK, NEW p \in Pipes, NEW r \in Runs, NEW b \in Run,
           b.state # "waiting", Set(p, r, b)
    PROVE  Changes(p, r, b)
<1>1. pipe \in PipeType
  BY DEF TypeOK, PipeType
<1>2. pipe' = [pipe EXCEPT ![p] = [pipe[p] EXCEPT ![r] = b]]
  BY <1>1 DEF Set, PipeType
<1>3. pipe' \in PipeType
  BY <1>1, <1>2 DEF PipeType
<1>. QED
  BY <1>1, <1>2, <1>3 DEF Changes, PipeType

LEMMA ArriveChanges ==
    ASSUME TypeOK, NEW p \in Pipes, NEW r \in Runs, NEW b \in Run,
           b.state = "waiting", Arrive(p, r, b)
    PROVE  Changes(p, r, b)
<1>1. pipe \in PipeType
  BY DEF TypeOK, PipeType
<1>. DEFINE row == [k \in Runs |->
                      IF k = r THEN b
                      ELSE IF pipe[p][k].state = "waiting" /\ pipe[p][k].stage = b.stage
                           THEN Superseded(pipe[p][k]) ELSE pipe[p][k]]
<1>2. pipe' = [pipe EXCEPT ![p] = row]
  BY <1>1 DEF Arrive, PipeType, Superseded
<1>3. \A k \in Runs : pipe[p][k].state = "waiting" => Superseded(pipe[p][k]) \in Run
  <2>. TAKE k \in Runs
  <2>1. pipe[p][k].state = "waiting" => pipe[p][k] \in Run
    BY StartedIsRun
  <2>. QED
    BY <2>1 DEF Run, Superseded
<1>4. row \in [Runs -> Run \cup {Unstarted}]
  BY <1>1, <1>3 DEF PipeType
<1>5. pipe' \in PipeType
  BY <1>1, <1>2, <1>4 DEF PipeType
<1>. QED
  BY <1>1, <1>2, <1>5 DEF Changes, PipeType

\* How a run may come to its new position b.
Stays(p, r, b) ==
    /\ pipe[p][r].state = "working"
    /\ b.state \in {"working", "failed", "done"}
    /\ b.stage = pipe[p][r].stage

Moves(p, r, b) ==
    \/ /\ ~Started(p, r) /\ \A k \in 1 .. r - 1 : Started(p, k)
       /\ b.stage = "Build" /\ b.state = "waiting"
    \/ /\ pipe[p][r].state = "waiting" /\ \A k \in Runs : ~Working(p, k, pipe[p][r].stage)
       /\ b.stage = pipe[p][r].stage /\ b.state = "working"
    \/ /\ pipe[p][r].state = "failed" /\ \A k \in r + 1 .. MaxRuns : ~Entered(p, k, pipe[p][r].stage)
       /\ b.stage = pipe[p][r].stage /\ b.state = "working"
    \/ Stays(p, r, b)
    \/ /\ pipe[p][r].state = "working"
       /\ b.state = "waiting"
       /\ Rank(pipe[p][r].stage) < Rank(b.stage)
       /\ \A k \in Runs : Started(p, k) =>
             \/ Rank(pipe[p][k].stage) <= Rank(pipe[p][r].stage)
             \/ Rank(pipe[p][k].stage) >= Rank(b.stage)

\* What a step does to a run of which it is not: nothing, or it supersedes it.
LEMMA OtherRuns ==
    ASSUME TypeOK, NEW p \in Pipes, NEW r \in Runs, NEW b, Changes(p, r, b),
           NEW q \in Pipes, NEW k \in Runs, q # p \/ k # r
    PROVE  /\ Started(q, k)' = Started(q, k)
           /\ pipe'[q][k] = pipe[q][k] \/
                 /\ pipe[q][k].state = "waiting" /\ pipe'[q][k].state = "superseded"
                 /\ b.state = "waiting" /\ pipe[q][k].stage = b.stage
                 /\ Started(q, k) /\ pipe'[q][k] = Superseded(pipe[q][k])
           /\ q = p /\ b.state = "waiting" /\ pipe[q][k].state = "waiting" /\ pipe[q][k].stage = b.stage =>
                 pipe'[q][k].state = "superseded"
           /\ Started(q, k) => /\ pipe'[q][k].stage = pipe[q][k].stage
                               /\ pipe'[q][k].commit = pipe[q][k].commit
                               /\ pipe'[q][k].docker = pipe[q][k].docker
                               /\ pipe'[q][k].cdk = pipe[q][k].cdk
                               /\ pipe'[q][k].tag = pipe[q][k].tag
                               /\ pipe'[q][k].deploy = pipe[q][k].deploy
<1>1. Started(q, k) => pipe[q][k] \in Run
  BY StartedIsRun
<1>2. pipe[q][k].state = "waiting" => Started(q, k)
  BY StartedIsRun
<1>3. \A c \in Run : /\ Superseded(c) \in Run
                      /\ Superseded(c).state = "superseded"
                      /\ Superseded(c).stage = c.stage /\ Superseded(c).commit = c.commit
                      /\ Superseded(c).docker = c.docker /\ Superseded(c).cdk = c.cdk
                      /\ Superseded(c).tag = c.tag /\ Superseded(c).deploy = c.deploy
  BY DEF Superseded, Run
<1>4. \A c \in Run : c # Unstarted
  BY DEF Run, Unstarted
<1>5. CASE /\ q = p /\ b.state = "waiting" /\ pipe[q][k].state = "waiting"
           /\ pipe[q][k].stage = b.stage
  <2>1. pipe'[q][k] = Superseded(pipe[q][k])
    BY <1>5 DEF Changes
  <2>2. Started(q, k) /\ pipe[q][k] \in Run
    BY <1>1, <1>2, <1>5
  <2>3. Started(q, k)'
    BY <2>1, <2>2, <1>3, <1>4 DEF Started
  <2>. QED
    BY <2>1, <2>2, <2>3, <1>3, <1>5
<1>6. CASE ~ (/\ q = p /\ b.state = "waiting" /\ pipe[q][k].state = "waiting"
              /\ pipe[q][k].stage = b.stage)
  <2>1. pipe'[q][k] = pipe[q][k]
    BY <1>6 DEF Changes
  <2>. QED
    BY <2>1, <1>6 DEF Started
<1>. QED
  BY <1>5, <1>6

\* The run itself is started now.
LEMMA ThisRun ==
    ASSUME NEW p \in Pipes, NEW r \in Runs, NEW b, Changes(p, r, b)
    PROVE  pipe'[p][r] = b /\ Started(p, r)'
<1>1. \A c \in Run : c # Unstarted
  BY DEF Run, Unstarted
<1>. QED
  BY <1>1 DEF Changes, Started

\* Stages that were entered stay so.
LEMMA EnteredStays ==
    ASSUME TypeOK, NEW p \in Pipes, NEW r \in Runs, NEW b, Changes(p, r, b), Moves(p, r, b),
           NEW q \in Pipes, NEW k \in Runs, NEW s \in Stages, Entered(q, k, s)
    PROVE  Entered(q, k, s)'
<1>1. CASE q = p /\ k = r
  <2>1. pipe[p][r] \in Run /\ b \in Run /\ Started(p, r)' /\ pipe'[p][r] = b
    BY <1>1, StartedIsRun, ThisRun DEF Entered, Changes
  <2>2. pipe[p][r].stage \in Stages /\ b.stage \in Stages
    BY <2>1 DEF Run
  <2>. QED
    BY <1>1, <2>1, <2>2, Ranks, SMTT(30) DEF Entered, Moves, Stays
<1>2. CASE q # p \/ k # r
  <2>1. Started(q, k)' /\ pipe'[q][k].stage = pipe[q][k].stage
    BY <1>2, OtherRuns DEF Entered
  <2>2. pipe'[q][k] = pipe[q][k] \/ pipe[q][k].state = "waiting"
    BY <1>2, OtherRuns
  <2>. QED
    BY <2>1, <2>2 DEF Entered
<1>. QED
  BY <1>1, <1>2

\* Runs that keep their order still do after a step of one of them.
LEMMA OrderStep ==
    ASSUME TypeOK, RunsKeepOrder, NEW p \in Pipes, NEW r \in Runs, NEW b,
           Changes(p, r, b), Moves(p, r, b)
    PROVE  RunsKeepOrder'
<1>. SUFFICES ASSUME NEW q \in Pipes, NEW i \in Runs, NEW k \in Runs, i < k
     PROVE  /\ Started(q, k)' => Started(q, i)'
            /\ (pipe[q][i].state = "working")' => ~Entered(q, k, pipe[q][i].stage)'
            /\ (pipe[q][i].state = "waiting" /\ Started(q, k))' =>
                  (Rank(pipe[q][k].stage) < Rank(pipe[q][i].stage))'
  BY DEF RunsKeepOrder
<1>0. i \in Nat /\ k \in Nat /\ r \in Nat /\ MaxRuns \in Nat
  BY BoundsAssumption DEF Runs
<1>1. /\ Started(q, k) => Started(q, i)
      /\ pipe[q][i].state = "working" => ~Entered(q, k, pipe[q][i].stage)
      /\ pipe[q][i].state = "waiting" /\ Started(q, k) =>
            Rank(pipe[q][k].stage) < Rank(pipe[q][i].stage)
  BY DEF RunsKeepOrder
<1>2. pipe'[p][r] = b /\ Started(p, r)' /\ b \in Run
  BY ThisRun DEF Changes
<1>3. CASE q # p \/ (i # r /\ k # r)
  <2>1. Started(q, k)' = Started(q, k) /\ Started(q, i)' = Started(q, i)
    BY <1>3, OtherRuns
  <2>2. pipe'[q][i] = pipe[q][i] \/ pipe'[q][i].state = "superseded"
    BY <1>3, OtherRuns
  <2>3. /\ Started(q, k) => pipe'[q][k].stage = pipe[q][k].stage
        /\ pipe'[q][k].state = pipe[q][k].state \/ pipe'[q][k].state = "superseded"
    BY <1>3, OtherRuns
  <2>. QED
    BY <1>1, <2>1, <2>2, <2>3 DEF Entered
<1>4. CASE q = p /\ k = r
  <2>1. Started(p, i)
    <3>1. Started(p, r) => Started(p, i)
      BY <1>1, <1>4
    <3>2. ~Started(p, r) => \A j \in 1 .. r - 1 : Started(p, j)
      BY StartedIsRun DEF Moves, Stays
    <3>. QED
      BY <3>1, <3>2, <1>0, <1>4 DEF Runs
  <2>2. Started(p, i)' /\ pipe'[p][i].stage = pipe[p][i].stage
    BY <1>4, <1>0, <2>1, OtherRuns
  <2>3. pipe'[p][i] = pipe[p][i] \/ pipe'[p][i].state = "superseded"
    BY <1>4, <1>0, OtherRuns
  <2>4. pipe[p][i].stage \in Stages /\ b.stage \in Stages
    BY <2>1, <1>2, StartedIsRun DEF Run
  <2>5. Started(p, r) => pipe[p][r].stage \in Stages
    BY StartedIsRun DEF Run
  <2>6. ~Started(p, r) => b.stage = "Build" /\ b.state = "waiting"
    BY StartedIsRun DEF Moves, Stays
  <2>7. ASSUME pipe'[p][i].state = "working" PROVE ~Entered(p, k, pipe[p][i].stage)'
    <3>1. pipe'[p][i] = pipe[p][i] /\ pipe[p][i].state = "working"
      BY <2>3, <2>7
    <3>2. ~Entered(p, r, pipe[p][i].stage)
      BY <1>1, <1>4, <3>1
    <3>3. Working(p, i, pipe[p][i].stage)
      BY <3>1 DEF Working
    <3>. SUFFICES ~(\/ Rank(b.stage) > Rank(pipe[p][i].stage)
                    \/ b.stage = pipe[p][i].stage /\ b.state \notin {"waiting", "superseded"})
      BY <1>2, <1>4, <3>1 DEF Entered
    <3>4. Started(p, r) => /\ Rank(pipe[p][r].stage) <= Rank(pipe[p][i].stage)
                           /\ pipe[p][r].stage = pipe[p][i].stage =>
                                 pipe[p][r].state \in {"waiting", "superseded"}
      BY <2>4, <2>5, <3>2, Ranks DEF Entered
    <3>5. CASE ~Started(p, r)
      BY <3>5, <2>4, <2>6, Ranks
    <3>6. CASE Started(p, r) /\ pipe[p][r].state = "waiting"
      <4>1. b.stage = pipe[p][r].stage /\ pipe[p][r].stage # pipe[p][i].stage
        BY <3>3, <3>6 DEF Moves, Stays
      <4>. QED
        BY <4>1, <3>4, <3>6, <2>4, <2>5, Ranks
    <3>7. CASE Started(p, r) /\ pipe[p][r].state # "waiting"
      <4>1. pipe[p][r].state \in {"failed", "working"}
        BY <3>7 DEF Moves, Stays
      <4>2. Rank(pipe[p][r].stage) < Rank(pipe[p][i].stage)
        BY <4>1, <3>4, <3>7, <2>4, <2>5, Ranks
      <4>3. b.stage = pipe[p][r].stage \/ (b.state = "waiting" /\ Rank(b.stage) <= Rank(pipe[p][i].stage))
        BY <4>2, <2>1, <3>7, <2>4, <2>5, Ranks DEF Moves, Stays
      <4>. QED
        BY <4>2, <4>3, <2>4, <2>5, Ranks
    <3>. QED
      BY <3>5, <3>6, <3>7
  <2>8. ASSUME pipe'[p][i].state = "waiting" PROVE Rank(b.stage) < Rank(pipe'[p][i].stage)
    <3>1. pipe'[p][i] = pipe[p][i] /\ pipe[p][i].state = "waiting"
      BY <2>3, <2>8
    <3>2. ~(b.state = "waiting" /\ pipe[p][i].stage = b.stage)
      BY <1>4, <1>0, <2>8, <3>1, OtherRuns
    <3>3. Started(p, r) => Rank(pipe[p][r].stage) < Rank(pipe[p][i].stage)
      BY <1>1, <1>4, <3>1
    <3>. QED
      BY <2>1, <2>4, <2>5, <2>6, <3>1, <3>2, <3>3, Ranks, StartedIsRun, SMTT(60) DEF Moves, Stays
  <2>. QED
    BY <1>2, <1>4, <2>2, <2>7, <2>8
<1>5. CASE q = p /\ i = r
  <2>1. Started(p, k)' = Started(p, k)
    BY <1>5, <1>0, OtherRuns
  <2>2. Started(p, k) => /\ pipe'[p][k].stage = pipe[p][k].stage
                         /\ pipe[p][k].stage \in Stages
    BY <1>5, <1>0, OtherRuns, StartedIsRun DEF Run
  <2>3. pipe'[p][k] = pipe[p][k] \/ pipe'[p][k].state = "superseded"
    BY <1>5, <1>0, OtherRuns
  <2>4. b.stage \in Stages /\ (Started(p, r) => pipe[p][r].stage \in Stages)
    BY <1>2, StartedIsRun DEF Run
  <2>5. Started(p, k) => Started(p, r)
    BY <1>1, <1>5
  <2>6. ASSUME Started(p, k), b.state = "working" PROVE ~Entered(p, k, b.stage)'
    <3>1. ~Entered(p, k, b.stage)
      <4>1. CASE pipe[p][r].state = "waiting"
        BY <4>1, <2>2, <2>4, <2>5, <2>6, <1>1, <1>5, Ranks, SMTT(30) DEF Entered, Moves, Stays
      <4>2. CASE pipe[p][r].state = "failed"
        BY <4>2, <2>6, <1>0, <1>5 DEF Moves, Stays, Runs
      <4>3. CASE pipe[p][r].state = "working"
        BY <4>3, <2>5, <2>6, <1>1, <1>5 DEF Moves, Stays
      <4>. QED
        BY <4>1, <4>2, <4>3, <2>5, <2>6, StartedIsRun DEF Moves, Stays
    <3>. QED
      BY <3>1, <2>1, <2>2, <2>3, <2>6 DEF Entered
  <2>7. ASSUME Started(p, k), b.state = "waiting" PROVE Rank(pipe[p][k].stage) < Rank(b.stage)
    <3>1. pipe[p][r].state = "working" /\ Rank(pipe[p][r].stage) < Rank(b.stage)
      BY <2>5, <2>7 DEF Moves, Stays
    <3>2. ~Entered(p, k, pipe[p][r].stage)
      BY <3>1, <1>1, <1>5
    <3>. QED
      BY <3>1, <3>2, <2>2, <2>4, <2>5, <2>7, Ranks DEF Entered
  <2>. QED
    BY <1>2, <1>5, <2>1, <2>2, <2>5, <2>6, <2>7 DEF Entered
<1>. QED
  BY <1>3, <1>4, <1>5, <1>0

-----------------------------------------------------------------------------
(* What a step of a run leaves behind.                                     *)

\* BuildsLeave of one run b, for given commits, tests, images and approvals.
Leaves(p, b, commits, passed, images, released) ==
    /\ b.state = "working" \/ b.deploy # "updating"
    /\ b.stage # "Deploy" => b.deploy = "before"
    /\ b.stage # "Build" => b.docker = "ok" /\ b.cdk = "ok"
    /\ p = "dev" =>
          /\ b.stage # "Validation"
          /\ b.commit \in 1 .. commits
          /\ b.docker = "built" => b.commit \in passed
          /\ b.docker = "pushed" => b.commit \in images
          /\ b.docker = "ok" => b.tag = b.commit /\ b.tag \in images
    /\ p = "prd" =>
          /\ b.docker = "ok"
          /\ b.cdk = "ok" => b.tag \in images
          /\ b.stage = "Deploy" => b.tag \in released

\* What else changes with run r of pipeline p becoming b.
Effect(p, r, b) ==
    /\ UNCHANGED <<bootVars, up, head>>
    /\ tested \subseteq tested' /\ tested' \subseteq Images
    /\ repo \subseteq repo' /\ repo' \subseteq tested'
    /\ approved \subseteq approved' /\ approved' \subseteq Images
    /\ \/ imageTag' = imageTag
       \/ /\ p = "dev" /\ Working(p, r, "Build")
          /\ imageTag' = pipe[p][r].commit /\ imageTag' \in repo'
    /\ \/ service' = service
       \/ /\ Working(p, r, "Deploy") /\ b.stage = "Deploy"
          /\ \E now \in {service[p].now, b.tag}, next \in {0, b.tag} :
                service' = [service EXCEPT ![p] = [now |-> now, next |-> next]]
    /\ b.deploy = "updating" => Working(p, r, "Deploy") /\ service'[p].next = b.tag
    /\ Started(p, r) => b.commit = pipe[p][r].commit
    /\ ~Started(p, r) => b.tag = 0 /\ (p = "dev" => b.commit = head)
    /\ Started(p, r) => b.tag = pipe[p][r].tag \/ (pipe[p][r].stage = "Build" /\ b.tag = imageTag')
    /\ Started(p, r) /\ p = "prd" /\ pipe[p][r].stage = "Build" /\ b.stage # "Build" =>
          b.tag = imageTag'

\* A step of run r of pipeline p, which becomes b.
Step(p, r, b) ==
    /\ Changes(p, r, b)
    /\ Moves(p, r, b)
    /\ Effect(p, r, b)
    /\ Leaves(p, b, head', tested', repo', approved')

\* A run past its Build takes an image that is in ECR.
LEMMA LeavesBacked ==
    ASSUME NEW p \in Pipes, NEW b, NEW h, NEW te, NEW re, NEW ap, Leaves(p, b, h, te, re, ap),
           b.stage # "Build"
    PROVE  b.tag \in re
BY DEF Leaves, Pipes

\* BuildsLeave, run by run.
LEMMA BuildsAre ==
    ASSUME BuildsLeave, NEW p \in Pipes, NEW r \in Runs, Started(p, r)
    PROVE  Leaves(p, pipe[p][r], head, tested, repo, approved)
BY DEF BuildsLeave, Leaves

LEMMA StepTypes ==
    ASSUME IInv, NEW p \in Pipes, NEW r \in Runs, NEW b, Step(p, r, b)
    PROVE  TypeOK'
<1>1. TypeOK /\ Changes(p, r, b) /\ Effect(p, r, b)
  BY DEF IInv, Step
<1>2. BootTypeOK'
  BY <1>1 DEF TypeOK, BootTypeOK, Effect, bootVars
<1>3. repo' \subseteq Images /\ b \in Run
  BY <1>1 DEF Effect, Changes
<1>4. imageTag' \in Tags
  <2>1. imageTag \in Tags /\ imageTag' \in {imageTag} \cup repo'
    BY <1>1 DEF TypeOK, Effect
  <2>2. Images \subseteq Tags
    BY BoundsAssumption DEF Tags, Images
  <2>. QED
    BY <2>1, <2>2, <1>3
<1>5. b.tag \in Tags /\ 0 \in Tags
  BY <1>3, BoundsAssumption DEF Run, Tags
<1>6. service' \in [Pipes -> [now : Tags, next : Tags]]
  <2>1. CASE service' = service
    BY <1>1, <2>1 DEF TypeOK
  <2>2. CASE service' # service
    <3>1. PICK now \in {service[p].now, b.tag}, next \in {0, b.tag} :
             service' = [service EXCEPT ![p] = [now |-> now, next |-> next]]
      BY <1>1, <2>2 DEF Effect
    <3>2. now \in Tags /\ next \in Tags
      BY <1>1, <1>5 DEF TypeOK
    <3>. QED
      BY <1>1, <3>1, <3>2 DEF TypeOK
  <2>. QED
    BY <2>1, <2>2
<1>. QED
  BY <1>1, <1>2, <1>3, <1>4, <1>6 DEF TypeOK, Effect, Changes, PipeType

LEMMA StepBuilds ==
    ASSUME IInv, NEW p \in Pipes, NEW r \in Runs, NEW b, Step(p, r, b)
    PROVE  BuildsLeave'
<1>1. /\ TypeOK /\ BuildsLeave /\ Changes(p, r, b) /\ Effect(p, r, b)
      /\ Leaves(p, b, head', tested', repo', approved')
  BY DEF IInv, Step
<1>. SUFFICES ASSUME NEW q \in Pipes, NEW k \in Runs, Started(q, k)'
     PROVE  Leaves(q, pipe'[q][k], head', tested', repo', approved')
  BY DEF BuildsLeave, Leaves
<1>2. CASE q = p /\ k = r
  BY <1>1, <1>2, ThisRun
<1>3. CASE q # p \/ k # r
  <2>1. Started(q, k) /\ Leaves(q, pipe[q][k], head, tested, repo, approved)
    BY <1>1, <1>3, OtherRuns, BuildsAre
  <2>2. head' = head /\ tested \subseteq tested' /\ repo \subseteq repo' /\ approved \subseteq approved'
    BY <1>1 DEF Effect
  <2>3. Leaves(q, pipe[q][k], head', tested', repo', approved')
    BY <2>1, <2>2 DEF Leaves
  <2>4. /\ pipe'[q][k].stage = pipe[q][k].stage /\ pipe'[q][k].commit = pipe[q][k].commit
        /\ pipe'[q][k].docker = pipe[q][k].docker /\ pipe'[q][k].cdk = pipe[q][k].cdk
        /\ pipe'[q][k].tag = pipe[q][k].tag /\ pipe'[q][k].deploy = pipe[q][k].deploy
        /\ pipe'[q][k].state = pipe[q][k].state \/ pipe[q][k].state = "waiting"
    BY <1>1, <1>3, <2>1, OtherRuns
  <2>. QED
    BY <2>3, <2>4 DEF Leaves
<1>. QED
  BY <1>2, <1>3

\* Two runs are not in a stage at a time.
LEMMA OneWorks ==
    ASSUME TypeOK, RunsKeepOrder, NEW p \in Pipes, NEW r \in Runs, NEW k \in Runs, NEW s \in Stages,
           Working(p, r, s), Working(p, k, s)
    PROVE  k = r
<1>1. r \in Nat /\ k \in Nat
  BY BoundsAssumption DEF Runs
<1>2. Entered(p, r, s) /\ Entered(p, k, s)
  BY StartedIsRun DEF Working, Entered
<1>3. ~(r < k) /\ ~(k < r)
  BY <1>2 DEF RunsKeepOrder, Working
<1>. QED
  BY <1>1, <1>3

LEMMA StepBacked ==
    ASSUME IInv, NEW p \in Pipes, NEW r \in Runs, NEW b, Step(p, r, b)
    PROVE  ReleasesAreBacked'
<1>1. /\ TypeOK /\ RunsKeepOrder /\ BuildsLeave /\ ReleasesAreBacked /\ BuildsLeave'
      /\ Changes(p, r, b) /\ Effect(p, r, b)
      /\ Leaves(p, b, head', tested', repo', approved')
  BY StepBuilds DEF IInv, Step
<1>2. repo' \subseteq tested' /\ repo \subseteq repo'
  BY <1>1 DEF Effect
<1>3. imageTag' \in repo' \cup {0}
  BY <1>1, <1>2 DEF Effect, ReleasesAreBacked
<1>4. \A q \in Pipes, k \in Runs : Started(q, k)' /\ pipe'[q][k].stage # "Build" => pipe'[q][k].tag \in repo'
  BY <1>1, <1>2 DEF BuildsLeave, Pipes
<1>5. /\ \A q \in Pipes : q # p => service'[q] = service[q]
      /\ \/ service'[p] = service[p]
         \/ /\ Working(p, r, "Deploy") /\ b.stage = "Deploy"
            /\ service'[p].now \in {service[p].now, b.tag} /\ service'[p].next \in {0, b.tag}
  BY <1>1 DEF Effect, TypeOK
<1>6. \A q \in Pipes : {service'[q].now, service'[q].next} \subseteq repo' \cup {0}
  BY <1>1, <1>2, <1>5, LeavesBacked DEF ReleasesAreBacked
<1>7. ASSUME NEW q \in Pipes, NEW k \in Runs, Deploying(q, k, "updating")'
      PROVE  service'[q].next = pipe'[q][k].tag
  <2>1. CASE q = p /\ k = r
    <3>1. b.state = "working" /\ b.stage = "Deploy" /\ b.deploy = "updating" /\ pipe'[p][r] = b
      BY <1>1, <1>7, <2>1, ThisRun DEF Deploying, Working
    <3>. QED
      BY <1>1, <2>1, <3>1 DEF Effect
  <2>2. CASE q # p \/ k # r
    <3>1. pipe'[q][k] = pipe[q][k] /\ Deploying(q, k, "updating")
      BY <1>1, <1>7, <2>2, OtherRuns DEF Deploying, Working
    <3>2. service'[q] = service[q]
      BY <1>1, <1>5, <2>2, <3>1, OneWorks DEF Deploying, Stages
    <3>. QED
      BY <1>1, <3>1, <3>2 DEF ReleasesAreBacked
  <2>. QED
    BY <2>1, <2>2
<1>. QED
  BY <1>2, <1>3, <1>4, <1>6, <1>7 DEF ReleasesAreBacked

LEMMA StepApproved ==
    ASSUME IInv, NEW p \in Pipes, NEW r \in Runs, NEW b, Step(p, r, b)
    PROVE  ProductionWasApproved'
<1>1. /\ TypeOK /\ ProductionWasApproved /\ Effect(p, r, b)
      /\ Leaves(p, b, head', tested', repo', approved')
  BY DEF IInv, Step
<1>2. approved \subseteq approved'
  BY <1>1 DEF Effect
<1>3. \/ service'["prd"] = service["prd"]
      \/ /\ p = "prd" /\ b.stage = "Deploy"
         /\ service'["prd"].now \in {service["prd"].now, b.tag}
         /\ service'["prd"].next \in {0, b.tag}
  BY <1>1 DEF Effect, TypeOK, Pipes
<1>4. p = "prd" /\ b.stage = "Deploy" => b.tag \in approved'
  BY <1>1 DEF Leaves
<1>. QED
  BY <1>1, <1>2, <1>3, <1>4 DEF ProductionWasApproved

\* Nobody has overtaken a run that is at work in a stage.
LEMMA NotOvertaken ==
    ASSUME TypeOK, RunsKeepOrder, NEW p \in Pipes, NEW r \in Runs, NEW s \in Stages, Working(p, r, s)
    PROVE  Started(p, r) /\ \A k \in r + 1 .. MaxRuns : ~Entered(p, k, s)
<1>1. Started(p, r)
  BY StartedIsRun DEF Working
<1>2. \A k \in r + 1 .. MaxRuns : k \in Runs /\ r < k
  BY BoundsAssumption DEF Runs
<1>. QED
  BY <1>1, <1>2 DEF RunsKeepOrder, Working

\* TagsMoveForward, one conjunct at a time.
TagsUpTo == imageTag <= head
CommitsGrow == \A r, k \in Runs : r < k /\ Started("dev", k) =>
                   pipe["dev"][r].commit <= pipe["dev"][k].commit
TagBehind == \A r \in Runs :
    Started("dev", r) /\ (\A k \in r + 1 .. MaxRuns : ~Entered("dev", k, "Build")) =>
        imageTag <= pipe["dev"][r].commit
TagIsNewest ==
    \A p \in Pipes : /\ service[p].now <= imageTag
                     /\ \A r \in Runs : Started(p, r) => pipe[p][r].tag <= imageTag
ServiceBehind ==
    \A p \in Pipes, r \in Runs :
        ( /\ Started(p, r) /\ pipe[p][r].stage # "Build"
          /\ \A k \in r + 1 .. MaxRuns : ~Entered(p, k, "Deploy") )
        => service[p].now <= pipe[p][r].tag
TagsGrow ==
    \A p \in Pipes, r, k \in Runs :
        ( /\ r < k /\ Started(p, k)
          /\ pipe[p][r].stage # "Build" /\ pipe[p][k].stage # "Build" )
        => pipe[p][r].tag <= pipe[p][k].tag

LEMMA TagsParts ==
    ASSUME TypeOK, RunsKeepOrder
    PROVE  TagsMoveForward <=>
              TagsUpTo /\ CommitsGrow /\ TagBehind /\ TagIsNewest /\ ServiceBehind /\ TagsGrow
<1>1. \A r, k \in Runs : r < k <=> k \in r + 1 .. MaxRuns
  BY BoundsAssumption DEF Runs
<1>2. \A r \in Runs : \A k \in r + 1 .. MaxRuns : k \in Runs
  BY BoundsAssumption DEF Runs
<1>3. \A p \in Pipes, r, k \in Runs : r < k /\ Started(p, k) => Started(p, r)
  BY DEF RunsKeepOrder
<1>. QED
  BY <1>1, <1>2, <1>3
     DEF TagsMoveForward, TagsUpTo, CommitsGrow, TagBehind, TagIsNewest, ServiceBehind, TagsGrow

\* What a step's numbers are.
LEMMA Numbers ==
    ASSUME TypeOK
    PROVE  /\ imageTag \in Nat /\ head \in Nat
           /\ \A p \in Pipes : service[p].now \in Nat
           /\ \A p \in Pipes, r \in Runs : Started(p, r) =>
                 pipe[p][r].tag \in Nat /\ pipe[p][r].commit \in Nat /\ pipe[p][r].stage \in Stages
           /\ \A r \in Runs : r \in Nat /\ \A k \in r + 1 .. MaxRuns : k \in Runs /\ k \in Nat /\ r < k
           /\ \A r, k \in Runs : r < k => k \in r + 1 .. MaxRuns
<1>1. Tags \subseteq Nat /\ Images \subseteq Nat
  BY BoundsAssumption DEF Tags, Images
<1>2. \A p \in Pipes, r \in Runs : Started(p, r) => pipe[p][r] \in Run
  BY StartedIsRun
<1>3. /\ \A r \in Runs : r \in Nat /\ \A k \in r + 1 .. MaxRuns : k \in Runs /\ k \in Nat /\ r < k
      /\ \A r, k \in Runs : r < k => k \in r + 1 .. MaxRuns
  BY BoundsAssumption DEF Runs
<1>. QED
  BY <1>1, <1>2, <1>3 DEF TypeOK, Run

LEMMA StepTags ==
    ASSUME IInv, NEW p \in Pipes, NEW r \in Runs, NEW b, Step(p, r, b)
    PROVE  TagsMoveForward'
<1>1. /\ TypeOK /\ RunsKeepOrder /\ BuildsLeave
      /\ TagsUpTo /\ CommitsGrow /\ TagBehind /\ TagIsNewest /\ ServiceBehind /\ TagsGrow
      /\ Changes(p, r, b) /\ Moves(p, r, b) /\ Effect(p, r, b)
      /\ Leaves(p, b, head', tested', repo', approved')
      /\ TypeOK' /\ RunsKeepOrder'
  BY TagsParts, StepTypes, OrderStep DEF IInv, Step
<1>2. /\ pipe'[p][r] = b /\ Started(p, r)'
      /\ \A q \in Pipes, k \in Runs : q # p \/ k # r =>
            /\ Started(q, k)' = Started(q, k)
            /\ Started(q, k) => /\ pipe'[q][k].stage = pipe[q][k].stage
                                /\ pipe'[q][k].commit = pipe[q][k].commit
                                /\ pipe'[q][k].tag = pipe[q][k].tag
  BY <1>1, ThisRun, OtherRuns
<1>3. \A q \in Pipes, k \in Runs, s \in Stages : Entered(q, k, s) => Entered(q, k, s)'
  BY <1>1, EnteredStays
<1>4. \A q \in Pipes, i, k \in Runs : i < k /\ Started(q, k) => Started(q, i)
  BY <1>1 DEF RunsKeepOrder
<1>5. "dev" \in Pipes /\ "prd" \in Pipes /\ {"Build", "Validation", "Deploy"} \subseteq Stages
  BY DEF Pipes, Stages
<1>6. \A k \in Runs : Started("dev", k) => pipe["dev"][k].commit <= head
  BY <1>1, <1>5, BuildsAre, Numbers DEF Leaves
\* The parameter changes in a Build of the dev pipeline.
<1>7. \/ imageTag' = imageTag
      \/ /\ p = "dev" /\ Working("dev", r, "Build") /\ Started("dev", r)
         /\ imageTag' = pipe["dev"][r].commit /\ imageTag <= imageTag'
         /\ Entered("dev", r, "Build")
  <2>1. ASSUME p = "dev", Working("dev", r, "Build") PROVE
           /\ Started("dev", r) /\ imageTag <= pipe["dev"][r].commit /\ Entered("dev", r, "Build")
    BY <1>1, <1>5, <2>1, NotOvertaken DEF TagBehind, Entered, Working
  <2>. QED
    BY <1>1, <2>1 DEF Effect
<1>8. head' = head
  BY <1>1 DEF Effect
<1>9. /\ imageTag' \in Nat /\ imageTag \in Nat /\ imageTag <= imageTag' /\ head \in Nat
      /\ \A q \in Pipes, k \in Runs : Started(q, k) =>
            pipe[q][k].tag \in Nat /\ pipe[q][k].commit \in Nat /\ pipe[q][k].stage \in Stages
      /\ b.tag \in Nat /\ b.commit \in Nat
      /\ \A q \in Pipes : service[q].now \in Nat /\ service'[q].now \in Nat
  <2>1. TypeOK /\ TypeOK'
    BY <1>1
  <2>2. /\ imageTag' \in Nat /\ imageTag \in Nat /\ head \in Nat
        /\ \A q \in Pipes : service[q].now \in Nat /\ service'[q].now \in Nat
    BY <2>1, BoundsAssumption DEF TypeOK, Tags, Images
  <2>3. b.tag \in Nat /\ b.commit \in Nat
    BY <1>1, BoundsAssumption DEF Changes, Run, Tags
  <2>. QED
    BY <2>1, <2>2, <2>3, <1>7, Numbers
<1>10. TagsUpTo'
  BY <1>1, <1>6, <1>7, <1>8 DEF TagsUpTo
\* A started run keeps its commit; a new one has the newest.
<1>11. /\ Started(p, r) => b.commit = pipe[p][r].commit
       /\ ~Started("dev", r) /\ p = "dev" => b.commit = head
  BY <1>1 DEF Effect
<1>12. CommitsGrow'
  <2>. SUFFICES ASSUME NEW i \in Runs, NEW k \in Runs, i < k, Started("dev", k)'
       PROVE  pipe'["dev"][i].commit <= pipe'["dev"][k].commit
    BY DEF CommitsGrow
  <2>1. i \in Nat /\ k \in Nat /\ Started("dev", i)'
    BY <1>1, <1>5, Numbers DEF RunsKeepOrder
  <2>2. CASE p # "dev" \/ (i # r /\ k # r)
    BY <1>1, <1>2, <1>5, <2>1, <2>2 DEF CommitsGrow
  <2>3. CASE p = "dev" /\ k = r
    <3>1. i # r /\ Started("dev", i)
      BY <1>2, <1>5, <2>1, <2>3
    <3>. QED
      BY <1>1, <1>2, <1>5, <1>6, <1>11, <2>3, <3>1 DEF CommitsGrow
  <2>4. CASE p = "dev" /\ i = r
    <3>1. k # r /\ Started("dev", k) /\ Started("dev", r)
      BY <1>2, <1>4, <1>5, <2>1, <2>4
    <3>. QED
      BY <1>1, <1>2, <1>5, <1>11, <2>4, <3>1 DEF CommitsGrow
  <2>. QED
    BY <2>2, <2>3, <2>4
<1>13. TagBehind'
  <2>. SUFFICES ASSUME NEW i \in Runs, Started("dev", i)',
                       \A k \in i + 1 .. MaxRuns : ~Entered("dev", k, "Build")'
       PROVE  imageTag' <= pipe'["dev"][i].commit
    BY DEF TagBehind
  <2>1. \A k \in i + 1 .. MaxRuns : ~Entered("dev", k, "Build")
    BY <1>1, <1>3, <1>5, Numbers
  <2>2. CASE ~Started("dev", i)
    <3>1. p = "dev" /\ i = r /\ pipe'["dev"][i].commit = head
      BY <1>2, <1>5, <1>11, <2>2
    <3>. QED
      BY <1>1, <1>7, <1>9, <3>1, <2>2 DEF TagsUpTo
  <2>3. CASE Started("dev", i)
    <3>1. pipe'["dev"][i].commit = pipe["dev"][i].commit
      BY <1>2, <1>5, <1>11, <2>3
    <3>2. CASE imageTag' = imageTag
      BY <1>1, <2>1, <2>3, <3>1, <3>2 DEF TagBehind
    <3>3. CASE /\ p = "dev" /\ Started("dev", r)
               /\ imageTag' = pipe["dev"][r].commit /\ Entered("dev", r, "Build")
      <4>1. ~(i < r)
        BY <1>1, <2>1, <3>3, Numbers
      <4>2. i = r \/ r < i
        BY <1>1, <4>1, Numbers
      <4>. QED
        BY <1>1, <1>9, <2>3, <3>1, <3>3, <4>2, <1>5 DEF CommitsGrow
    <3>. QED
      BY <1>7, <3>2, <3>3
  <2>. QED
    BY <2>2, <2>3
\* What r takes out of its Build is no older than what services run.
<1>14. /\ Started(p, r) /\ pipe[p][r].stage # "Build" => b.tag = pipe[p][r].tag
       /\ ~Started(p, r) => b.tag = 0 /\ b.stage = "Build"
       /\ Started(p, r) /\ pipe[p][r].stage = "Build" /\ b.stage # "Build" =>
             /\ pipe[p][r].state = "working"
             /\ p = "prd" => b.tag = imageTag'
             /\ p = "dev" => b.tag = b.commit
  BY <1>1, StartedIsRun DEF Effect, Moves, Stays, Leaves, Pipes
<1>15. TagIsNewest'
  <2>1. b.tag <= imageTag'
    BY <1>1, <1>9 DEF Effect, TagIsNewest
  <2>2. \A q \in Pipes, k \in Runs : Started(q, k)' => pipe'[q][k].tag <= imageTag'
    BY <1>1, <1>2, <1>9, <2>1 DEF TagIsNewest
  <2>3. \A q \in Pipes : service'[q].now = service[q].now \/ service'[q].now = b.tag
    BY <1>1 DEF Effect, TypeOK
  <2>4. \A q \in Pipes : service'[q].now <= imageTag'
    BY <1>1, <1>9, <2>1, <2>3 DEF TagIsNewest
  <2>. QED
    BY <2>2, <2>4 DEF TagIsNewest
<1>16. Started(p, r) /\ pipe[p][r].stage = "Build" /\ b.stage # "Build" => service[p].now <= b.tag
  <2>. SUFFICES ASSUME Started(p, r), pipe[p][r].stage = "Build", b.stage # "Build"
       PROVE  service[p].now <= b.tag
    OBVIOUS
  <2>1. CASE p = "prd"
    BY <1>1, <1>9, <1>14, <2>1 DEF TagIsNewest
  <2>2. CASE p = "dev"
    <3>1. Working("dev", r, "Build")
      BY <1>14, <2>2 DEF Working
    <3>2. imageTag <= pipe["dev"][r].commit
      BY <1>1, <1>5, <3>1, NotOvertaken DEF TagBehind
    <3>. QED
      BY <1>1, <1>5, <1>9, <1>11, <1>14, <2>2, <3>2 DEF TagIsNewest
  <2>. QED
    BY <2>1, <2>2 DEF Pipes
\* The service settles on the tag of the run that deploys.
<1>17. /\ \A q \in Pipes : q # p => service'[q].now = service[q].now
       /\ \/ service'[p].now = service[p].now
          \/ /\ Working(p, r, "Deploy") /\ service'[p].now = b.tag
             /\ b.tag = pipe[p][r].tag /\ Started(p, r) /\ pipe[p][r].stage = "Deploy"
             /\ Entered(p, r, "Deploy")
  <2>1. Working(p, r, "Deploy") => /\ Started(p, r) /\ pipe[p][r].stage = "Deploy"
                                  /\ Entered(p, r, "Deploy")
    BY <1>1, StartedIsRun DEF Working, Entered
  <2>. QED
    BY <1>1, <1>14, <2>1 DEF Effect, TypeOK
<1>18. ServiceBehind'
  <2>. SUFFICES ASSUME NEW q \in Pipes, NEW i \in Runs, Started(q, i)', pipe'[q][i].stage # "Build",
                       \A k \in i + 1 .. MaxRuns : ~Entered(q, k, "Deploy")'
       PROVE  service'[q].now <= pipe'[q][i].tag
    BY DEF ServiceBehind
  <2>1. \A k \in i + 1 .. MaxRuns : ~Entered(q, k, "Deploy")
    BY <1>1, <1>3, <1>5, Numbers
  <2>2. CASE q = p /\ i = r
    <3>1. Started(p, r) /\ b.stage # "Build"
      BY <1>2, <1>14, <2>2
    <3>2. service[p].now <= b.tag
      BY <1>1, <1>14, <1>16, <2>1, <2>2, <3>1 DEF ServiceBehind
    <3>. QED
      BY <1>2, <1>9, <1>17, <2>2, <3>2
  <2>3. CASE q # p \/ i # r
    <3>1. Started(q, i) /\ pipe[q][i].stage # "Build" /\ pipe'[q][i].tag = pipe[q][i].tag
      BY <1>2, <2>3
    <3>2. service[q].now <= pipe[q][i].tag
      BY <1>1, <2>1, <3>1 DEF ServiceBehind
    <3>3. CASE service'[q].now = service[q].now
      BY <3>1, <3>2, <3>3
    <3>4. CASE service'[q].now # service[q].now
      <4>1. q = p /\ service'[p].now = pipe[p][r].tag /\ Entered(p, r, "Deploy")
            /\ pipe[p][r].stage = "Deploy" /\ Started(p, r)
        BY <1>17, <3>4
      <4>2. ~(i < r)
        BY <1>1, <2>1, <4>1, Numbers
      <4>3. r < i
        BY <1>1, <2>3, <4>1, <4>2, Numbers
      <4>. QED
        BY <1>1, <3>1, <4>1, <4>3 DEF TagsGrow
    <3>. QED
      BY <3>3, <3>4
  <2>. QED
    BY <2>2, <2>3
<1>19. TagsGrow'
  <2>. SUFFICES ASSUME NEW q \in Pipes, NEW i \in Runs, NEW k \in Runs, i < k, Started(q, k)',
                       pipe'[q][i].stage # "Build", pipe'[q][k].stage # "Build"
       PROVE  pipe'[q][i].tag <= pipe'[q][k].tag
    BY DEF TagsGrow
  <2>1. i \in Nat /\ k \in Nat /\ Started(q, i)'
    BY <1>1, Numbers DEF RunsKeepOrder
  <2>2. CASE q # p \/ (i # r /\ k # r)
    BY <1>1, <1>2, <2>1, <2>2 DEF TagsGrow
  <2>3. CASE q = p /\ k = r
    <3>1. i # r /\ Started(p, i) /\ pipe[p][i].stage # "Build" /\ pipe'[p][i].tag = pipe[p][i].tag
      BY <1>2, <2>1, <2>3
    <3>2. Started(p, r) /\ b.stage # "Build"
      BY <1>2, <1>14, <2>3
    <3>3. CASE pipe[p][r].stage # "Build"
      BY <1>1, <1>2, <1>14, <2>3, <3>1, <3>2, <3>3 DEF TagsGrow
    <3>4. CASE pipe[p][r].stage = "Build" /\ p = "prd"
      BY <1>1, <1>2, <1>9, <1>14, <2>3, <3>1, <3>2, <3>4 DEF TagIsNewest
    <3>5. CASE pipe[p][r].stage = "Build" /\ p = "dev"
      <4>1. pipe["dev"][i].tag = pipe["dev"][i].commit
        BY <1>1, <1>5, <3>1, <3>5, BuildsAre DEF Leaves
      <4>2. pipe["dev"][i].commit <= pipe["dev"][r].commit
        BY <1>1, <2>3, <3>2, <3>5 DEF CommitsGrow
      <4>. QED
        BY <1>2, <1>11, <1>14, <2>3, <3>1, <3>2, <3>5, <4>1, <4>2
    <3>. QED
      BY <3>3, <3>4, <3>5 DEF Pipes
  <2>4. CASE q = p /\ i = r
    <3>1. k # r /\ Started(p, k) /\ pipe[p][k].stage # "Build" /\ pipe'[p][k].tag = pipe[p][k].tag
      BY <1>2, <2>1, <2>4
    <3>2. Started(p, r) /\ b.stage # "Build"
      BY <1>2, <1>14, <2>4
    <3>3. pipe[p][r].stage # "Build"
      <4>1. SUFFICES ASSUME pipe[p][r].stage = "Build" PROVE FALSE
        OBVIOUS
      <4>2. ~Entered(p, k, "Build")
        BY <1>1, <1>14, <2>4, <3>2, <4>1 DEF RunsKeepOrder
      <4>3. pipe[p][k].stage \in Stages
        BY <1>9, <3>1
      <4>. QED
        BY <3>1, <4>2, <4>3, Ranks DEF Entered, Stages
    <3>. QED
      BY <1>1, <1>2, <1>14, <2>4, <3>1, <3>2, <3>3 DEF TagsGrow
  <2>. QED
    BY <2>2, <2>3, <2>4
<1>20. \A i, k \in Runs : i < k <=> k \in i + 1 .. MaxRuns
  BY BoundsAssumption DEF Runs
<1>21. \A i \in Runs : \A k \in i + 1 .. MaxRuns : k \in Runs
  BY BoundsAssumption DEF Runs
<1>. QED
  BY <1>10, <1>12, <1>13, <1>15, <1>18, <1>19, <1>20, <1>21
     DEF TagsMoveForward, TagsUpTo, CommitsGrow, TagBehind, TagIsNewest, ServiceBehind, TagsGrow

LEMMA StepIInv ==
    ASSUME IInv, NEW p \in Pipes, NEW r \in Runs, NEW b, Step(p, r, b)
    PROVE  IInv'
<1>1. RunsAreSerial' /\ UrlsNameThePasswords'
  BY DEF IInv, Step, Effect, bootVars, RunsAreSerial, UrlsNameThePasswords
<1>2. RunsKeepOrder'
  BY OrderStep DEF IInv, Step
<1>. QED
  BY <1>1, <1>2, StepTypes, StepBuilds, StepBacked, StepApproved, StepTags DEF IInv

-----------------------------------------------------------------------------
(* Each action of the pipelines is such a step.                            *)

\* Where a step of a run leaves all but the run as it was.
LEMMA Quiet ==
    ASSUME IInv, NEW p \in Pipes, NEW r \in Runs, NEW b,
           UNCHANGED <<bootVars, up, head, tested, repo, imageTag, approved, service>>,
           Started(p, r) => b.commit = pipe[p][r].commit /\ b.tag = pipe[p][r].tag,
           ~Started(p, r) => b.tag = 0 /\ (p = "dev" => b.commit = head),
           b.deploy # "updating",
           Started(p, r) /\ p = "prd" /\ pipe[p][r].stage = "Build" => b.stage = "Build"
    PROVE  Effect(p, r, b)
<1>1. /\ tested \subseteq Images /\ approved \subseteq Images /\ repo \subseteq tested
  BY DEF IInv, TypeOK, ReleasesAreBacked
<1>. QED
  BY <1>1 DEF Effect

LEMMA StartRunStep ==
    ASSUME IInv, NEW p \in Pipes, NEW r \in Runs, StartRun(p, r)
    PROVE  IInv'
<1>. DEFINE b == IF p = "dev" THEN [Start0 EXCEPT !.commit = head] ELSE [Start0 EXCEPT !.docker = "ok"]
<1>1. /\ b \in Run /\ b.state = "waiting" /\ b.stage = "Build" /\ b.tag = 0 /\ b.cdk = "todo"
      /\ b.deploy = "before"
      /\ p = "dev" => b.commit = head /\ b.docker = "todo"
      /\ p = "prd" => b.docker = "ok"
      /\ head \in 1 .. head
  BY BoundsAssumption DEF IInv, TypeOK, Start0, Run, Stages, Results, Tags, Images, Pipes
<1>2. Arrive(p, r, b) /\ ~Started(p, r) /\ \A k \in 1 .. r - 1 : Started(p, k)
  BY DEF StartRun
<1>3. UNCHANGED <<bootVars, up, head, tested, repo, imageTag, approved, service>>
  BY DEF StartRun
<1>. HIDE DEF b
<1>4. Changes(p, r, b)
  BY <1>1, <1>2, ArriveChanges DEF IInv
<1>5. Moves(p, r, b)
  BY <1>1, <1>2 DEF Moves
<1>6. Effect(p, r, b)
  BY <1>1, <1>2, <1>3, Quiet
<1>7. Leaves(p, b, head', tested', repo', approved')
  BY <1>1, <1>3 DEF Leaves
<1>. QED
  BY <1>4, <1>5, <1>6, <1>7, StepIInv DEF Step

\* A run that changes its state or its step only, and not to deploying.
LEMMA InPlaceStep ==
    ASSUME IInv, NEW p \in Pipes, NEW r \in Runs, NEW b \in Run, Started(p, r),
           Set(p, r, b), Moves(p, r, b), b.state # "waiting",
           UNCHANGED <<bootVars, up, head, tested, repo, imageTag, approved, service>>,
           b.stage = pipe[p][r].stage, b.commit = pipe[p][r].commit, b.tag = pipe[p][r].tag,
           b.deploy # "updating",
           b.stage # "Deploy" => b.deploy = "before",
           b.docker = pipe[p][r].docker \/ (b.stage = "Build" /\ p = "dev" /\ b.docker \in {"todo", "failed"}),
           b.cdk = pipe[p][r].cdk \/ (b.stage = "Build" /\ b.cdk \in {"todo", "failed"})
    PROVE  IInv'
<1>1. Changes(p, r, b)
  BY SetChanges DEF IInv
<1>2. Effect(p, r, b)
  BY Quiet
<1>3. Leaves(p, pipe[p][r], head, tested, repo, approved)
  BY BuildsAre DEF IInv
<1>4. Leaves(p, b, head', tested', repo', approved')
  BY <1>3 DEF Leaves, Pipes
<1>. QED
  BY <1>1, <1>2, <1>4, StepIInv DEF Step

LEMMA EnterStep ==
    ASSUME IInv, NEW p \in Pipes, NEW r \in Runs, Enter(p, r)
    PROVE  IInv'
<1>. DEFINE b == [pipe[p][r] EXCEPT !.state = "working"]
<1>1. Started(p, r) /\ pipe[p][r] \in Run
  BY StartedIsRun DEF IInv, Enter
<1>2. /\ b \in Run /\ b.state = "working" /\ b.stage = pipe[p][r].stage
      /\ b.commit = pipe[p][r].commit /\ b.tag = pipe[p][r].tag /\ b.docker = pipe[p][r].docker
      /\ b.cdk = pipe[p][r].cdk /\ b.deploy = pipe[p][r].deploy
  BY <1>1 DEF Run
<1>3. b.deploy # "updating" /\ (b.stage # "Deploy" => b.deploy = "before")
  BY <1>1, <1>2 DEF IInv, BuildsLeave, Enter
<1>4. Set(p, r, b) /\ UNCHANGED <<bootVars, up, head, tested, repo, imageTag, approved, service>>
  BY DEF Enter
<1>. HIDE DEF b
<1>5. Moves(p, r, b)
  BY <1>2 DEF Moves, Enter
<1>. QED
  BY <1>1, <1>2, <1>3, <1>4, <1>5, InPlaceStep

LEMMA RetryStep ==
    ASSUME IInv, NEW p \in Pipes, NEW r \in Runs, Retry(p, r)
    PROVE  IInv'
<1>. DEFINE anew(result) == IF result = "failed" THEN "todo" ELSE result
            b == [pipe[p][r] EXCEPT !.state = "working", !.docker = anew(pipe[p][r].docker),
                                    !.cdk = anew(pipe[p][r].cdk)]
<1>1. Started(p, r) /\ pipe[p][r] \in Run
  BY StartedIsRun DEF IInv, Retry
<1>2. /\ b \in Run /\ b.state = "working" /\ b.stage = pipe[p][r].stage
      /\ b.commit = pipe[p][r].commit /\ b.tag = pipe[p][r].tag
      /\ b.docker = anew(pipe[p][r].docker)
      /\ b.cdk = anew(pipe[p][r].cdk) /\ b.deploy = pipe[p][r].deploy
  BY <1>1 DEF Run, Results
<1>3. /\ b.deploy # "updating" /\ (b.stage # "Deploy" => b.deploy = "before")
      /\ pipe[p][r].stage # "Build" => pipe[p][r].docker = "ok" /\ pipe[p][r].cdk = "ok"
      /\ p = "prd" => pipe[p][r].docker = "ok"
  BY <1>1, <1>2 DEF IInv, BuildsLeave, Retry
<1>4. Set(p, r, b) /\ UNCHANGED <<bootVars, up, head, tested, repo, imageTag, approved, service>>
  BY <1>1 DEF Retry, Set
<1>5. /\ b.docker = pipe[p][r].docker \/ (b.stage = "Build" /\ p = "dev" /\ b.docker \in {"todo", "failed"})
      /\ b.cdk = pipe[p][r].cdk \/ (b.stage = "Build" /\ b.cdk \in {"todo", "failed"})
  BY <1>2, <1>3 DEF Pipes
<1>. HIDE DEF b
<1>6. Moves(p, r, b)
  BY <1>2 DEF Moves, Retry
<1>. QED
  BY <1>1, <1>2, <1>3, <1>4, <1>5, <1>6, InPlaceStep

\* A run at work whose stage fails or is done.
LEMMA StopStep ==
    ASSUME IInv, NEW p \in Pipes, NEW r \in Runs, NEW state \in {"failed", "done"},
           pipe[p][r].state = "working", pipe[p][r].deploy # "updating",
           Set(p, r, [pipe[p][r] EXCEPT !.state = state]),
           UNCHANGED <<bootVars, up, head, tested, repo, imageTag, approved, service>>
    PROVE  IInv'
<1>. DEFINE b == [pipe[p][r] EXCEPT !.state = state]
<1>1. Started(p, r) /\ pipe[p][r] \in Run
  BY StartedIsRun DEF IInv
<1>2. /\ b \in Run /\ b.state = state /\ b.stage = pipe[p][r].stage
      /\ b.commit = pipe[p][r].commit /\ b.tag = pipe[p][r].tag /\ b.docker = pipe[p][r].docker
      /\ b.cdk = pipe[p][r].cdk /\ b.deploy = pipe[p][r].deploy
  BY <1>1 DEF Run
<1>3. b.deploy # "updating" /\ (b.stage # "Deploy" => b.deploy = "before")
  BY <1>1, <1>2 DEF IInv, BuildsLeave
<1>. HIDE DEF b
<1>4. Set(p, r, b)
  BY DEF b
<1>5. Moves(p, r, b)
  BY <1>2 DEF Moves, Stays
<1>. QED
  BY <1>1, <1>2, <1>3, <1>4, <1>5, InPlaceStep

\* An action of a Build that is not the last to end, or is, or fails.
LEMMA EndOfActionStep ==
    ASSUME IInv, NEW p \in Pipes, NEW r \in Runs, NEW e \in Run, Working(p, r, "Build"),
           e.state = "working", e.stage = "Build", e.deploy = "before",
           Effect(p, r, e), Leaves(p, e, head', tested', repo', approved'),
           p = "prd" /\ e.cdk = "ok" => e.tag = imageTag',
           EndOfAction(p, r, e) \/ Set(p, r, e)
    PROVE  IInv'
<1>. DEFINE failed == [e EXCEPT !.state = "failed"]
            next == [e EXCEPT !.stage = NextStage(p), !.state = "waiting"]
<1>1. /\ TypeOK /\ Started(p, r) /\ pipe[p][r].state = "working" /\ pipe[p][r].stage = "Build"
      /\ service' = service
  BY StartedIsRun DEF IInv, Working, Effect
<1>2. CASE Set(p, r, e)
  <2>1. Changes(p, r, e)
    BY <1>1, <1>2, SetChanges
  <2>2. Moves(p, r, e)
    BY <1>1 DEF Moves, Stays
  <2>. QED
    BY <2>1, <2>2, StepIInv DEF Step
<1>3. CASE Set(p, r, failed)
  <2>1. /\ failed \in Run /\ failed.state = "failed" /\ failed.stage = "Build" /\ failed.deploy = "before"
        /\ failed.commit = e.commit /\ failed.docker = e.docker /\ failed.cdk = e.cdk
        /\ failed.tag = e.tag
    BY DEF Run
  <2>. HIDE DEF failed
  <2>2. Changes(p, r, failed)
    BY <1>1, <1>3, <2>1, SetChanges
  <2>3. Moves(p, r, failed)
    BY <1>1, <2>1 DEF Moves, Stays
  <2>4. Effect(p, r, failed)
    BY <1>1, <2>1 DEF Effect
  <2>5. Leaves(p, failed, head', tested', repo', approved')
    BY <2>1 DEF Leaves
  <2>. QED
    BY <2>2, <2>3, <2>4, <2>5, StepIInv DEF Step
<1>4. CASE {e.docker, e.cdk} = {"ok"} /\ Arrive(p, r, next)
  <2>1. NextStage(p) = (IF p = "prd" THEN "Validation" ELSE "Deploy") /\ NextStage(p) \in Stages
    BY DEF NextStage, Stages
  <2>2. /\ next \in Run /\ next.state = "waiting" /\ next.stage = NextStage(p)
        /\ next.deploy = "before" /\ next.commit = e.commit /\ next.docker = e.docker
        /\ next.cdk = e.cdk /\ next.tag = e.tag
    BY <2>1 DEF Run
  <2>3. e.docker = "ok" /\ e.cdk = "ok"
    BY <1>4
  <2>. HIDE DEF next
  <2>4. Changes(p, r, next)
    BY <1>1, <1>4, <2>2, ArriveChanges
  <2>5. Moves(p, r, next)
    <3>1. \A k \in Runs : Started(p, k) =>
             \/ Rank(pipe[p][k].stage) <= Rank("Build")
             \/ Rank(pipe[p][k].stage) >= Rank(next.stage)
      <4>. SUFFICES ASSUME NEW k \in Runs, Started(p, k)
           PROVE \/ Rank(pipe[p][k].stage) <= Rank("Build")
                 \/ Rank(pipe[p][k].stage) >= Rank(next.stage)
        OBVIOUS
      <4>1. pipe[p][k].stage \in Stages /\ (p # "prd" => pipe[p][k].stage # "Validation")
        BY <1>1, StartedIsRun DEF IInv, BuildsLeave, Run, Pipes
      <4>. QED
        BY <2>1, <2>2, <4>1, Ranks DEF Stages
    <3>2. Rank("Build") < Rank(next.stage)
      BY <2>1, <2>2, Ranks
    <3>. QED
      BY <1>1, <2>2, <3>1, <3>2 DEF Moves
  <2>6. Effect(p, r, next)
    BY <1>1, <2>2, <2>3 DEF Effect
  <2>7. Leaves(p, next, head', tested', repo', approved')
    BY <2>1, <2>2, <2>3 DEF Leaves, Pipes
  <2>. QED
    BY <2>4, <2>5, <2>6, <2>7, StepIInv DEF Step
<1>. QED
  BY <1>2, <1>3, <1>4 DEF EndOfAction

\* What an action of a Build finds.
LEMMA InBuild ==
    ASSUME IInv, NEW p \in Pipes, NEW r \in Runs, Working(p, r, "Build")
    PROVE  /\ Started(p, r) /\ pipe[p][r] \in Run
           /\ pipe[p][r].state = "working" /\ pipe[p][r].stage = "Build"
           /\ pipe[p][r].deploy = "before"
           /\ Leaves(p, pipe[p][r], head, tested, repo, approved)
           /\ ~Working(p, r, "Deploy")
           /\ tested \subseteq Images /\ approved \subseteq Images /\ repo \subseteq tested
           /\ p = "dev" => pipe[p][r].commit \in Images
<1>1. Started(p, r) /\ pipe[p][r] \in Run
  BY StartedIsRun DEF IInv, Working
<1>2. Leaves(p, pipe[p][r], head, tested, repo, approved)
  BY <1>1, BuildsAre DEF IInv
<1>3. p = "dev" => pipe[p][r].commit \in Images
  BY <1>1, <1>2, BoundsAssumption DEF Leaves, Run, IInv, TypeOK, Images, Tags
<1>. QED
  BY <1>1, <1>2, <1>3 DEF Leaves, Working, IInv, TypeOK, ReleasesAreBacked

LEMMA TestAndBuildStep ==
    ASSUME IInv, NEW r \in Runs, TestAndBuild(r)
    PROVE  IInv'
<1>. DEFINE e(result) == [pipe["dev"][r] EXCEPT !.docker = result]
<1>1. Working("dev", r, "Build") /\ "dev" \in Pipes
  BY DEF TestAndBuild, DockerAt, Pipes
<1>2. ASSUME NEW result \in {"built", "failed"},
             EndOfAction("dev", r, e(result)) \/ Set("dev", r, e(result))
      PROVE  IInv'
  <2>. DEFINE b == e(result)
  <2>1. /\ b \in Run /\ b.state = "working" /\ b.stage = "Build" /\ b.deploy = "before"
        /\ b.docker = result /\ b.commit = pipe["dev"][r].commit
        /\ b.tag = pipe["dev"][r].tag /\ b.cdk = pipe["dev"][r].cdk
    BY <1>1, InBuild DEF Run, Results
  <2>2. EndOfAction("dev", r, b) \/ Set("dev", r, b)
    BY <1>2
  <2>. HIDE DEF b
  <2>3. Effect("dev", r, b)
    BY <1>1, <2>1, InBuild DEF Effect, TestAndBuild
  <2>4. Leaves("dev", b, head', tested', repo', approved')
    BY <1>1, <2>1, InBuild DEF Leaves, TestAndBuild
  <2>. QED
    BY <1>1, <2>1, <2>2, <2>3, <2>4, EndOfActionStep
<1>. QED
  BY <1>2 DEF TestAndBuild

LEMMA DockerPushStep ==
    ASSUME IInv, NEW r \in Runs, DockerPush(r)
    PROVE  IInv'
<1>. DEFINE b == [pipe["dev"][r] EXCEPT !.docker = "pushed"]
<1>1. Working("dev", r, "Build") /\ "dev" \in Pipes /\ pipe["dev"][r].docker = "built"
  BY DEF DockerPush, DockerAt, Pipes
<1>2. /\ b \in Run /\ b.state = "working" /\ b.stage = "Build" /\ b.deploy = "before"
      /\ b.docker = "pushed" /\ b.commit = pipe["dev"][r].commit
      /\ b.tag = pipe["dev"][r].tag /\ b.cdk = pipe["dev"][r].cdk
  BY <1>1, InBuild DEF Run, Results
<1>3. Set("dev", r, b)
  BY DEF DockerPush
<1>. HIDE DEF b
<1>4. Effect("dev", r, b)
  BY <1>1, <1>2, InBuild DEF Effect, DockerPush, Leaves
<1>5. Leaves("dev", b, head', tested', repo', approved')
  BY <1>1, <1>2, InBuild DEF Leaves, DockerPush
<1>. QED
  BY <1>1, <1>2, <1>3, <1>4, <1>5, EndOfActionStep

LEMMA PutImageTagStep ==
    ASSUME IInv, NEW r \in Runs, PutImageTag(r)
    PROVE  IInv'
<1>1. /\ Working("dev", r, "Build") /\ "dev" \in Pipes /\ pipe["dev"][r].docker = "pushed"
      /\ imageTag' = pipe["dev"][r].commit
      /\ UNCHANGED <<bootVars, up, head, tested, repo, approved, service>>
  BY DEF PutImageTag, DockerAt, Pipes
<1>2. imageTag' \in repo
  BY <1>1, InBuild DEF Leaves
<1>3. CASE EndOfAction("dev", r, [pipe["dev"][r] EXCEPT !.docker = "ok", !.tag = imageTag'])
  <2>. DEFINE b == [pipe["dev"][r] EXCEPT !.docker = "ok", !.tag = imageTag']
  <2>1. /\ b \in Run /\ b.state = "working" /\ b.stage = "Build" /\ b.deploy = "before"
        /\ b.docker = "ok" /\ b.commit = pipe["dev"][r].commit
        /\ b.tag = imageTag' /\ b.cdk = pipe["dev"][r].cdk
    BY <1>1, InBuild DEF Run, Results
  <2>2. EndOfAction("dev", r, b)
    BY <1>3
  <2>. HIDE DEF b
  <2>3. Effect("dev", r, b)
    BY <1>1, <1>2, <2>1, InBuild DEF Effect
  <2>4. Leaves("dev", b, head', tested', repo', approved')
    BY <1>1, <1>2, <2>1, InBuild DEF Leaves
  <2>. QED
    BY <1>1, <2>1, <2>2, <2>3, <2>4, EndOfActionStep
<1>4. CASE EndOfAction("dev", r, [pipe["dev"][r] EXCEPT !.docker = "failed"])
  <2>. DEFINE b == [pipe["dev"][r] EXCEPT !.docker = "failed"]
  <2>1. /\ b \in Run /\ b.state = "working" /\ b.stage = "Build" /\ b.deploy = "before"
        /\ b.docker = "failed" /\ b.commit = pipe["dev"][r].commit
        /\ b.tag = pipe["dev"][r].tag /\ b.cdk = pipe["dev"][r].cdk
    BY <1>1, InBuild DEF Run, Results
  <2>2. EndOfAction("dev", r, b)
    BY <1>4
  <2>. HIDE DEF b
  <2>3. Effect("dev", r, b)
    BY <1>1, <1>2, <2>1, InBuild DEF Effect
  <2>4. Leaves("dev", b, head', tested', repo', approved')
    BY <1>1, <1>2, <2>1, InBuild DEF Leaves
  <2>. QED
    BY <1>1, <2>1, <2>2, <2>3, <2>4, EndOfActionStep
<1>. QED
  BY <1>3, <1>4 DEF PutImageTag

LEMMA DockerFailStep ==
    ASSUME IInv, NEW r \in Runs, DockerFail(r)
    PROVE  IInv'
<1>. DEFINE b == [pipe["dev"][r] EXCEPT !.docker = "failed"]
<1>1. /\ Working("dev", r, "Build") /\ "dev" \in Pipes
      /\ UNCHANGED <<bootVars, up, head, tested, repo, imageTag, approved, service>>
  BY DEF DockerFail, DockerAt, Pipes
<1>2. /\ b \in Run /\ b.state = "working" /\ b.stage = "Build" /\ b.deploy = "before"
      /\ b.docker = "failed" /\ b.commit = pipe["dev"][r].commit
      /\ b.tag = pipe["dev"][r].tag /\ b.cdk = pipe["dev"][r].cdk
  BY <1>1, InBuild DEF Run, Results
<1>3. EndOfAction("dev", r, b)
  BY DEF DockerFail
<1>. HIDE DEF b
<1>4. Effect("dev", r, b)
  BY <1>1, <1>2, InBuild, Quiet
<1>5. Leaves("dev", b, head', tested', repo', approved')
  BY <1>1, <1>2, InBuild DEF Leaves
<1>. QED
  BY <1>1, <1>2, <1>3, <1>4, <1>5, EndOfActionStep

LEMMA CdkBuildStep ==
    ASSUME IInv, NEW p \in Pipes, NEW r \in Runs, CdkBuild(p, r)
    PROVE  IInv'
<1>. DEFINE b == [pipe[p][r] EXCEPT !.cdk = "ok", !.tag = IF p = "prd" THEN imageTag ELSE pipe[p][r].tag]
<1>1. /\ Working(p, r, "Build") /\ (p = "prd" => imageTag # 0) /\ imageTag \in Tags
      /\ UNCHANGED <<bootVars, up, head, tested, repo, imageTag, approved, service>>
  BY DEF CdkBuild, IInv, TypeOK
<1>2. /\ b \in Run /\ b.state = "working" /\ b.stage = "Build" /\ b.deploy = "before"
      /\ b.docker = pipe[p][r].docker /\ b.commit = pipe[p][r].commit
      /\ b.tag = (IF p = "prd" THEN imageTag ELSE pipe[p][r].tag) /\ b.cdk = "ok"
  BY <1>1, InBuild DEF Run, Results
<1>3. EndOfAction(p, r, b)
  BY <1>1, InBuild DEF CdkBuild
<1>. HIDE DEF b
<1>4. Effect(p, r, b)
  BY <1>1, <1>2, InBuild DEF Effect
<1>5. p = "prd" => imageTag \in repo
  BY <1>1 DEF IInv, ReleasesAreBacked
<1>6. Leaves(p, b, head', tested', repo', approved')
  BY <1>1, <1>2, <1>5, InBuild DEF Leaves
<1>. QED
  BY <1>1, <1>2, <1>3, <1>4, <1>6, EndOfActionStep

LEMMA CdkFailStep ==
    ASSUME IInv, NEW p \in Pipes, NEW r \in Runs, CdkFail(p, r)
    PROVE  IInv'
<1>. DEFINE b == [pipe[p][r] EXCEPT !.cdk = "failed"]
<1>1. /\ Working(p, r, "Build")
      /\ UNCHANGED <<bootVars, up, head, tested, repo, imageTag, approved, service>>
  BY DEF CdkFail
<1>2. /\ b \in Run /\ b.state = "working" /\ b.stage = "Build" /\ b.deploy = "before"
      /\ b.docker = pipe[p][r].docker /\ b.commit = pipe[p][r].commit
      /\ b.tag = pipe[p][r].tag /\ b.cdk = "failed"
  BY <1>1, InBuild DEF Run, Results
<1>3. EndOfAction(p, r, b)
  BY DEF CdkFail
<1>. HIDE DEF b
<1>4. Effect(p, r, b)
  BY <1>1, <1>2, InBuild, Quiet
<1>5. Leaves(p, b, head', tested', repo', approved')
  BY <1>1, <1>2, InBuild DEF Leaves
<1>. QED
  BY <1>1, <1>2, <1>3, <1>4, <1>5, EndOfActionStep

LEMMA ApproveStep ==
    ASSUME IInv, NEW r \in Runs, Approve(r)
    PROVE  IInv'
<1>. DEFINE b == [pipe["prd"][r] EXCEPT !.stage = "Deploy", !.state = "waiting"]
<1>1. /\ pipe["prd"][r].state = "working" /\ pipe["prd"][r].stage = "Validation"
      /\ "prd" \in Pipes /\ Arrive("prd", r, b)
      /\ approved' = approved \cup {pipe["prd"][r].tag}
      /\ UNCHANGED <<bootVars, up, head, tested, repo, imageTag, service>>
      /\ TypeOK
  BY DEF Approve, Working, Pipes, IInv
<1>2. Started("prd", r) /\ pipe["prd"][r] \in Run
  BY <1>1, StartedIsRun
<1>3. Leaves("prd", pipe["prd"][r], head, tested, repo, approved)
  BY <1>1, <1>2, BuildsAre DEF IInv
<1>4. /\ b \in Run /\ b.state = "waiting" /\ b.stage = "Deploy" /\ b.deploy = "before"
      /\ b.docker = "ok" /\ b.cdk = "ok" /\ b.commit = pipe["prd"][r].commit
      /\ b.tag = pipe["prd"][r].tag /\ b.tag \in repo
  BY <1>1, <1>2, <1>3 DEF Leaves, Run, Stages
<1>. HIDE DEF b
<1>5. Changes("prd", r, b)
  BY <1>1, <1>4, ArriveChanges
<1>6. Moves("prd", r, b)
  <2>1. \A k \in Runs : Started("prd", k) => pipe["prd"][k].stage \in Stages
    BY <1>1, StartedIsRun DEF Run
  <2>. QED
    BY <1>1, <1>4, <2>1, Ranks DEF Moves, Stages
<1>7. tested \subseteq Images /\ repo \subseteq tested /\ approved \subseteq Images
  BY DEF IInv, TypeOK, ReleasesAreBacked
<1>8. Effect("prd", r, b)
  BY <1>1, <1>2, <1>4, <1>7 DEF Effect, Working
<1>9. Leaves("prd", b, head', tested', repo', approved')
  BY <1>1, <1>4 DEF Leaves
<1>. QED
  BY <1>1, <1>5, <1>6, <1>8, <1>9, StepIInv DEF Step

\* A step of a run in its Deploy that may change the service.
LEMMA DeployStep ==
    ASSUME IInv, NEW p \in Pipes, NEW r \in Runs, NEW b \in Run, Working(p, r, "Deploy"), Set(p, r, b),
           b.state \in {"working", "failed"}, b.stage = "Deploy",
           b.docker = pipe[p][r].docker, b.cdk = pipe[p][r].cdk,
           b.commit = pipe[p][r].commit, b.tag = pipe[p][r].tag,
           b.state = "working" \/ b.deploy # "updating",
           NEW now \in {service[p].now, b.tag}, NEW next \in {0, b.tag},
           service' = [service EXCEPT ![p] = [now |-> now, next |-> next]],
           b.deploy = "updating" => next = b.tag,
           UNCHANGED <<bootVars, up, head, tested, repo, imageTag, approved>>
    PROVE  IInv'
<1>1. TypeOK /\ Started(p, r) /\ pipe[p][r].state = "working" /\ pipe[p][r].stage = "Deploy"
  BY StartedIsRun DEF IInv, Working
<1>2. Changes(p, r, b)
  BY <1>1, SetChanges
<1>3. Moves(p, r, b)
  BY <1>1 DEF Moves, Stays
<1>4. tested \subseteq Images /\ repo \subseteq tested /\ approved \subseteq Images
  BY DEF IInv, TypeOK, ReleasesAreBacked
<1>5. b.deploy = "updating" => service'[p].next = b.tag
  BY <1>1 DEF TypeOK
<1>6. Effect(p, r, b)
  BY <1>1, <1>4, <1>5 DEF Effect
<1>7. Leaves(p, pipe[p][r], head, tested, repo, approved)
  BY <1>1, BuildsAre DEF IInv
<1>8. Leaves(p, b, head', tested', repo', approved')
  BY <1>1, <1>7 DEF Leaves
<1>. QED
  BY <1>2, <1>3, <1>6, <1>8, StepIInv DEF Step

\* A service whose update alone changes.
LEMMA NextOfService ==
    ASSUME TypeOK, NEW p \in Pipes, NEW x
    PROVE  [service EXCEPT ![p].next = x] = [service EXCEPT ![p] = [now |-> service[p].now, next |-> x]]
<1>1. service[p] \in [now : Tags, next : Tags]
  BY DEF TypeOK
<1>2. [service[p] EXCEPT !.next = x] = [now |-> service[p].now, next |-> x]
  BY <1>1
<1>3. [service EXCEPT ![p].next = x] = [service EXCEPT ![p] = [service[p] EXCEPT !.next = x]]
  OBVIOUS
<1>. QED
  BY <1>2, <1>3

LEMMA UpdateAppStep ==
    ASSUME IInv, NEW p \in Pipes, NEW r \in Runs, UpdateApp(p, r)
    PROVE  IInv'
<1>. DEFINE b == [pipe[p][r] EXCEPT !.deploy = "updating"]
<1>1. Working(p, r, "Deploy") /\ pipe[p][r] \in Run /\ pipe[p][r].state = "working" /\ pipe[p][r].stage = "Deploy"
  BY StartedIsRun DEF UpdateApp, Deploying, Working, IInv
<1>2. /\ b \in Run /\ b.state = "working" /\ b.stage = "Deploy" /\ b.deploy = "updating"
      /\ b.docker = pipe[p][r].docker /\ b.cdk = pipe[p][r].cdk
      /\ b.commit = pipe[p][r].commit /\ b.tag = pipe[p][r].tag
  BY <1>1 DEF Run
<1>3. service' = [service EXCEPT ![p] = [now |-> service[p].now, next |-> pipe[p][r].tag]]
  BY NextOfService DEF UpdateApp, IInv
<1>4. Set(p, r, b) /\ UNCHANGED <<bootVars, up, head, tested, repo, imageTag, approved>>
  BY DEF UpdateApp
<1>. HIDE DEF b
<1>. QED
  BY <1>1, <1>2, <1>3, <1>4, DeployStep

LEMMA AppUpdatedStep ==
    ASSUME IInv, NEW p \in Pipes, NEW r \in Runs, AppUpdated(p, r)
    PROVE  IInv'
<1>. DEFINE b == [pipe[p][r] EXCEPT !.deploy = "after"]
<1>1. Working(p, r, "Deploy") /\ pipe[p][r] \in Run /\ pipe[p][r].state = "working" /\ pipe[p][r].stage = "Deploy"
  BY StartedIsRun DEF AppUpdated, Deploying, Working, IInv
<1>2. /\ b \in Run /\ b.state = "working" /\ b.stage = "Deploy" /\ b.deploy = "after"
      /\ b.docker = pipe[p][r].docker /\ b.cdk = pipe[p][r].cdk
      /\ b.commit = pipe[p][r].commit /\ b.tag = pipe[p][r].tag
  BY <1>1 DEF Run
<1>3. service[p].next = pipe[p][r].tag
  BY DEF AppUpdated, IInv, ReleasesAreBacked
<1>4. service' = [service EXCEPT ![p] = [now |-> pipe[p][r].tag, next |-> 0]]
  <2>. DEFINE x == [now |-> service[p].next, next |-> 0]
  <2>1. service' = [service EXCEPT ![p] = x]
    BY DEF AppUpdated
  <2>. QED
    BY <1>3, <2>1
<1>5. Set(p, r, b) /\ UNCHANGED <<bootVars, up, head, tested, repo, imageTag, approved>>
  BY DEF AppUpdated
<1>. HIDE DEF b
<1>. QED
  BY <1>1, <1>2, <1>4, <1>5, DeployStep

LEMMA AppRolledBackStep ==
    ASSUME IInv, NEW p \in Pipes, NEW r \in Runs, AppRolledBack(p, r)
    PROVE  IInv'
<1>. DEFINE b == [pipe[p][r] EXCEPT !.deploy = "before", !.state = "failed"]
<1>1. Working(p, r, "Deploy") /\ pipe[p][r] \in Run /\ pipe[p][r].state = "working" /\ pipe[p][r].stage = "Deploy"
  BY StartedIsRun DEF AppRolledBack, Deploying, Working, IInv
<1>2. /\ b \in Run /\ b.state = "failed" /\ b.stage = "Deploy" /\ b.deploy = "before"
      /\ b.docker = pipe[p][r].docker /\ b.cdk = pipe[p][r].cdk
      /\ b.commit = pipe[p][r].commit /\ b.tag = pipe[p][r].tag
  BY <1>1 DEF Run
<1>3. service' = [service EXCEPT ![p] = [now |-> service[p].now, next |-> 0]]
  BY NextOfService DEF AppRolledBack, IInv
<1>4. Set(p, r, b) /\ UNCHANGED <<bootVars, up, head, tested, repo, imageTag, approved>>
  BY DEF AppRolledBack
<1>. HIDE DEF b
<1>. QED
  BY <1>1, <1>2, <1>3, <1>4, DeployStep

LEMMA StopsStep ==
    ASSUME IInv, NEW p \in Pipes, NEW r \in Runs,
           DeployMetrics(p, r) \/ DeployFail(p, r) \/ (p = "prd" /\ Reject(r))
    PROVE  IInv'
<1>1. CASE DeployMetrics(p, r)
  <2>1. pipe[p][r].state = "working" /\ pipe[p][r].deploy # "updating"
    BY <1>1 DEF DeployMetrics, Deploying, Working
  <2>. QED
    BY <1>1, <2>1, StopStep DEF DeployMetrics
<1>2. CASE DeployFail(p, r)
  <2>1. pipe[p][r].state = "working" /\ pipe[p][r].deploy # "updating"
    BY <1>2 DEF DeployFail, Deploying, Working
  <2>. QED
    BY <1>2, <2>1, StopStep DEF DeployFail
<1>3. CASE p = "prd" /\ Reject(r)
  <2>1. pipe[p][r].state = "working" /\ pipe[p][r].deploy # "updating"
    BY <1>3, StartedIsRun DEF Reject, Working, IInv, BuildsLeave
  <2>. QED
    BY <1>3, <2>1, StopStep DEF Reject
<1>. QED
  BY <1>1, <1>2, <1>3

-----------------------------------------------------------------------------
(* The steps that leave the runs of the pipelines alone.                   *)

LEMMA InitIInv == Init => IInv
<1>. SUFFICES ASSUME Init PROVE IInv
  OBVIOUS
<1>1. BootTypeOK /\ RunsAreSerial /\ UrlsNameThePasswords
  BY BootAssumption DEF Init, BootInit, BootTypeOK, RunsAreSerial, UrlsNameThePasswords, NoRun
<1>2. TypeOK
  <2>1. pipe \in [Pipes -> [Runs -> Run \cup {Unstarted}]]
    BY DEF Init
  <2>2. service \in [Pipes -> [now : Tags, next : Tags]]
    BY BoundsAssumption DEF Init, Tags
  <2>3. head \in Images /\ imageTag \in Tags
    BY BoundsAssumption DEF Init, Images, Tags
  <2>. QED
    BY <1>1, <2>1, <2>2, <2>3 DEF Init, TypeOK
<1>3. \A p \in Pipes, r \in Runs : ~Started(p, r) /\ pipe[p][r].state = "unstarted"
  BY DEF Init, Started, Unstarted
<1>4. RunsKeepOrder /\ BuildsLeave
  BY <1>3 DEF RunsKeepOrder, BuildsLeave
<1>5. \A p \in Pipes : service[p].now = 0 /\ service[p].next = 0
  BY DEF Init
<1>6. ReleasesAreBacked
  BY <1>3, <1>5 DEF Init, ReleasesAreBacked, Deploying, Working
<1>7. ProductionWasApproved
  BY <1>5 DEF ProductionWasApproved, Pipes
<1>8. TagsMoveForward
  <2>1. "dev" \in Pipes
    BY DEF Pipes
  <2>. QED
    BY <1>3, <1>5, <2>1 DEF Init, TagsMoveForward
<1>. QED
  BY <1>1, <1>2, <1>4, <1>6, <1>7, <1>8 DEF IInv

\* A commit, or the deployment of the pipeline stacks.
LEMMA PushStep ==
    ASSUME IInv, Push \/ DeployPipelines
    PROVE  IInv'
<1>1. /\ UNCHANGED <<bootVars, tested, repo, imageTag, pipe, approved, service>>
      /\ head' \in Images /\ head \in Nat /\ head' \in Nat /\ head <= head' /\ up' \in BOOLEAN
  <2>1. head \in 1 .. MaxCommits /\ up \in BOOLEAN /\ MaxCommits \in Nat
    BY BoundsAssumption DEF IInv, TypeOK, Images
  <2>2. CASE Push
    BY <2>1, <2>2 DEF Push, Images
  <2>3. CASE DeployPipelines
    BY <2>1, <2>3 DEF DeployPipelines, Images
  <2>. QED
    BY <2>2, <2>3
<1>2. TypeOK' /\ RunsAreSerial' /\ UrlsNameThePasswords'
  BY <1>1 DEF IInv, TypeOK, BootTypeOK, bootVars, RunsAreSerial, UrlsNameThePasswords
<1>3. RunsKeepOrder' /\ ReleasesAreBacked' /\ ProductionWasApproved'
  <2>1. RunsKeepOrder'
    BY <1>1 DEF IInv, RunsKeepOrder, Entered, Started
  <2>2. ReleasesAreBacked'
    BY <1>1 DEF IInv, ReleasesAreBacked, Started, Deploying, Working
  <2>3. ProductionWasApproved'
    BY <1>1 DEF IInv, ProductionWasApproved
  <2>. QED
    BY <2>1, <2>2, <2>3
<1>4. BuildsLeave'
  <2>. SUFFICES ASSUME NEW p \in Pipes, NEW r \in Runs, Started(p, r)'
       PROVE  Leaves(p, pipe[p][r], head', tested, repo, approved)
    BY <1>1 DEF BuildsLeave, Leaves
  <2>1. Leaves(p, pipe[p][r], head, tested, repo, approved)
    BY <1>1, BuildsAre DEF IInv, Started
  <2>. QED
    BY <1>1, <2>1 DEF Leaves
<1>5. TagsMoveForward'
  <2>1. imageTag \in Nat
    BY BoundsAssumption DEF IInv, TypeOK, Tags
  <2>. QED
    BY <1>1, <2>1 DEF IInv, TagsMoveForward, Entered, Started
<1>. QED
  BY <1>2, <1>3, <1>4, <1>5 DEF IInv

\* What a run of the lambda, CloudFormation and RDS do to the bootstrap.
LEMMA BootstrapTypes ==
    ASSUME BootTypeOK, Bootstrap
    PROVE  BootTypeOK'
<1>. USE BootAssumption DEF BootTypeOK
<1>1. CASE CreateStack
  <2>1. db.instance \in 1 .. MaxDbs
    OBVIOUS
  <2>2. /\ creates' = Append(creates, db.instance) /\ Len(creates) < MaxCreates
        /\ stack' = "creating" /\ UNCHANGED <<db, ssm, run>>
    BY <1>1 DEF CreateStack
  <2>3. /\ creates' \in Seq(1 .. MaxDbs) /\ Len(creates') = Len(creates) + 1
    BY <2>1, <2>2
  <2>4. Len(creates') <= MaxCreates
    BY <2>2, <2>3
  <2>. HIDE DEF BootTypeOK
  <2>. QED
    BY <2>2, <2>3, <2>4 DEF BootTypeOK
<1>2. CASE CreateTimesOut \/ DeleteStack \/ ReplaceDb
  BY <1>2 DEF CreateTimesOut, DeleteStack, ReplaceDb
<1>3. ASSUME NEW i \in LambdaRuns, Lambda(i) PROVE BootTypeOK'
  <2>0. ASSUME NEW pc \in {"url", "urls", "over"}, Goto(i, pc)
        PROVE  run' \in [LambdaRuns ->
                       [pc : {"unused", "begun", "schema", "committed", "url", "urls", "over"},
                        request : 0 .. MaxCreates]]
    BY <2>0 DEF Goto
  <2>1. CASE Begin(i)
    <3>1. PICK c \in 1 .. Len(creates) : run' = [run EXCEPT ![i] = [pc |-> "begun", request |-> c]]
      BY <2>1 DEF Begin
    <3>2. Len(creates) \in Nat
      OBVIOUS
    <3>3. c \in 0 .. MaxCreates
      BY <3>1, <3>2
    <3>. QED
      BY <2>1, <3>1, <3>3 DEF Begin
  <2>2. CASE LaySchema(i)
    BY <2>2 DEF LaySchema, Goto
  <2>3. CASE Commit(i)
    BY <2>3 DEF Commit, Goto
  <2>4. CASE PutUrl(i) \/ PutTestUrl(i)
    <3>1. ssm' \in [url : LambdaRuns \cup {NoRun}, test : LambdaRuns \cup {NoRun}]
      BY <2>4 DEF PutUrl, PutTestUrl
    <3>2. run' \in [LambdaRuns ->
                      [pc : {"unused", "begun", "schema", "committed", "url", "urls", "over"},
                       request : 0 .. MaxCreates]]
      BY <2>0, <2>4 DEF PutUrl, PutTestUrl
    <3>. QED
      BY <2>4, <3>1, <3>2 DEF PutUrl, PutTestUrl
  <2>5. CASE Succeed(i) \/ CutOff(i)
    <3>1. run' \in [LambdaRuns ->
                      [pc : {"unused", "begun", "schema", "committed", "url", "urls", "over"},
                       request : 0 .. MaxCreates]]
      BY <2>0, <2>5 DEF Succeed, CutOff
    <3>2. stack' \in {"none", "creating", "complete", "failed"}
      BY <2>5 DEF Succeed, CutOff, Answer
    <3>. QED
      BY <2>5, <3>1, <3>2 DEF Succeed, CutOff
  <2>6. CASE FailRun(i)
    BY <2>6 DEF FailRun, Goto, Answer
  <2>. QED
    BY <1>3, <2>1, <2>2, <2>3, <2>4, <2>5, <2>6 DEF Lambda
<1>. QED
  BY <1>1, <1>2, <1>3 DEF Bootstrap

LEMMA BootstrapSerial ==
    ASSUME BootTypeOK, RunsAreSerial, Bootstrap
    PROVE  RunsAreSerial'
<1>0. NoRun \notin LambdaRuns
  BY BootAssumption DEF NoRun
<1>1. CASE CreateStack \/ CreateTimesOut \/ DeleteStack
  BY <1>1 DEF CreateStack, CreateTimesOut, DeleteStack, RunsAreSerial
<1>2. CASE ReplaceDb
  BY <1>0, <1>2 DEF ReplaceDb, RunsAreSerial, BootTypeOK
<1>3. ASSUME NEW i \in LambdaRuns, Lambda(i) PROVE RunsAreSerial'
  <2>1. ASSUME NEW pc, run' = [run EXCEPT ![i].pc = pc]
        PROVE  /\ run'[i].pc = pc
               /\ \A k \in LambdaRuns : k # i => run'[k] = run[k]
    BY <2>1 DEF BootTypeOK
  <2>2. CASE Begin(i)
    BY <2>2 DEF Begin, RunsAreSerial, BootTypeOK
  <2>3. CASE LaySchema(i)
    BY <1>0, <2>1, <2>3 DEF LaySchema, Goto, RunsAreSerial
  <2>4. CASE Commit(i)
    BY <1>0, <2>1, <2>4 DEF Commit, Goto, RunsAreSerial, BootTypeOK
  <2>5. CASE PutUrl(i)
    BY <1>0, <2>1, <2>5 DEF PutUrl, Goto, RunsAreSerial, BootTypeOK
  <2>6. CASE PutTestUrl(i)
    BY <1>0, <2>1, <2>6 DEF PutTestUrl, Goto, RunsAreSerial, BootTypeOK
  <2>7. CASE Succeed(i) \/ CutOff(i)
    <3>1. run' = [run EXCEPT ![i].pc = "over"] /\ UNCHANGED <<db, ssm>>
      BY <2>7 DEF Succeed, CutOff, Goto
    <3>2. run'[i].pc = "over" /\ \A k \in LambdaRuns : k # i => run'[k] = run[k]
      BY <2>1, <3>1
    <3>. QED
      BY <3>1, <3>2 DEF RunsAreSerial
  <2>8. CASE FailRun(i)
    BY <1>0, <2>1, <2>8 DEF FailRun, Goto, RunsAreSerial, BootTypeOK
  <2>. QED
    BY <1>3, <2>2, <2>3, <2>4, <2>5, <2>6, <2>7, <2>8 DEF Lambda
<1>. QED
  BY <1>1, <1>2, <1>3 DEF Bootstrap

\* A stack that says it is complete has the urls of the database's users.
LEMMA BootstrapUrls ==
    ASSUME BootTypeOK, RunsAreSerial, UrlsNameThePasswords, Bootstrap
    PROVE  UrlsNameThePasswords'
<1>0. NoRun \notin LambdaRuns
  BY BootAssumption DEF NoRun
<1>1. CASE CreateStack \/ CreateTimesOut \/ DeleteStack
  BY <1>1 DEF CreateStack, CreateTimesOut, DeleteStack, UrlsNameThePasswords
<1>2. CASE ReplaceDb
  BY <1>2 DEF ReplaceDb, UrlsNameThePasswords
<1>3. ASSUME NEW i \in LambdaRuns, Lambda(i) PROVE UrlsNameThePasswords'
  <2>1. ASSUME NEW pc, Goto(i, pc)
        PROVE  \A k \in LambdaRuns : run'[k].request = run[k].request
    BY <2>1 DEF Goto, BootTypeOK
  <2>2. db.boot \in LambdaRuns \cup {NoRun}
    BY DEF BootTypeOK
  <2>3. CASE Begin(i)
    <3>1. db.boot # i /\ UNCHANGED <<stack, creates, db, ssm>>
      BY <2>3 DEF Begin, RunsAreSerial
    <3>2. \A k \in LambdaRuns : k # i => run'[k] = run[k]
      BY <2>3 DEF Begin, BootTypeOK
    <3>. QED
      BY <2>2, <3>1, <3>2 DEF UrlsNameThePasswords
  <2>4. CASE LaySchema(i)
    BY <2>1, <2>2, <2>4 DEF LaySchema, UrlsNameThePasswords
  <2>5. CASE Commit(i)
    <3>1. stack # "complete"
      BY <2>5 DEF Commit, RunsAreSerial, UrlsNameThePasswords
    <3>. QED
      BY <2>5, <3>1 DEF Commit, UrlsNameThePasswords
  <2>6. CASE PutUrl(i)
    <3>1. db.boot = i
      BY <2>6 DEF PutUrl, RunsAreSerial
    <3>2. stack = "complete" => ssm' = ssm
      BY <2>6, <3>1 DEF PutUrl, UrlsNameThePasswords
    <3>. QED
      BY <2>1, <2>2, <2>6, <3>1, <3>2 DEF PutUrl, UrlsNameThePasswords
  <2>7. CASE PutTestUrl(i)
    <3>1. db.boot = i
      BY <2>7 DEF PutTestUrl, RunsAreSerial
    <3>2. stack = "complete" => ssm' = ssm
      BY <2>7, <3>1 DEF PutTestUrl, UrlsNameThePasswords
    <3>. QED
      BY <2>1, <2>2, <2>7, <3>1, <3>2 DEF PutTestUrl, UrlsNameThePasswords
  <2>8. CASE Succeed(i)
    <3>1. db.boot = i /\ ssm.url = i /\ ssm.test = i
      BY <2>8 DEF Succeed, RunsAreSerial
    <3>2. ssm = [url |-> i, test |-> i]
      BY <3>1 DEF BootTypeOK
    <3>3. run'[i].request = run[i].request /\ UNCHANGED <<creates, db, ssm>>
      BY <2>1, <2>8 DEF Succeed
    <3>4. CASE stack = "creating" /\ run[i].request = Len(creates)
      BY <1>0, <3>1, <3>2, <3>3, <3>4 DEF UrlsNameThePasswords
    <3>5. CASE ~(stack = "creating" /\ run[i].request = Len(creates))
      BY <2>8, <3>1, <3>3, <3>5 DEF Succeed, Answer, UrlsNameThePasswords
    <3>. QED
      BY <3>4, <3>5
  <2>9. CASE FailRun(i)
    <3>1. stack' \in {stack, "failed"}
      BY <2>9 DEF FailRun, Answer
    <3>2. run[i].pc = "schema" => stack # "complete"
      BY DEF RunsAreSerial, UrlsNameThePasswords
    <3>3. stack = "complete" => UNCHANGED <<creates, db, ssm>>
      BY <2>9, <3>2 DEF FailRun
    <3>. QED
      BY <2>1, <2>2, <2>9, <3>1, <3>3 DEF FailRun, UrlsNameThePasswords
  <2>10. CASE CutOff(i)
    BY <2>1, <2>2, <2>10 DEF CutOff, UrlsNameThePasswords
  <2>. QED
    BY <1>3, <2>3, <2>4, <2>5, <2>6, <2>7, <2>8, <2>9, <2>10 DEF Lambda
<1>. QED
  BY <1>1, <1>2, <1>3 DEF Bootstrap

LEMMA BootstrapStep ==
    ASSUME IInv, Bootstrap
    PROVE  IInv'
<1>1. UNCHANGED <<up, head, tested, repo, imageTag, pipe, approved, service>>
  BY DEF Bootstrap, pipeVars
<1>2. BootTypeOK' /\ RunsAreSerial' /\ UrlsNameThePasswords'
  BY BootstrapTypes, BootstrapSerial, BootstrapUrls DEF IInv, TypeOK
<1>3. TypeOK'
  BY <1>1, <1>2 DEF IInv, TypeOK
<1>4. RunsKeepOrder'
  BY <1>1 DEF IInv, RunsKeepOrder, Entered, Started
<1>5. BuildsLeave'
  BY <1>1 DEF IInv, BuildsLeave, Started
<1>6. ReleasesAreBacked' /\ ProductionWasApproved'
  BY <1>1 DEF IInv, ReleasesAreBacked, ProductionWasApproved, Started, Deploying, Working
<1>7. TagsMoveForward'
  BY <1>1 DEF IInv, TagsMoveForward, Entered, Started
<1>. QED
  BY <1>2, <1>3, <1>4, <1>5, <1>6, <1>7 DEF IInv

LEMMA StutterStep ==
    ASSUME IInv, UNCHANGED vars
    PROVE  IInv'
<1>1. UNCHANGED <<stack, creates, db, ssm, run>>
      /\ UNCHANGED <<up, head, tested, repo, imageTag, pipe, approved, service>>
  BY DEF vars, pipeVars
<1>2. TypeOK' /\ RunsAreSerial' /\ UrlsNameThePasswords'
  BY <1>1 DEF IInv, TypeOK, BootTypeOK, RunsAreSerial, UrlsNameThePasswords
<1>3. RunsKeepOrder' /\ BuildsLeave' /\ TagsMoveForward'
  BY <1>1 DEF IInv, RunsKeepOrder, BuildsLeave, TagsMoveForward, Entered, Started
<1>4. ReleasesAreBacked' /\ ProductionWasApproved'
  BY <1>1 DEF IInv, ReleasesAreBacked, ProductionWasApproved, Started, Deploying, Working
<1>. QED
  BY <1>2, <1>3, <1>4 DEF IInv

LEMMA NextIInv == IInv /\ [Next]_vars => IInv'
<1>. SUFFICES ASSUME IInv, [Next]_vars PROVE IInv'
  OBVIOUS
<1>1. ASSUME NEW p \in Pipes, NEW r \in Runs, PipelineRun(p, r) PROVE IInv'
  BY <1>1, StartRunStep, EnterStep, RetryStep, CdkBuildStep, CdkFailStep, UpdateAppStep,
     AppUpdatedStep, AppRolledBackStep, StopsStep DEF PipelineRun
<1>2. ASSUME NEW r \in Runs, DockerBuild(r) PROVE IInv'
  BY <1>2, TestAndBuildStep, DockerPushStep, PutImageTagStep, DockerFailStep DEF DockerBuild
<1>3. ASSUME NEW r \in Runs, Approve(r) PROVE IInv'
  BY <1>3, ApproveStep
<1>4. ASSUME NEW r \in Runs, Reject(r) PROVE IInv'
  <2>1. "prd" \in Pipes
    BY DEF Pipes
  <2>. QED
    BY <1>4, <2>1, StopsStep
<1>5. CASE UNCHANGED vars
  BY <1>5, StutterStep
<1>6. CASE Next
  BY <1>1, <1>2, <1>3, <1>4, <1>6, BootstrapStep, PushStep DEF Next
<1>. QED
  BY <1>5, <1>6

LEMMA Inductive == Spec => []IInv
<1>. QED
  BY InitIInv, NextIInv, PTL DEF Spec

-----------------------------------------------------------------------------
(* The theorems.                                                           *)

\* Every variable keeps its type: in particular the SSM parameter and the
\* services name commits, whatever fails, is retried or is superseded.
THEOREM TypeCorrect == Spec => []TypeOK
<1>1. IInv => TypeOK
  BY DEF IInv
<1>. QED
  BY <1>1, Inductive, PTL

\* A DbBootstrap stack that is complete has both jdbc urls with the passwords
\* the database users have, however often the lambda was run and cut off.
THEOREM UrlsRight == Spec => []UrlsNameThePasswords
<1>1. IInv => UrlsNameThePasswords
  BY DEF IInv
<1>. QED
  BY <1>1, Inductive, PTL

\* An image that the parameter or a service names is in ECR and was tested,
\* for any number of pipeline runs, failures and retries.
THEOREM Backed == Spec => []ReleasesAreBacked
<1>1. IInv => ReleasesAreBacked
  BY DEF IInv
<1>. QED
  BY <1>1, Inductive, PTL

\* The production service runs and is updated to approved images only.
THEOREM Approved == Spec => []ProductionWasApproved
<1>1. IInv => ProductionWasApproved
  BY DEF IInv
<1>. QED
  BY <1>1, Inductive, PTL

\* An update of a service from the image of an earlier commit settles after
\* none of a later one.
LEMMA Settles ==
    ASSUME IInv, NEW p \in Pipes, NEW r \in Runs, AppUpdated(p, r), NEW q \in Pipes
    PROVE  service'[q].now >= service[q].now
<1>1. /\ Working(p, r, "Deploy") /\ pipe[p][r].deploy = "updating"
      /\ service' = [service EXCEPT ![p] = [now |-> service[p].next, next |-> 0]]
  <2>. DEFINE x == [now |-> service[p].next, next |-> 0]
  <2>1. service' = [service EXCEPT ![p] = x]
    BY DEF AppUpdated
  <2>. QED
    BY <2>1 DEF AppUpdated, Deploying
<1>2. TypeOK /\ Started(p, r) /\ pipe[p][r].stage = "Deploy" /\ pipe[p][r].state = "working"
  BY <1>1, StartedIsRun DEF IInv, Working
<1>3. service[p].next = pipe[p][r].tag
  BY <1>1 DEF IInv, ReleasesAreBacked, Deploying
<1>4. \A k \in r + 1 .. MaxRuns : ~Entered(p, k, "Deploy")
  BY <1>1, NotOvertaken DEF IInv, Stages
<1>5. service[p].now <= pipe[p][r].tag
  BY <1>2, <1>4 DEF IInv, TagsMoveForward
<1>6. \A o \in Pipes : service[o].now \in Nat
  BY BoundsAssumption DEF IInv, TypeOK, Tags
<1>7. pipe[p][r].tag \in Nat
  BY <1>2, StartedIsRun, BoundsAssumption DEF Run, Tags
<1>. QED
  BY <1>1, <1>3, <1>5, <1>6, <1>7, <1>2 DEF TypeOK

\* A service that has settled on an image never goes back to an earlier
\* commit's, for any number of runs, retries and superseded runs.
THEOREM Forward == Spec => ReleasesMoveForward
<1>1. ASSUME IInv, [Next]_vars
      PROVE  \A q \in Pipes : service'[q].now >= service[q].now
  <2>1. \A q \in Pipes : service[q].now \in Nat
    BY <1>1, BoundsAssumption DEF IInv, TypeOK, Tags
  <2>2. ASSUME \A q \in Pipes : service'[q].now = service[q].now
        PROVE  \A q \in Pipes : service'[q].now >= service[q].now
    BY <2>1, <2>2
  <2>3. CASE UNCHANGED vars \/ Bootstrap
    BY <2>2, <2>3 DEF vars, Bootstrap, pipeVars
  <2>4. CASE Push \/ DeployPipelines
    BY <2>2, <2>4 DEF Push, DeployPipelines
  <2>5. ASSUME NEW r \in Runs, DockerBuild(r) \/ Approve(r) \/ Reject(r)
        PROVE  service' = service
    BY <2>5 DEF DockerBuild, TestAndBuild, DockerPush, PutImageTag, DockerFail, Approve, Reject
  <2>6. ASSUME NEW p \in Pipes, NEW r \in Runs, PipelineRun(p, r)
        PROVE  \A q \in Pipes : service'[q].now >= service[q].now
    <3>1. CASE UpdateApp(p, r) \/ AppRolledBack(p, r)
      <4>1. PICK x : service' = [service EXCEPT ![p].next = x]
        BY <3>1 DEF UpdateApp, AppRolledBack
      <4>2. TypeOK
        BY <1>1 DEF IInv
      <4>3. service' = [service EXCEPT ![p] = [now |-> service[p].now, next |-> x]]
        BY <4>1, <4>2, NextOfService
      <4>. QED
        BY <2>2, <4>2, <4>3 DEF TypeOK
    <3>2. CASE AppUpdated(p, r)
      BY <1>1, <3>2, Settles
    <3>3. CASE StartRun(p, r) \/ Enter(p, r) \/ Retry(p, r) \/ CdkBuild(p, r) \/ CdkFail(p, r)
                  \/ DeployMetrics(p, r) \/ DeployFail(p, r)
      BY <2>2, <3>3 DEF StartRun, Enter, Retry, CdkBuild, CdkFail, DeployMetrics, DeployFail
    <3>. QED
      BY <2>6, <3>1, <3>2, <3>3 DEF PipelineRun
  <2>. QED
    BY <1>1, <2>2, <2>3, <2>4, <2>5, <2>6 DEF Next
<1>2. IInv /\ [Next]_vars => [\A p \in Pipes : service'[p].now >= service[p].now]_vars
  BY <1>1
<1>. QED
  BY <1>2, InitIInv, NextIInv, PTL DEF Spec, ReleasesMoveForward

\* A run whose bootstrap is committed and not answered for is the last that can
\* do anything for its database: a stack that failed does not become complete
\* by being created again, for any number of requests and runs of the lambda.
THEOREM WedgedForGood == Spec => WedgedUntilReplaced
<1>1. ASSUME IInv, Wedged, Bootstrap, ~ReplaceDb PROVE Wedged'
  <2>1. /\ BootTypeOK /\ RunsAreSerial /\ db.boot \in LambdaRuns /\ db.boot # NoRun
        /\ run[db.boot].pc = "over" /\ stack # "complete"
    BY <1>1 DEF IInv, TypeOK, BootTypeOK, Wedged
  <2>2. CASE CreateStack \/ CreateTimesOut \/ DeleteStack
    BY <2>1, <2>2 DEF CreateStack, CreateTimesOut, DeleteStack, Wedged
  <2>3. ASSUME NEW i \in LambdaRuns, Lambda(i) PROVE Wedged'
    <3>1. run[i].pc \notin {"schema", "committed", "url", "urls"} /\ db.boot # NoRun
      <4>1. NoRun \notin LambdaRuns
        BY BootAssumption DEF NoRun
      <4>. QED
        BY <2>1, <4>1 DEF RunsAreSerial
    <3>2. ASSUME run[i].pc = "begun", NEW pc, Goto(i, pc) PROVE run'[db.boot] = run[db.boot]
      BY <2>1, <3>2 DEF Goto, BootTypeOK
    <3>3. CASE Begin(i)
      <4>1. run'[db.boot] = run[db.boot] /\ UNCHANGED <<stack, db>>
        BY <2>1, <3>3 DEF Begin, BootTypeOK
      <4>. QED
        BY <2>1, <4>1 DEF Wedged
    <3>4. CASE FailRun(i)
      <4>1. run[i].pc = "begun" /\ db' = db /\ Answer(i, "failed") /\ Goto(i, "over")
        BY <2>1, <3>1, <3>4 DEF FailRun, BootTypeOK
      <4>. QED
        BY <2>1, <3>2, <4>1, <3>1 DEF Answer, Wedged
    <3>5. CASE CutOff(i)
      <4>1. run[i].pc = "begun"
        BY <2>1, <3>1, <3>5 DEF CutOff, BootTypeOK
      <4>. QED
        BY <2>1, <3>1, <3>2, <3>5, <4>1 DEF CutOff, Wedged
    <3>. QED
      BY <2>3, <3>1, <3>3, <3>4, <3>5
         DEF Lambda, LaySchema, Commit, PutUrl, PutTestUrl, Succeed
  <2>. QED
    BY <1>1, <2>2, <2>3 DEF Bootstrap
<1>2. ASSUME Next, ~Bootstrap PROVE UNCHANGED bootVars
  <2>1. CASE Push \/ DeployPipelines
    BY <2>1 DEF Push, DeployPipelines, bootVars
  <2>2. ASSUME NEW r \in Runs, DockerBuild(r) \/ Approve(r) \/ Reject(r)
        PROVE  UNCHANGED bootVars
    BY <2>2 DEF DockerBuild, TestAndBuild, DockerPush, PutImageTag, DockerFail,
                Approve, Reject, bootVars
  <2>3. ASSUME NEW p \in Pipes, NEW r \in Runs, PipelineRun(p, r)
        PROVE  UNCHANGED bootVars
    BY <2>3 DEF PipelineRun, StartRun, Enter, Retry, CdkBuild, CdkFail, UpdateApp, AppUpdated,
                AppRolledBack, DeployMetrics, DeployFail, bootVars
  <2>. QED
    BY <1>2, <2>1, <2>2, <2>3 DEF Next
<1>3. IInv /\ [Next]_vars => [Wedged => Wedged' \/ ReplaceDb]_bootVars
  BY <1>1, <1>2 DEF vars, bootVars
<1>. QED
  BY <1>3, InitIInv, NextIInv, PTL DEF Spec, WedgedUntilReplaced
=============================================================================
