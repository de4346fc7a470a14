----------------------------- MODULE Deployment -----------------------------
(***************************************************************************)
(* The two deployment pipelines over the bootstrapped database.  The dev   *)
(* pipeline tests and builds a commit into an image, pushes it to ECR,     *)
(* leaves its tag in an SSM parameter and deploys it.  The prd pipeline    *)
(* takes whatever tag it finds there and deploys it once someone approves. *)
(*                                                                         *)
(* An image is its commit's number; 0 is no image.  A pipeline's runs are  *)
(* numbered in the order they start.  What CodePipeline does with stages   *)
(* is external: one run in a stage at a time, the newest waiting one next, *)
(* a stage that failed retried while no newer run has entered it.          *)
(***************************************************************************)
EXTENDS DbBootstrap

CONSTANTS
    MaxCommits,     \* bound: commits of the dev branch
    MaxRuns         \* bound: runs of each pipeline

ASSUME BoundsAssumption == MaxCommits \in Nat \ {0} /\ MaxRuns \in Nat \ {0}

VARIABLES
    up,             \* whether the pipeline stacks are deployed
    head,           \* commits on the dev branch
    tested,         \* history: commits that passed mvn clean test
    repo,           \* the images in ECR
    imageTag,       \* the SSM parameter ssmImageTagParamName
    pipe,           \* pipe[p][r]: the r-th run of pipeline p
    approved,       \* history: images someone let go to production
    service         \* service[p]: the image of the App stack, and of its update

pipeVars == <<up, head, tested, repo, imageTag, pipe, approved, service>>
vars == <<stack, creates, db, ssm, run, pipeVars>>

-----------------------------------------------------------------------------
Pipes == {"dev", "prd"}
Images == 1 .. MaxCommits
Tags == 0 .. MaxCommits
Runs == 1 .. MaxRuns

\* The stages after Source; only the prd pipeline has a Validation.
Stages == {"Build", "Validation", "Deploy"}

NextStage(p) == IF p = "prd" THEN "Validation" ELSE "Deploy"    \* after Build

Results == {"todo", "ok", "failed"}

\* A run in or before a stage; tag is the imageTag artifact of its Build.
Run ==
    [stage : Stages,
     state : {"waiting", "working", "failed", "superseded", "done"},
     commit : Tags,
     docker : Results \cup {"built", "pushed"},
     cdk : Results,
     tag : Tags,
     deploy : {"before", "updating", "after"}]

Unstarted == [state |-> "unstarted"]

Start0 == [stage |-> "Build", state |-> "waiting", commit |-> 0, docker |-> "todo",
           cdk |-> "todo", tag |-> 0, deploy |-> "before"]

TypeOK ==
    /\ BootTypeOK
    /\ up \in BOOLEAN
    /\ head \in Images
    /\ tested \subseteq Images /\ repo \subseteq Images /\ approved \subseteq Images
    /\ imageTag \in Tags
    /\ pipe \in [Pipes -> [Runs -> Run \cup {Unstarted}]]
    /\ service \in [Pipes -> [now : Tags, next : Tags]]

Init ==
    /\ BootInit
    /\ up = FALSE
    /\ head = 1
    /\ tested = {} /\ repo = {} /\ approved = {}
    /\ imageTag = 0
    /\ pipe = [p \in Pipes |-> [r \in Runs |-> Unstarted]]
    /\ service = [p \in Pipes |-> [now |-> 0, next |-> 0]]

Set(p, r, changed) == pipe' = [pipe EXCEPT ![p][r] = changed]

Working(p, r, stage) == pipe[p][r].state = "working" /\ pipe[p][r].stage = stage

Rank(stage) == IF stage = "Build" THEN 1 ELSE IF stage = "Validation" THEN 2 ELSE 3

Started(p, r) == pipe[p][r] # Unstarted

\* The run is in the stage or has been there.
Entered(p, r, stage) ==
    /\ Started(p, r)
    /\ \/ Rank(pipe[p][r].stage) > Rank(stage)
       \/ pipe[p][r].stage = stage /\ pipe[p][r].state \notin {"waiting", "superseded"}

\* Run r gets to wait for a stage; a run that waits there gives way.
Arrive(p, r, arrived) ==
    pipe' = [pipe EXCEPT ![p] = [k \in Runs |->
                IF k = r THEN arrived
                ELSE IF @[k].state = "waiting" /\ @[k].stage = arrived.stage
                     THEN [@[k] EXCEPT !.state = "superseded"]
                     ELSE @[k]]]

-----------------------------------------------------------------------------
(* CodePipeline and the people at it.                                      *)

Push == /\ head < MaxCommits
        /\ head' = head + 1
        /\ UNCHANGED <<bootVars, up, tested, repo, imageTag, pipe, approved, service>>

\* The pipeline stacks take the jdbc urls from the DbBootstrap stack.
DeployPipelines ==
    /\ stack = "complete"
    /\ ~up
    /\ up' = TRUE
    /\ UNCHANGED <<bootVars, head, tested, repo, imageTag, pipe, approved, service>>

\* The Source stage, on a commit or by hand.  The prd branch holds no images.
StartRun(p, r) ==
    /\ up
    /\ ~Started(p, r)
    /\ \A k \in 1 .. r - 1 : Started(p, k)
    /\ Arrive(p, r, IF p = "dev" THEN [Start0 EXCEPT !.commit = head]
                                 ELSE [Start0 EXCEPT !.docker = "ok"])
    /\ UNCHANGED <<bootVars, up, head, tested, repo, imageTag, approved, service>>

\* Mutant: runs share a stage, as the PARALLEL execution mode lets them.
Enter_Parallel(p, r) ==
    /\ pipe[p][r].state = "waiting"
    /\ Set(p, r, [pipe[p][r] EXCEPT !.state = "working"])
    /\ UNCHANGED <<bootVars, up, head, tested, repo, imageTag, approved, service>>

Enter(p, r) ==
    /\ pipe[p][r].state = "waiting"
    /\ \A k \in Runs : ~Working(p, k, pipe[p][r].stage)
    /\ Set(p, r, [pipe[p][r] EXCEPT !.state = "working"])
    /\ UNCHANGED <<bootVars, up, head, tested, repo, imageTag, approved, service>>

\* The actions of the stage that failed are started anew.
Retry(p, r) ==
    /\ pipe[p][r].state = "failed"
    /\ \A k \in r + 1 .. MaxRuns : ~Entered(p, k, pipe[p][r].stage)
    /\ LET anew(result) == IF result = "failed" THEN "todo" ELSE result
       IN  Set(p, r, [pipe[p][r] EXCEPT !.state = "working", !.docker = anew(@), !.cdk = anew(@)])
    /\ UNCHANGED <<bootVars, up, head, tested, repo, imageTag, approved, service>>

Approve(r) ==
    /\ Working("prd", r, "Validation")
    /\ approved' = approved \cup {pipe["prd"][r].tag}
    /\ Arrive("prd", r, [pipe["prd"][r] EXCEPT !.stage = "Deploy", !.state = "waiting"])
    /\ UNCHANGED <<bootVars, up, head, tested, repo, imageTag, service>>

\* By a person, or because nobody answered for seven days.
Reject(r) ==
    /\ Working("prd", r, "Validation")
    /\ Set("prd", r, [pipe["prd"][r] EXCEPT !.state = "failed"])
    /\ UNCHANGED <<bootVars, up, head, tested, repo, imageTag, approved, service>>

-----------------------------------------------------------------------------
(* The Build stages.                                                       *)

DockerAt(r, at) == Working("dev", r, "Build") /\ pipe["dev"][r].docker = at

\* An action of a Build stage ends.  The actions side by side all come to an
\* end; then the run goes on to the next stage, or the stage has failed.
EndOfAction(p, r, ended) ==
    LET results == {ended.docker, ended.cdk}
    IN  IF results = {"ok"} THEN
            Arrive(p, r, [ended EXCEPT !.stage = NextStage(p), !.state = "waiting"])
        ELSE IF results \subseteq {"ok", "failed"} THEN
            Set(p, r, [ended EXCEPT !.state = "failed"])
        ELSE Set(p, r, ended)

\* install, pre_build and build: mvn clean test against the database of the
\* test url, then the image.  CodeBuild goes on to post_build after a build that
\* failed, but docker push finds no image and ends that, before put-parameter.
TestAndBuild(r) ==
    /\ DockerAt(r, "todo")
    /\ ssm.test = db.boot
    /\ \/ Set("dev", r, [pipe["dev"][r] EXCEPT !.docker = "built"])
       \/ EndOfAction("dev", r, [pipe["dev"][r] EXCEPT !.docker = "failed"])
    /\ tested' = tested \cup {pipe["dev"][r].commit}
    /\ UNCHANGED <<bootVars, up, head, repo, imageTag, approved, service>>

DockerPush(r) ==
    /\ DockerAt(r, "built")
    /\ Set("dev", r, [pipe["dev"][r] EXCEPT !.docker = "pushed"])
    /\ repo' = repo \cup {pipe["dev"][r].commit}
    /\ UNCHANGED <<bootVars, up, head, tested, imageTag, approved, service>>

\* Mutant: put-parameter comes before docker push.
PutImageTag_BeforePush(r) ==
    /\ DockerAt(r, "built")
    /\ imageTag' = pipe["dev"][r].commit
    /\ Set("dev", r, [pipe["dev"][r] EXCEPT !.docker = "pushed"])
    /\ UNCHANGED <<bootVars, up, head, tested, repo, approved, service>>

\* Mutant: the parameter gets the build version tag, which is no commit.
PutImageTag_BuildVersion(r) ==
    /\ DockerAt(r, "pushed")
    /\ imageTag' = MaxCommits + pipe["dev"][r].commit
    /\ EndOfAction("dev", r, [pipe["dev"][r] EXCEPT !.docker = "ok",
                                                   !.tag = pipe["dev"][r].commit])
    /\ UNCHANGED <<bootVars, up, head, tested, repo, approved, service>>

\* put-parameter, and the artifact that names the tag, which may still fail.
PutImageTag(r) ==
    /\ DockerAt(r, "pushed")
    /\ imageTag' = pipe["dev"][r].commit
    /\ \/ EndOfAction("dev", r, [pipe["dev"][r] EXCEPT !.docker = "ok", !.tag = imageTag'])
       \/ EndOfAction("dev", r, [pipe["dev"][r] EXCEPT !.docker = "failed"])
    /\ UNCHANGED <<bootVars, up, head, tested, repo, approved, service>>

\* The tests, a push or put-parameter fails, which ends the phase.
DockerFail(r) ==
    /\ \E at \in {"todo", "built", "pushed"} : DockerAt(r, at)
    /\ EndOfAction("dev", r, [pipe["dev"][r] EXCEPT !.docker = "failed"])
    /\ UNCHANGED <<bootVars, up, head, tested, repo, imageTag, approved, service>>

\* The templates; the prd pipeline reads the image tag here, if there is one.
CdkBuild(p, r) ==
    /\ Working(p, r, "Build")
    /\ pipe[p][r].cdk = "todo"
    /\ p = "prd" => imageTag # 0
    /\ EndOfAction(p, r, [pipe[p][r] EXCEPT !.cdk = "ok",
                                            !.tag = IF p = "prd" THEN imageTag ELSE @])
    /\ UNCHANGED <<bootVars, up, head, tested, repo, imageTag, approved, service>>

CdkFail(p, r) ==
    /\ Working(p, r, "Build")
    /\ pipe[p][r].cdk = "todo"
    /\ EndOfAction(p, r, [pipe[p][r] EXCEPT !.cdk = "failed"])
    /\ UNCHANGED <<bootVars, up, head, tested, repo, imageTag, approved, service>>

-----------------------------------------------------------------------------
(* The Deploy stages: the Lb, App and Metrics stacks, one after the other. *)
(* Lb and Metrics keep nothing that matters here, except that they fail.   *)

Deploying(p, r, step) == Working(p, r, "Deploy") /\ pipe[p][r].deploy = step

\* Mutant: the image tag is read from the parameter when the stack is updated.
UpdateApp_Parameter(p, r) ==
    /\ Deploying(p, r, "before")
    /\ service' = [service EXCEPT ![p].next = imageTag]
    /\ Set(p, r, [pipe[p][r] EXCEPT !.deploy = "updating", !.tag = imageTag])
    /\ UNCHANGED <<bootVars, up, head, tested, repo, imageTag, approved>>

\* After the Lb stack, the App stack is updated with the image tag of the
\* run's artifact: its tasks start beside those of the image before.
UpdateApp(p, r) ==
    /\ Deploying(p, r, "before")
    /\ service' = [service EXCEPT ![p].next = pipe[p][r].tag]
    /\ Set(p, r, [pipe[p][r] EXCEPT !.deploy = "updating"])
    /\ UNCHANGED <<bootVars, up, head, tested, repo, imageTag, approved>>

\* The new tasks reach the database and replace the others.
AppUpdated(p, r) ==
    /\ Deploying(p, r, "updating")
    /\ ssm.url = db.boot
    /\ service' = [service EXCEPT ![p] = [now |-> @.next, next |-> 0]]
    /\ Set(p, r, [pipe[p][r] EXCEPT !.deploy = "after"])
    /\ UNCHANGED <<bootVars, up, head, tested, repo, imageTag, approved>>

\* CloudFormation goes back to the tasks of the image before.
AppRolledBack(p, r) ==
    /\ Deploying(p, r, "updating")
    /\ service' = [service EXCEPT ![p].next = 0]
    /\ Set(p, r, [pipe[p][r] EXCEPT !.deploy = "before", !.state = "failed"])
    /\ UNCHANGED <<bootVars, up, head, tested, repo, imageTag, approved>>

DeployMetrics(p, r) ==
    /\ Deploying(p, r, "after")
    /\ Set(p, r, [pipe[p][r] EXCEPT !.state = "done"])
    /\ UNCHANGED <<bootVars, up, head, tested, repo, imageTag, approved, service>>

\* The Lb or the Metrics stack fails.
DeployFail(p, r) ==
    /\ Deploying(p, r, "before") \/ Deploying(p, r, "after")
    /\ Set(p, r, [pipe[p][r] EXCEPT !.state = "failed"])
    /\ UNCHANGED <<bootVars, up, head, tested, repo, imageTag, approved, service>>

-----------------------------------------------------------------------------
\* The pipeline and App stacks import the DbBootstrap stack's outputs, which
\* keeps it from being removed.
Bootstrap ==
    /\ \/ CreateStack \/ CreateTimesOut
       \/ DeleteStack /\ ~up
       \/ ReplaceDb
       \/ \E i \in LambdaRuns : Lambda(i)
    /\ UNCHANGED pipeVars

PipelineRun(p, r) ==
    \/ StartRun(p, r) \/ Enter(p, r) \/ Retry(p, r)
    \/ CdkBuild(p, r) \/ CdkFail(p, r)
    \/ UpdateApp(p, r) \/ AppUpdated(p, r) \/ AppRolledBack(p, r)
    \/ DeployMetrics(p, r) \/ DeployFail(p, r)

DockerBuild(r) == TestAndBuild(r) \/ DockerPush(r) \/ PutImageTag(r) \/ DockerFail(r)

Next ==
    \/ Bootstrap
    \/ Push
    \/ DeployPipelines
    \/ \E p \in Pipes, r \in Runs : PipelineRun(p, r)
    \/ \E r \in Runs : DockerBuild(r) \/ Approve(r) \/ Reject(r)

Spec == Init /\ [][Next]_vars

-----------------------------------------------------------------------------
(* What makes the properties inductive, beside the types.                  *)

\* A run of the lambda past its commit is the one whose bootstrap the database
\* holds, and only one is in the transaction before.
RunsAreSerial ==
    \A i \in LambdaRuns :
        /\ run[i].pc = "unused" => db.boot # i
        /\ run[i].pc = "schema" =>
              db.boot = NoRun /\ \A k \in LambdaRuns : run[k].pc = "schema" => k = i
        /\ run[i].pc \in {"committed", "url", "urls"} => db.boot = i
        /\ run[i].pc \in {"url", "urls"} => ssm.url = i
        /\ run[i].pc = "urls" => ssm.test = i

\* Runs of a pipeline keep their order: one that is under way has not been
\* overtaken.
RunsKeepOrder ==
    \A p \in Pipes, r, k \in Runs : r < k =>
        /\ Started(p, k) => Started(p, r)
        /\ pipe[p][r].state = "working" => ~Entered(p, k, pipe[p][r].stage)
        /\ pipe[p][r].state = "waiting" /\ Started(p, k) =>
              Rank(pipe[p][k].stage) < Rank(pipe[p][r].stage)

\* Where a run has got to says what its Build has left.
BuildsLeave ==
    \A p \in Pipes, r \in Runs : Started(p, r) =>
        /\ pipe[p][r].state = "working" \/ pipe[p][r].deploy # "updating"
        /\ pipe[p][r].stage # "Deploy" => pipe[p][r].deploy = "before"
        /\ pipe[p][r].stage # "Build" => pipe[p][r].docker = "ok" /\ pipe[p][r].cdk = "ok"
        /\ p = "dev" =>
              /\ pipe[p][r].stage # "Validation"
              /\ pipe[p][r].commit \in 1 .. head
              /\ pipe[p][r].docker = "built" => pipe[p][r].commit \in tested
              /\ pipe[p][r].docker = "pushed" => pipe[p][r].commit \in repo
              /\ pipe[p][r].docker = "ok" => pipe[p][r].tag = pipe[p][r].commit /\ pipe[p][r].tag \in repo
        /\ p = "prd" =>
              /\ pipe[p][r].docker = "ok"
              /\ pipe[p][r].cdk = "ok" => pipe[p][r].tag \in repo
              /\ pipe[p][r].stage = "Deploy" => pipe[p][r].tag \in approved

\* The parameter has the newest image there is, and no newer one than a run
\* that no other has followed into its Build; the same of services and Deploy.
TagsMoveForward ==
    /\ imageTag <= head
    /\ \A r, k \in Runs : r < k /\ Started("dev", k) => pipe["dev"][r].commit <= pipe["dev"][k].commit
    /\ \A r \in Runs : Started("dev", r) /\ (\A k \in r + 1 .. MaxRuns : ~Entered("dev", k, "Build")) =>
          imageTag <= pipe["dev"][r].commit
    /\ \A p \in Pipes :
          /\ service[p].now <= imageTag
          /\ \A r \in Runs : Started(p, r) =>
                /\ pipe[p][r].tag <= imageTag
                /\ pipe[p][r].stage # "Build" /\ (\A k \in r + 1 .. MaxRuns : ~Entered(p, k, "Deploy")) =>
                      service[p].now <= pipe[p][r].tag
                /\ \A k \in r + 1 .. MaxRuns :
                      Started(p, k) /\ pipe[p][r].stage # "Build" /\ pipe[p][k].stage # "Build" =>
                          pipe[p][r].tag <= pipe[p][k].tag

\* Every image that the SSM parameter or a service names, or a run takes past
\* its Build, is in ECR and its commit passed its tests: put-parameter and the
\* artifacts come after what they name, also when a step of the build fails.
ReleasesAreBacked ==
    /\ repo \subseteq tested
    /\ imageTag \in repo \cup {0}
    /\ \A p \in Pipes :
          /\ {service[p].now, service[p].next} \subseteq repo \cup {0}
          /\ \A r \in Runs :
                /\ Started(p, r) /\ pipe[p][r].stage # "Build" => pipe[p][r].tag \in repo
                /\ Deploying(p, r, "updating") => service[p].next = pipe[p][r].tag

\* Production runs no image but those someone approved: what the dev pipeline
\* puts in the parameter while an approval is pending or after it does not get
\* there, nor by a retry.
ProductionWasApproved ==
    {service["prd"].now, service["prd"].next} \subseteq approved \cup {0}

\* A service that an update has settled on an image never goes back to that of
\* an earlier commit, whatever was retried or superseded meanwhile.
ReleasesMoveForward == [][\A p \in Pipes : service'[p].now >= service[p].now]_vars
=============================================================================
