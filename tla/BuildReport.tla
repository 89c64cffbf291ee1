----------------------------- MODULE BuildReport -----------------------------
(***************************************************************************)
(* A run reported as a build on embeddedci.com: the BuildReporter of ci.py *)
(* as the pytest fixture build_report (pytest_plugin.py) and the command   *)
(* embeddedci-upload-build (upload_build.py) use it.  The build is created *)
(* by the first call that needs it; every request may fail, or be served   *)
(* and its answer lost.                                                    *)
(***************************************************************************)
EXTENDS Integers, Sequences

CONSTANT MaxArtifacts \* bound: artifacts of a run

ASSUME BuildAssumption == MaxArtifacts \in Nat \ {0}

VARIABLES
    program,   \* who reports: "pytest" or "upload"
    reporting, \* a BuildReporter, not the NoopBuildReporter
    builds,    \* the server's builds of this run
    buildId,   \* _build_id, 0 for None
    result,    \* set_result: "none", "passed" or "failed"
    verdict,   \* what the test did
    uploads,   \* artifacts upload_artifact was called for
    skipped,   \* history: those dropped without a word, for want of a build
    uncreated, \* history: a creation that failed or whose answer was lost
    statusPosts, \* requests that post a status
    repPc

buildVars == <<program, reporting, builds, buildId, result, verdict, uploads, skipped,
               uncreated, statusPosts, repPc>>

NewBuild == [artifacts |-> {}, status |-> "none"]

BuildInit ==
    /\ program = "none" /\ reporting = FALSE
    /\ builds = <<>> /\ buildId = 0
    /\ result = "none" /\ verdict = "none"
    /\ uploads = 0 /\ skipped = {} /\ uncreated = FALSE /\ statusPosts = 0
    /\ repPc = "start"

(* make_build_reporter: a live one in GitHub Actions with a token. *)
MakeReporter(by, live) ==
    /\ repPc = "start"
    /\ program' = by /\ reporting' = live
    /\ repPc' = IF by = "upload" /\ ~live THEN "end" ELSE "running"
    /\ UNCHANGED <<builds, buildId, result, verdict, uploads, skipped, uncreated, statusPosts>>

(* A request is answered, served without its answer getting back, or fails. *)
Requests == {"ok", "lost", "failed"}

(* _ensure_build creates the build once; a creation that fails is a warning, and *)
(* the next call tries again.                                                  *)
EnsureBuild(outcome) ==
    IF buildId # 0
    THEN UNCHANGED <<builds, buildId, uncreated>>
    ELSE /\ builds' = IF outcome = "failed" THEN builds ELSE Append(builds, NewBuild)
         /\ buildId' = IF outcome = "ok" THEN Len(builds) + 1 ELSE 0
         /\ uncreated' = (uncreated \/ outcome # "ok")

Ensures(pc, outcome) ==
    /\ buildId # 0 => outcome = "ok"
    /\ EnsureBuild(outcome)
    /\ repPc' = pc

(* A call of a reporter needs the build first; a NoopBuildReporter does nothing. *)
Upload(outcome) ==
    /\ repPc = "running" /\ uploads < MaxArtifacts
    /\ uploads' = uploads + 1
    /\ IF reporting THEN Ensures("artifact", outcome)
       ELSE UNCHANGED <<builds, buildId, uncreated, repPc>>
    /\ UNCHANGED <<program, reporting, result, verdict, skipped, statusPosts>>

(* upload_artifact without a build returns; a request that fails raises, which *)
(* fails the test, or ends the command.                                        *)
SendArtifact(outcome) ==
    /\ repPc = "artifact"
    /\ IF buildId = 0
       THEN skipped' = skipped \cup {uploads} /\ repPc' = "running" /\ UNCHANGED <<builds, verdict>>
       ELSE /\ builds' = IF outcome = "failed" THEN builds
                         ELSE [builds EXCEPT ![buildId].artifacts = @ \cup {uploads}]
            /\ IF outcome = "ok" THEN repPc' = "running" /\ UNCHANGED verdict
               ELSE /\ verdict' = "failed"
                    /\ repPc' = IF program = "pytest" THEN "teardown" ELSE "end"
            /\ UNCHANGED skipped
    /\ UNCHANGED <<program, reporting, buildId, result, uploads, uncreated, statusPosts>>

(* The test ends; or its setup fails, or it never runs.                        *)
TestEnds(how) ==
    /\ repPc = "running" /\ program = "pytest"
    /\ how \in {"passed", "failed"} \/ uploads = 0
    /\ verdict' = how
    /\ repPc' = "teardown"
    /\ UNCHANGED <<program, reporting, builds, buildId, result, uploads, skipped, uncreated,
                   statusPosts>>

(* The fixture's teardown: the result of the setup goes first, then the call's. *)
SetResult ==
    /\ repPc = "teardown"
    /\ result' = IF verdict = "passed" THEN "passed" ELSE "failed"
    /\ repPc' = IF reporting THEN "log" ELSE "end"
    /\ UNCHANGED <<program, reporting, builds, buildId, verdict, uploads, skipped, uncreated,
                   statusPosts>>

(* The command has uploaded at least the firmware, and calls that a success.   *)
UploadsDone ==
    /\ repPc = "running" /\ program = "upload" /\ uploads > 0
    /\ result' = "passed" /\ verdict' = "passed"
    /\ repPc' = "finalize"
    /\ UNCHANGED <<program, reporting, builds, buildId, uploads, skipped, uncreated, statusPosts>>

(* upload_logs, if there is any output; a failure is a warning.                *)
UploadLogs(outcome) ==
    /\ repPc = "log"
    /\ Ensures("finalize", outcome)
    /\ UNCHANGED <<program, reporting, result, verdict, uploads, skipped, statusPosts>>

NoLogs ==
    /\ repPc = "log"
    /\ repPc' = "finalize"
    /\ UNCHANGED <<program, reporting, builds, buildId, result, verdict, uploads, skipped,
                   uncreated, statusPosts>>

(* finalize creates the build at the latest, and posts the status.             *)
Finalize(outcome) ==
    /\ repPc = "finalize"
    /\ Ensures("status", outcome)
    /\ UNCHANGED <<program, reporting, result, verdict, uploads, skipped, statusPosts>>

PostStatus(outcome) ==
    /\ repPc = "status"
    /\ IF buildId = 0 THEN UNCHANGED <<builds, statusPosts>>
       ELSE /\ statusPosts' = statusPosts + 1
            /\ builds' = IF outcome = "failed" THEN builds
                         ELSE [builds EXCEPT ![buildId].status = result]
    /\ repPc' = "end"
    /\ UNCHANGED <<program, reporting, buildId, result, verdict, uploads, skipped, uncreated>>

(* The runner is killed. *)
RunKilled ==
    /\ repPc \notin {"start", "end"}
    /\ repPc' = "killed"
    /\ UNCHANGED <<program, reporting, builds, buildId, result, verdict, uploads, skipped,
                   uncreated, statusPosts>>

BuildNext ==
    \/ \E live \in BOOLEAN : MakeReporter("pytest", live) \/ MakeReporter("upload", live)
    \/ \E how \in {"passed", "failed", "setup failed", "not run"} : TestEnds(how)
    \/ \E o \in Requests :
          \/ Upload(o) \/ SendArtifact(o) \/ Finalize(o) \/ PostStatus(o)
          \/ UploadLogs(o)
    \/ SetResult \/ UploadsDone \/ NoLogs \/ RunKilled

BuildSpec == BuildInit /\ [][BuildNext]_buildVars

-----------------------------------------------------------------------------
BuildTypeOK ==
    /\ program \in {"none", "pytest", "upload"} /\ reporting \in BOOLEAN
    /\ builds \in Seq([artifacts : SUBSET (1 .. MaxArtifacts),
                       status : {"none", "passed", "failed"}])
    /\ buildId \in 0 .. Len(builds)
    /\ result \in {"none", "passed", "failed"}
    /\ verdict \in {"none", "passed", "failed", "setup failed", "not run"}
    /\ uploads \in 0 .. MaxArtifacts /\ skipped \in SUBSET (1 .. MaxArtifacts)
    /\ uncreated \in BOOLEAN /\ statusPosts \in 0 .. 1
    /\ repPc \in {"start", "running", "artifact", "teardown", "log", "finalize", "status",
                  "end", "killed"}

(* A build that says the run passed is about a run that passed, and carries    *)
(* every artifact that was uploaded; what is missing was asked for when no     *)
(* build could be created, which upload_artifact does not say.                 *)
PassedBuildIsWhole ==
    \A b \in DOMAIN builds : builds[b].status = "passed" =>
        /\ verdict = "passed"
        /\ (1 .. uploads) \ skipped = builds[b].artifacts

(* A run shows as one build with a status; one without was left by an answer   *)
(* that was lost, or by a run that was cut short.                              *)
OneBuildOfRun ==
    /\ \A b, c \in DOMAIN builds :
          builds[b].status # "none" /\ builds[c].status # "none" => b = c
    /\ skipped # {} \/ Len(builds) > 1 => uncreated
    /\ \A b \in DOMAIN builds : b # buildId => builds[b] = NewBuild

BuildInv == BuildTypeOK /\ PassedBuildIsWhole /\ OneBuildOfRun
=============================================================================
