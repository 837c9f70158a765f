------------------------------- MODULE Publish -------------------------------
(***************************************************************************)
(* cloudquery plugin publish and addon publish: a version is made of many  *)
(* calls to the hub, to the bucket of its images, to the local Docker      *)
(* daemon and to the registry, one after the other, any of which may fail  *)
(* or be carried out without an answer. There is no undo: the version is a *)
(* draft until the last call, and the command may be run again, with the   *)
(* same build or a new one.                                                *)
(*                                                                         *)
(* What the hub, the bucket, Docker and the registry do is external. A     *)
(* build is a number, and 0 stands for nothing.                            *)
(***************************************************************************)
EXTENDS Integers, Sequences, FiniteSets

CONSTANTS
  Targets,    \* the supported targets, a sequence
  MaxBuilds,  \* builds of the version
  MaxRuns,    \* runs of the command
  Pictures    \* the images that the docs of each build show

ASSUME PublishAssumption ==
  Targets \in Seq(STRING) /\ MaxBuilds \in Nat /\ MaxRuns \in Nat /\ DOMAIN Pictures = 1..MaxBuilds

VARIABLES
  package,    \* kind: "native", "docker" or "addon", tables: it is a source, and has a UI
  flags,      \* console: --log-console, which means NoProgress, and finalize
  build,      \* the build that is published
  pubStep,    \* the next call, "idle" between runs
  todoTargets,\* targets of that call
  uploads,    \* images or UI assets that are being uploaded
  hub,        \* the version in the hub
  bucket,     \* images in the bucket
  local, registry, \* images of the targets in the Docker daemon and the registry
  unseen,     \* an error in a stream of Docker was passed over
  runs

publishVars == <<package, flags, build, pubStep, todoTargets, uploads, hub, bucket, local, registry, unseen, runs>>

NoTargets == [i \in DOMAIN Targets |-> 0]
\* What UploadPluginUIAssets uploads, the bundle among it.
UIAssets == {"asset", "bundle.tar.gz"}

PublishInit ==
  /\ package \in [kind : {"native", "docker"}, tables : BOOLEAN, ui : BOOLEAN]
       \cup [kind : {"addon"}, tables : {FALSE}, ui : {FALSE}]
  /\ flags = [console |-> FALSE, finalize |-> FALSE]
  /\ build = 0 /\ pubStep = "idle" /\ todoTargets = 0 /\ uploads = {}
  /\ hub = [is |-> "none", draft |-> 0, tables |-> 0, docs |-> 0, assets |-> NoTargets, ui |-> 0, by |-> 0]
  /\ bucket = {} /\ local = NoTargets /\ registry = NoTargets
  /\ unseen = FALSE /\ runs = 0

-----------------------------------------------------------------------------
(* The order of the calls. *)

\* runPluginPublish and runAddonPublish. The docs of an addon are part of its
\* draft, and their images go before it.
Steps ==
  CASE package.kind = "addon" -> <<"images", "draft", "upload">>
    [] OTHER -> <<"draft">> \o (IF package.tables THEN <<"tables">> ELSE << >>) \o <<"images", "docs">>
                  \o (IF package.kind = "native" THEN <<"upload">> ELSE <<"load", "push", "manifest">>)
                  \o (IF package.ui THEN <<"ui", "uploadUI", "finalizeUI">> ELSE << >>)

After(step) ==
  LET i == CHOOSE k \in DOMAIN Steps : Steps[k] = step
  IN  IF i < Len(Steps) THEN Steps[i + 1] ELSE "finalize"

Here(step) == pubStep = step

\* A step and its targets begin, or the run ends.
Begin(step) == pubStep' = step /\ todoTargets' = Len(Targets) /\ uploads' = {}
EndPublish == pubStep' = "idle" /\ todoTargets' = 0 /\ uploads' = {}

RunPublish ==
  /\ Here("idle") /\ runs < MaxRuns /\ runs' = runs + 1
  /\ build' \in {b \in {build, build + 1} : b \in 1..MaxBuilds}
  /\ flags' \in [console : BOOLEAN, finalize : BOOLEAN]
  /\ Begin(Steps[1]) /\ unseen' = (unseen /\ hub.is = "final")
  /\ UNCHANGED <<package, hub, bucket, local, registry>>

\* A call to the hub: it is carried out or not, and its answer may be lost.
Call(carriedOut, goOn) ==
  /\ hub' \in {hub, carriedOut}
  /\ EndPublish \/ (hub' = carriedOut /\ goOn)
  /\ UNCHANGED <<package, flags, build, bucket, local, registry, unseen, runs>>

\* A version that is not a draft any more cannot be created again.
CreateDraft ==
  /\ Here("draft")
  /\ IF hub.is = "final"
     THEN EndPublish /\ UNCHANGED <<package, flags, build, hub, bucket, local, registry, unseen, runs>>
     ELSE Call([hub EXCEPT !.is = "draft", !.draft = build,
                           !.docs = IF package.kind = "addon" THEN build ELSE @], Begin(After("draft")))

UploadTables == Here("tables") /\ Call([hub EXCEPT !.tables = build], Begin(After("tables")))
UploadDocs   == Here("docs")   /\ Call([hub EXCEPT !.docs = build], Begin(After("docs")))

\* ProcessDocument: CreateTeamImages says which are not in the bucket, and the
\* goroutines upload them.
PrepareImages ==
  /\ Here("images")
  /\ \/ EndPublish
     \/ pubStep' = "uploadImages" /\ uploads' = Pictures[build] \ bucket /\ UNCHANGED todoTargets
  /\ UNCHANGED <<package, flags, build, hub, bucket, local, registry, unseen, runs>>

\* Mutant: the upload is not waited for.
UploadImagesNoWait ==
  /\ Here("uploadImages")
  /\ \/ uploads # {} /\ \E p \in uploads : bucket' = bucket \cup {p} /\ uploads' = uploads \ {p} /\ UNCHANGED <<pubStep, todoTargets>>
     \/ Begin(After("images")) /\ UNCHANGED bucket
  /\ UNCHANGED <<package, flags, build, hub, local, registry, unseen, runs>>

\* The goroutines and eg.Wait.
UploadImages ==
  /\ Here("uploadImages")
  /\ \/ \E p \in uploads :
          /\ bucket' \in {bucket, bucket \cup {p}}
          /\ EndPublish \/ (p \in bucket' /\ uploads' = uploads \ {p} /\ UNCHANGED <<pubStep, todoTargets>>)
     \/ uploads = {} /\ Begin(After("images")) /\ UNCHANGED bucket
  /\ UNCHANGED <<package, flags, build, hub, local, registry, unseen, runs>>

-----------------------------------------------------------------------------
(* The targets, one after the other. *)

Target == Len(Targets) + 1 - todoTargets
NextTarget(step) ==
  IF todoTargets > 1 THEN todoTargets' = todoTargets - 1 /\ UNCHANGED <<pubStep, uploads>> ELSE Begin(After(step))

\* PublishNativeBinaries, UploadAddon.
UploadBinary == Here("upload") /\ Call([hub EXCEPT !.assets[Target] = build], NextTarget("upload"))

\* loadDockerImage looks for the stream of the answer only, not for its error.
LoadImage ==
  /\ Here("load")
  /\ \/ EndPublish /\ UNCHANGED <<local, unseen>>
     \/ NextTarget("load") /\ local' = [local EXCEPT ![Target] = build] /\ UNCHANGED unseen
     \/ NextTarget("load") /\ unseen' = TRUE /\ UNCHANGED local
  /\ UNCHANGED <<package, flags, build, hub, bucket, registry, runs>>

\* pushImage pushes what the daemon has under the tag; the errors in its
\* stream are read by the progress bar, if there is one.
PushImage ==
  /\ Here("push")
  /\ \/ EndPublish /\ UNCHANGED <<registry, unseen>>
     \/ /\ local[Target] # 0 /\ registry' = [registry EXCEPT ![Target] = local[Target]]
        /\ NextTarget("push") /\ UNCHANGED unseen
     \/ flags.console /\ local[Target] # 0 /\ unseen' = TRUE /\ NextTarget("push") /\ UNCHANGED registry
  /\ UNCHANGED <<package, flags, build, hub, bucket, local, runs>>

\* pushManifest lists what the registry has under the tags of the targets.
PushManifest ==
  /\ Here("manifest")
  /\ IF \E i \in DOMAIN Targets : registry[i] = 0
     THEN EndPublish /\ UNCHANGED <<package, flags, build, hub, bucket, local, registry, unseen, runs>>
     ELSE Call([hub EXCEPT !.assets = registry], Begin(After("manifest")))

-----------------------------------------------------------------------------
(* The UI and the end. *)

PrepareUI ==
  /\ Here("ui")
  /\ EndPublish \/ (pubStep' = After("ui") /\ uploads' = UIAssets /\ UNCHANGED todoTargets)
  /\ UNCHANGED <<package, flags, build, hub, bucket, local, registry, unseen, runs>>

UploadUI ==
  /\ Here("uploadUI")
  /\ \/ EndPublish
     \/ \E a \in uploads : uploads' = uploads \ {a} /\ UNCHANGED <<pubStep, todoTargets>>
     \/ uploads = {} /\ Begin(After("uploadUI"))
  /\ UNCHANGED <<package, flags, build, hub, bucket, local, registry, unseen, runs>>

FinalizeUI == Here("finalizeUI") /\ Call([hub EXCEPT !.ui = build], Begin(After("finalizeUI")))

Finalize ==
  /\ Here("finalize")
  /\ IF flags.finalize
     THEN Call([hub EXCEPT !.is = "final", !.by = build], EndPublish)
     ELSE EndPublish /\ UNCHANGED <<package, flags, build, hub, bucket, local, registry, unseen, runs>>

PublishNext ==
  \/ RunPublish \/ CreateDraft \/ UploadTables \/ PrepareImages \/ UploadImages \/ UploadDocs
  \/ UploadBinary \/ LoadImage \/ PushImage \/ PushManifest
  \/ PrepareUI \/ UploadUI \/ FinalizeUI \/ Finalize

PublishSpec == PublishInit /\ [][PublishNext]_publishVars

-----------------------------------------------------------------------------
(* Properties. *)

\* A version that is not a draft any more is of one build in all its parts,
\* and the images its docs show are there, however runs before it failed and
\* with whichever builds; but for what Docker's streams said and nobody read.
FinalIsWhole ==
  hub.is = "final" /\ ~unseen =>
    /\ hub.draft = hub.by /\ hub.docs = hub.by
    /\ package.tables => hub.tables = hub.by
    /\ package.ui => hub.ui = hub.by
    /\ \A i \in DOMAIN Targets : hub.assets[i] = hub.by
    /\ Pictures[hub.docs] \subseteq bucket
=============================================================================
