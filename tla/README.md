# inverter-monitoring in TLA+

The repository is a monitoring stack (Telegraf, InfluxDB, Loki, Grafana) and,
for the larger part of its code, the machinery that releases it: build numbers
allocated in a ledger on a Git branch, release candidates published and
promoted through the GitHub API, images copied to registries, and a webhook
that installs a published release on the host. The configuration of the stack
has no state of its own; the release machinery is where runs, requests and
maintainers meet, so that is what is modelled here.

## The system

| Component | State | Operations | What is hard |
|---|---|---|---|
| Release version ledger (`scripts/release_state.py`) | `release-version-state.json` on the branch `release-version-state`: counter, publication floor, one plan per run | `read_state`, `reserve_plan`, `verify_reservation`, `verify_promotion_order`, `begin_publication`, `write_state` | compare-and-swap between runs, lost answers, writes that arrive late, reruns, a first allocation in two requests |
| Versioned release (`scripts/release_versioned.py`) | the plan in memory and as an artifact, the evidence artifact | `prepare`, `publish_versioned`, `verified_rc`, `scheduled_reuse`, `create_confirmation` | checks that are repeated because what they read goes stale: tags, releases, order, default branch |
| Publication transaction (`scripts/release_control.py`) | tag, draft, files and release on GitHub | `_publish_prepared`, `create_release_once`, `_reconcile_created_release`, `upload`, `verify_uploaded_asset` | an ambiguous POST that must not be sent again, partial uploads, maintainers who move tags and drafts |
| Promotion (`scripts/release_control.py`) | none of its own | `promote` | the accepted RC must still be the newest candidate when its bytes become stable |
| Supersession (`scripts/release_control.py`) | none of its own | `superseded_candidate` | a branch that moves under a run; the newer run may never start |
| Run validation and waiting (`scripts/release_control.py`) | a five minute deadline | `wait_for_executing_run`, `validate_run`, `release_gate_ready` | metadata that lags, a success after the deadline, jobs of an older attempt |
| GitHub client (`scripts/release_control.py`) | remaining budget of one request | `api`, `binary`, `pages` | a bounded repetition of whole reads, partial answers, denials |
| Release workflow (`.github/workflows/release-pipeline.yml` and its callees) | job results, the concurrency group | triggers, reruns, `prepare`, `checks`, `build`, `gate`, `candidate`, `stable` | one pending run, cancelled runs, reruns of old commits, a run that dies between two jobs |
| Version plan (`scripts/version_plan.py`) | the version files of a checkout, the evidence of an edit | `create_plan`, projections, `sync_versions`, `verify_checkout` | several files replaced one after another, an operator who edits meanwhile |
| Packaging, staging and receipts (`scripts/package_release.py`, `stage_release_assets.py`, `version_receipt.py`) | `release-dist`, `release-assets`, the receipt | pack a snapshot, inspect, bind to the plan, verify again | what is built, half built or left from another plan in one checkout |
| Version preparation (`scripts/prepare_version.py`) | a topic branch and its pull request | check, commit, push, open the pull request | main and topic moving, a push with no pull request |
| OCI archives and provenance (`scripts/merge_oci_archives.py`, `release_provenance.py`, `_OciMetadata` of `version_plan.py`) | none | judge a native input, merge two, detach their attestations, judge the result | three contracts for one archive, written three times |
| Registry publication (`scripts/publish_verified.py`, `verified_images.py`) | images in a registry, a file of digests | check every destination, copy, move `latest`; resolve digests | a copy that fails after others succeeded, tags that others push |
| Native container assembly (`scripts/assemble_native_container.py`) | output and staging directories | `assemble`, `publish_evidence`, `publish_detached_outputs`, `discard_staging` | all-or-nothing links and their rollback, rival runs, files of an operator |
| Deployment webhook (`webhook/server.py`) | none durable; the host's installed version | verify a delivery, run the remote install, read the version back | concurrent deliveries, a local timeout while the remote goes on |
| Change scope, fuzz policy, scan wrappers, preflight, release notes, grid analysis, configuration | none | pure validation or one process | formats only |

Interactions: a workflow run reserves a plan in the ledger (`prepare`), builds
under it, and publishes through the transaction only after the ledger accepts
that its number is consumed; promotion reads the ledger, the RC's release, its
run and its evidence, and publishes through the same transaction; supersession
and nightly reuse read the default branch and the ledger and decide that a run
publishes nothing. GitHub is the only shared memory: a read is a snapshot of
one resource, a write may be applied with its answer lost, and only the
contents API offers a compare-and-swap.

What makes them correct:

- ledger: no number or tag given out twice; counter and floor never move back;
  a number is consumed at most once; nothing public above the floor;
- order: candidates come out in number order, an RC is promoted only while it
  is the newest candidate, a finished base takes no further candidates;
- transaction: an attempt creates at most one release and fills and publishes
  only that one, whole, under its commit;
- supersession and reuse: no automatic candidate after a newer one, no commit
  skipped for good, no RC made unpromotable by a nightly of the same source;
- waiting: only an attempt that executed its gate and checks itself publishes,
  and only if it knew so in time; a promotion sees the run and the release
  unchanged;
- build: what is accepted for a plan was built for it, from the committed files;
- assembly: the outputs of a run appear whole, evidence last, or not at all,
  and nobody else's file is removed;
- images: what is released was built and tested as it says, `latest` moves last,
  a deployment is told only approved digests;
- preparation: no edit of a person is lost, a dead run locks nobody out, and the
  pull request merges.

## Modules

| Module | Models | |
|---|---|---|
| `VersionAllocator` | what the ledger promises: atomic `Reserve` and `Consume` | abstract specification |
| `ReleaseLedger` | the ledger file and the workflow runs that use it, request by request | implements `VersionAllocator` |
| `ReleaseLedgerProofs` | proofs about `ReleaseLedger` | TLAPS |
| `ReleasePublisher` | the publication of one tag, by several attempts and a maintainer | |
| `ReleasePublisherProofs` | proofs about `ReleasePublisher` | TLAPS |
| `AutomaticRuns` | runs, pushes, the concurrency group, supersession and nightly reuse | takes allocation as `VersionAllocator` promises it |
| `AutomaticRunsProofs` | proofs about `AutomaticRuns` | TLAPS |
| `ExecutingRun` | the attempts of one run, the wait for their metadata, the bounded GET, the promotion's two looks | |
| `ExecutingRunProofs` | proofs about `ExecutingRun` | TLAPS |
| `VersionedBuild` | one checkout from its plan to an accepted release | |
| `VersionedBuildProofs` | proofs about `VersionedBuild` | TLAPS |
| `NativeOutputs` | assemblies that link their outputs into one directory | |
| `NativeOutputsProofs` | proofs about `NativeOutputs` | TLAPS |
| `OciArchives` | archives as graphs of blobs: the three contracts, merge and detach | operators |
| `RegistryPublication` | an image from its native builds into the registry and to a deployment | uses `OciArchives` |
| `RegistryPublicationProofs` | proofs about `RegistryPublication` | TLAPS |
| `PrepareVersion` | `prepare-version --pr` by several operators over one remote | |
| `PrepareVersionProofs` | proofs about `PrepareVersion` | TLAPS |
| `MCReleaseLedger`, `MCReleasePublisher`, `MCNativeOutputs`, `MCVersionedBuild`, `MCPrepareVersion` | plans, files and symmetry sets for TLC | |
| `MCRegistryPublication` | the native inputs that TLC tries | |

How they fit together: `ReleaseLedger` implements `VersionAllocator`, and
`AutomaticRuns` and `ReleasePublisher` rest on what that promises.
`ExecutingRun` is what happens before a publication job may begin, for one run.
`VersionedBuild` makes the packages such a run publishes, `NativeOutputs` and
`OciArchives` the image among them, and `RegistryPublication` takes that image
on. `PrepareVersion` moves the base version all of them start from.

### ReleaseLedger

`pc[r]` is the place in the code of run `r`'s current job. `view[r]` is the
copy of the ledger that the run read and will name in its PUT: `read_state`
returns contents and blob SHA together and a blob SHA is a function of the
contents, so the contents stand for both. `plan[r]` is the plan in memory.
`Put` is GitHub's half of `write_state`: it refuses a PUT whose blob is not the
current one. `WriteState` is the run's half: it goes on, or it fails although
the PUT was applied, or it fails and leaves the PUT in `late`, from where
`LateWrite` applies it at any time if the file still is the one it names.
`begins` only counts and no action reads it.

`Prepare`, `ReadState`, `ChoosePlan`, `CheckTagAbsent`, `CreateBranch`,
`WriteReservation` are the requests of `prepare` and `reserve_plan` in their
order. `CheckPublication` is `publish_versioned` up to its last read-only
check; `PickCandidate` and `RecheckCandidate` are `promote` (and `verified_rc`
of `prepare`) before and after the downloads. `ReadFloor`, `VerifyOrder`,
`WriteFloor` are `begin_publication`. `CreateTag`, `CreateDraft`,
`PublishRelease` are the transaction as far as the ledger's properties see it;
`ReleasePublisher` has the rest. `StoreEvidence` is the workflow step that
uploads the evidence. A failed check, request, build or job is `Fail`: the
process stops and what it held in memory is gone. `Trigger` starts a run or
reruns it; every job of an attempt must be fresh (`validate_run`), so an
attempt starts at `prepare`. `DeleteRelease` is a maintainer's.

Not in it: a run that ends early because it is superseded, reused or
`version-required` writes nothing, which is `Fail` here and is modelled in
`AutomaticRuns`. A `final-build` stable release is a possibility of the code
that the repository's policy (`promote-bytes`) does not use. Deletion of the
whole state branch is excluded by docs/VERSIONING.md. `ensure_absent` is one
step although it reads a tag and a list; what is created in between is caught
by the requests that follow, which are steps of their own.

### ReleasePublisher

One tag. `releases` are the releases ever created under it, by release ID,
with the attempt whose nonce the body carries (`by`) and the bytes GitHub
stores for each file. `CreateAmbiguous` has the three outcomes of a POST whose
answer is lost; `pending` and `LateCreate` are a POST handled after its sender
stopped waiting. `ListOnce`, `ListAgain` and `Adopt` are
`_reconcile_created_release`, which a promotion does not have: it gives up.
`Upload`, `Inventory`, `Verify`, `ReadTag`, `ConfirmPublish` and `Publish` are
`_publish_prepared` from the uploads to the PATCH. The maintainer drafts a
release by hand, deletes a draft, pushes, and moves or deletes the tag. `moved`
and `exposed` remember the last: `TagIsLock` holds only while no tag was ever
moved, `PublishedAtItsCommit` for an attempt unless the tag was moved after it
read it back, which the code cannot see. The comparison of the ledger in `create_confirmation` is not modelled: it only
makes an attempt fail more often.

### AutomaticRuns

Commits are numbered along the default branch and runs by run ID. `Push` moves
the head and leaves a run to be created, or none (`PushesSkip`); `PushRun`,
`ScheduleRun`, `DispatchRun` and `Rerun` put a run in the concurrency group,
where a newer one cancels the one that is pending; `Start` waits until the
group is idle. `ReadHead`, `Supersede` are `superseded_candidate`, which
`publish_versioned` calls twice, with the head re-read as the last request.
`Search`, `Reuse` are `scheduled_reuse`; `Capture`, `Consume`, `ConfirmSource`
and `Publish` follow `publish_versioned`. `Prepare` and `Consume` are atomic:
`ReleaseLedger` is shown to allow this by implementing `VersionAllocator`.
Checks, builds and the gate are between `Prepare` and `ReadHead` and fail as
`Fail`. Promotion does not appear here, so `Reservations` stand for beta and RC
plans, and a qualified plan is one whose own release qualifies.

### NativeOutputs

`dir` maps each of the three output names to the file behind it, and a file is
named by the run that wrote it: `SameFile` is `os.path.samestat`. `detached` is
the policy, chosen once. With it, `Detach` and `StageEvidence` fill the staging
directory and `LinkOutput`, `UnlinkStaged`, `CheckUnaliased`, `CompareLinked`
and `RemoveLinked` are the loops of `publish_detached_outputs`, one system call
a step (`at` is the loop's position), each of which may fail. Without it,
`MergeArchives` links the image, `PublishEvidence` the evidence, and `Undo` is
the handler of `assemble`. `hidden` are temporaries whose removal failed. What a
file contains and the checks of the native inputs are a call that may fail.
`Crash` stops a run anywhere. The operator creates files under free names,
replaces or removes published ones, as the tests of the rollback do, and
hard-links them. `fault` and `taken` are history, read by the properties only.

Two things are taken from the environment. An inode number is not used again
while a run compares with it. And unless `SwapsSeen` holds, nobody swaps a file
between the two calls `samestat` and `unlink`; with `SwapsSeen = TRUE` TLC finds
`ForeignKept` violated there, and these calls cannot close the gap. Without
detached provenance `Undo` removes the image by name and does not look whose it
is: `ForeignKept` leaves that name out and `Disturbed` names what follows for a
rival.

### ExecutingRun

One run and its attempts `1..MaxAttempts`. `RunJob`, `ListJob`, `ShowRun` and the
rerun are GitHub's: a job executes under the attempt or is copied from an
earlier one, and the API shows jobs and status as late as it likes. `ran[a][j]`
is the attempt in which the job really executed. The publication job reads the
run, the pages of the job list (`pages`, with the read that brought each
record), judges them as `release_gate_ready` does, asks for the gate's own
record, sleeps, and gives up at its deadline (`left`); then `validate_run`
decides. A GET that fails is repeated as a whole, `Tries` times (`_read_get`).
`checks` and `fuzz` stand for the gate's needs; `PageOf` puts the gate on a
second page. `Promotion` is `promote` with its two looks at the run and the
release, between which a maintainer may edit or the run be rerun.

A job that the list omits and one it shows as unfinished are waited for alike.
The copies of a partial rerun are listed complete from its start, and a run is
rerun only after it was shown completed with its jobs.

### VersionedBuild

One checkout and one command at a time; `pc` is the step of the command.
`Verify`, `ReadInputs`, `Recheck`, `CheckFile`, `ReplaceFile`, `SkipFile`,
`WriteEvidence` are `sync_versions`; `StartPackage`, `CopyFile`, `Archive`,
`BuildImage` are `package_release.py` and the labels; `StartStage`,
`InspectPackages`, `CreateReceipt` are `stage_release_assets.py` with
`create_receipt`; `Accept` is the publisher's `verify_receipts`. `Fail` ends a
command anywhere and leaves what is on disk. The operator places another plan,
edits and restores files and removes old directories between any two steps. A
document is its version and whether the rest of it is as committed.

Three gaps of the code are named by history variables. An edit between
`verify_checkout` and the read is applied and recorded as if it had been
committed (`slipped`). An edit between the last check of a file and its
replacement is lost (`raced`). And an edit may be packed without a trace
(`tainted`): `package_release.py` has only the versions compared, and before it
copies the files, and staging compares the checkout with the evidence, not the
archive with either. So an edit that is made after the sync, packed, and undone
before staging is in the accepted archive, and TLC finds such a behaviour when
the exception is dropped. `edited` holds the files whose content is an edit of
the operator; a package is tainted if it copies one of them, or a file that
changed after the package began and before it was copied. Without these three
`AcceptedAsPlanned` says of the accepted archive, the inspected and the other
version files alike, that they are the committed ones with the plan's version.
Other source files are not in the model, the code does not compare them. The
checkout is followed up to the first release that is accepted.

### OciArchives and RegistryPublication

A blob is its content, so the content is its digest. An archive is a set of
blobs and the descriptors of `index.json`; `Walk` follows nested indexes.
`NativeInput` is `class Archive` of the merge, `Merge` and `RuntimeArchive` with
`Sidecar` are what an assembly writes, `Runnable` and `VerifiedPair` are
`verify_pair`, and `OciMetadata` is the inspection of a published archive. Any
failing check refuses an archive, so each contract is one conjunction. Images
and attestations are picked out of the walk by `Only`, which keeps the order of
the list. `MaxDepth` is at least one, because the archives the code writes nest
one index; it is eight in the code.

`RegistryPublication` assembles an offer of two native builds (`Assemble`),
stages and releases it, perhaps with the sidecar of another assembly
(`Release`), and lets publishers and a resolver use what is public. `Begin`
downloads and verifies the payloads, `Preflight` looks at one destination,
`Copy` makes one copy, whose answer may be lost, and `Stop` ends a publisher
anywhere; a tag inventory that cannot be read is a `Stop`. `Resolve`, `Compare`
and `WriteOutput` are `verified_images.py`. `EditAsset` replaces an asset of a
public release and `Push` is anybody else's push to the registry. A tag's value
is what it stands for: the approved archive of a version, or something else.

What the model shows besides its properties: a publisher that died between two
copies is followed by none for that version, because a retry refuses what is
already copied ("even on retries"); `latest` then stays where it is. Others may
push between the inventory and the copy and are overwritten: `surprised`. Two
limits are counted differently: the merge allows its number of descriptors for
each input, the inspection for the whole archive, so an archive whose parts fit
may not (`WithinLimit`).

### PrepareVersion

A commit is its past, its version and the edits of people in it, and `Prepare`
is one run of the command, call by call: read head and tags, list pull
requests, look at the topic, push, open the pull request. The owner check of a
topic compares trees at the merge base (`OwnedFrom`), as
`verify_owned_topic` does. People commit to the default branch and to topics,
merge, squash or close the pull request, delete the branch, and release the
version.

Left out: force-pushes of people, topics of people for a version the branch
already has, pull requests from forks, a policy that changes between ancestor
and head; tags are read in one step with the head, and two runs that make the
same commit to the second are told apart. The update of a checkout without
`--pr` is `VersionedBuild`'s.

Two observations. If the default branch takes another version after a topic was
prepared, and the topic has the right tree already, nothing is pushed and the
pull request keeps its conflict; `PullRequestMerges` names that case. If a pull
request is merged between a run's read and its push and the branch is kept,
there are two merge bases and later runs may refuse the topic; by then the
version is on the default branch and nothing is left to prepare, so
`OwnTopicAccepted` is about versions still ahead of it.

## Runs

| Run | Instance | States | Shows |
|---|---|---|---|
| `ledger_reruns` | 2 runs, 4 triggers, 1 base, no concurrency group | 436,729 | `IInv`, `ConsumedAtMostOnce`, `ReservationsDistinct`, `PublicBehindFloor`, `LedgerOnlyGrows`; the ledger implements `VersionAllocator` |
| `ledger_serialized` | 3 runs, 3 triggers, 2 bases, concurrency group | 1,366,588 | `PublishedInOrder`, `StableFromNewest`, `StableFreezesBase` |
| `ledger_wedge` | 2 runs, 4 triggers, concurrency group | | `FailedRunsLeaveOnlyGaps` is violated, see below |
| `publisher` | 2 attempts, 2 files, 2 commits, 2 maintainer steps | 1,389,334 | `TransactionInv`, `WorksOnOwnRelease`, `PublishedWhole`, `CreateNeverReplayed`, `TagIsLock`, `PublishedAtItsCommit` |
| `native_outputs` | 2 runs, both policies, 2 steps of the operator | 3,612,898 | `ReturnedWhole`, `RolledBack`, `EvidenceComesLast`, `ForeignKept` |
| `native_orphan` | 1 run alone | 555 | `CleanupNeverRollsBack` is violated, see below |
| `runs_order` | 3 runs, 1 push, 1 rerun, 1 expired artifact, 1 probe | 451,408 | `AutomaticInOrder`, `NightlyKeepsCandidates` |
| `runs_progress` | 3 runs, 2 pushes that may start no run | 334,498 | `SupersededIsReplaced`, `HeadConcludes` |
| `executing_run` | 2 attempts, 1 edit, 1 unit of waiting, 2 tries | 306,475 | `AttemptProven`, `WholeAnswers`, `PromotedUntouched`; `WaitEnds` |
| `versioned_build` | 2 files, 1 of them inspected, 2 plans, 1 edit | 3,680,218 | `TypeOK`, `AcceptedAsPlanned`, `MixedResumes`, `EditsKept` |
| `registry_publication` | 137 pairs of inputs, 2 assemblies, 2 publishers, 2 images, 2 versions, 1 foreign push, 1 edited release | 2,098,413 | `TypeOK`, `AssembledVerifies`, `ReleasableAsBuilt`, `DeployedIsStored`, `LatestIsComplete`, `VersionTagsKept` |
| `prepare_version` | 2 runs of the command, 3 versions, 5 commits, 1 edit | 7,648,836 | `OwnTopicAccepted`, `PullRequestMerges`, `HumanWorkKept` |

A type invariant that a theorem proves is not checked again by a run, except
where a mutant shows what it is good for.

The bounds. A lost update needs two runs that both read before either writes; a
rerun of each gives one that finds its reservation and one that finds its
number consumed. A third run is the newer candidate that an RC must not be
promoted past; publication out of order needs a rerun after another run
published, which three triggers allow; two bases let a candidate of another
base overtake an RC. The bound counts triggers over all runs, so three triggers
are three runs, or two with a rerun. `MaxSequence` 3 exceeds the candidates
three runs can make and `MaxBuildNumber` is out of reach in the runs; the proofs
cover its limit. `BuildNumberFloor` 5 is above the initial counter, so that the
first number jumps. A third release of the tag (`MaxReleases` 3) lets two
attempts and the maintainer each have one. `Probes` is ten in the code and one
in `runs_order`, so that three runs crowd a candidate out; the property says
that only candidates beyond the probes may be passed over. One push makes a
commit old, the second in `runs_progress` makes a successor old in turn. In
`native_outputs` two steps of the operator free a name for a rival and occupy
another, or take two files of one set. In `executing_run` a second attempt is
a partial rerun with copies, and one unit of time before the deadline separates
in time from too late. In `versioned_build` two files make a half applied plan
and two plans leave something of another. In `registry_publication` the offers
differ in image, attestation, graph, missing blob and receipt; two assemblies
let the sidecar of one meet the image of the other, two images let one copy
fail between others, and `MaxDepth` 2 with `MaxVisited` 6 are passed by some
offers. In `prepare_version` three versions are the present one, one prepared
and one prepared beside it; five commits suffice for a topic that is extended
or merged while another run is between its calls. Runs, publishers,
attempts, commits and files that `Init` and `Next` treat alike are symmetric in
the safety runs; no liveness run uses symmetry.

Deadlock is not checked: attempts, pushes and maintainer steps are bounded and
a run that failed or is done does nothing more, so every behaviour of an
instance stops where the system would wait for the next trigger.

### Fairness

`ReleaseLedger`, `ReleasePublisher`, `NativeOutputs`, `VersionedBuild`,
`RegistryPublication` and `PrepareVersion` are safety specifications. A run may
die at any step and nothing obliges anybody to start it again.

`ExecutingRun` has weak fairness, for each attempt, of `PublicationJob` (a
process that can go on does, or fails) and of `Elapse` (time passes). Nothing is
assumed of GitHub: `WaitEnds` holds although the metadata may never appear.

`AutomaticRuns` has weak fairness of `PushRun` (GitHub creates the run of a
push it announced), `Start` (GitHub starts a pending run once the group is
idle) and `Work`, which includes `Fail` (every job has `timeout-minutes`, so a
job that does nothing ends). Nobody has to push, dispatch or rerun.

`HeadConcludes` and `SupersededIsReplaced` are about runs that were not rerun.
A rerun of an old run takes the group's pending place from a newer run, which
then counts as `completed` and still supersedes the old one: with reruns both
runs can end without a candidate until the next push. The error messages of
`superseded_candidate` ask for a dispatch in such cases.

### Disagreements between documentation and code

`ledger_wedge`: docs/VERSIONING.md says that failed runs may leave gaps and
that a new run consumes a new number. The very first allocation creates the
branch and then the file. If it fails in between, the branch has no file,
`read_state` refuses that as a missing ledger, and every later run and rerun
fails. The error says to restore the file from history, and there is none yet.

`native_orphan`: a comment of `publish_evidence` says that a failure to remove
its hidden temporary must not roll back a published pair and that the orphan is
safe. With detached provenance that temporary is a second link of the staged
evidence. The evidence linked into the output directory then has two links, the
alias check refuses it, and all outputs are rolled back. The test of the comment
covers the other policy.

## Proofs

For every set of runs and bases, of attempts, files and commits, and for every
bound:

| Theorem of `ReleaseLedgerProofs` | |
|---|---|
| `InvariantHolds` | `IInv` is an invariant |
| `TypeCorrect` | `TypeOK` |
| `ReservationsAreDistinct` | no two runs hold one number or one tag |
| `NumbersConsumedOnce` | a run's number is consumed at most once |
| `PublicIsConsumed` | nothing public above the floor |
| `LedgerGrows` | counter, floor and reservations never move back |
| `LedgerImplementsAllocator` | `ReleaseLedger` implements `VersionAllocator` |
| `OrderHolds` (with `Serialized`) | `OrderInv` is an invariant |
| `CandidatesPublishInOrder` (with `Serialized`) | candidates come out in the order of their numbers |
| `StableIsNewest` (with `Serialized`) | a stable release is an RC of its base and nothing newer is out |
| `StableClosesBase` (with `Serialized`) | no beta or RC tag for a base whose stable version is out |

| Theorem of `ReleasePublisherProofs` | |
|---|---|
| `InvariantHolds`, `TypeCorrect` | `TransactionInv` and `TypeOK` |
| `AttemptsKeepApart` | an attempt works on the release its own POST made |
| `PublicIsWhole` | a published release holds every staged file |
| `PostsOnce` | an attempt makes at most one release |
| `TagLocks` | while nobody moves the tag, one attempt at most makes a release |
| `PublishedUnderCommit` | a release comes out under the commit it was built from, unless the tag was moved after the last look |

| Theorem of `AutomaticRunsProofs` | |
|---|---|
| `InvariantHolds`, `TypeCorrect` | `IInv` and `TypeOK` |
| `AutomaticsAreInOrder` | no automatic candidate after one of a newer commit |
| `NightliesKeepCandidates` | no nightly consumes a number over a candidate its probes reach |

| Theorem of `ExecutingRunProofs` | |
|---|---|
| `InvariantHolds`, `TypeCorrect` | `IInv` and `TypeOK` |
| `AttemptsAreProven` | only an attempt that executed gate and needs publishes, in time |
| `AnswersAreWhole` | no list is put together from two reads |
| `PromotedIsUntouched` | a promotion saw run and release unchanged |

| Theorem of `NativeOutputsProofs` | |
|---|---|
| `InvariantHolds`, `TypeCorrect` | `IInv` and `TypeOK` |
| `ReturnsWhole` | a run that returned left its whole set |
| `RollsBack` | a failed run left nothing |
| `EvidenceIsLast` | evidence stands beside what it speaks of |
| `ForeignIsKept` | no run removes a file of somebody else |

| Theorem of `VersionedBuildProofs` | |
|---|---|
| `InvariantHolds`, `TypeCorrect` | `IInv` and `TypeOK` |
| `AcceptedIsPlanned` | what is accepted has its plan's version; without the gaps `slipped` and `tainted` its archive is the committed files with that version |
| `MixedCanResume` | a half applied plan can be applied again |
| `EditsAreKept` | a replacement loses no edit but one that raced with it |

| Theorem of `RegistryPublicationProofs` | |
|---|---|
| `InvariantHolds`, `TypeCorrect` | `IInv` and `TypeOK` |
| `LatestCompletes` | `latest` is a release only once its images are all there |
| `DeployedAreStored` | a deployment is told only approved digests |
| `VersionTagsAreKept` | no publisher changes a version tag it saw |
| `AssembliesAreReleasable` | what an assembly writes passes the checks of its release |
| `ReleasesAreAsBuilt` | what passes them is what was built, tested and attested |

| Theorem of `PrepareVersionProofs` | |
|---|---|
| `InvariantHolds`, `TypeCorrect` | `IInv` and `TypeOK` |
| `HumanWorkIsKept` | no push and no merge takes an edit of a person away |
| `LinesHold` | `Lines` is an invariant: where topics left the default branch |
| `OwnTopicIsAccepted` | a topic of the command is accepted by every later run |
| `RequestsMerge` | a returned pull request merges into what was prepared |

They assume that the values that stand for nothing (`NoRun`, `NoPlan`,
`NoFile`, `NoCommit`, `None`, ...) are different from what they stand beside,
that bounds are natural numbers, that lists have no member twice and that the
version of at least one archived file is inspected (the policy declares two); each
module states this as a named `ASSUME`, which TLC evaluates in its runs.
`OffersAssumption` says of the inputs of an assembly that every index in them
names a list, which `walk_index` requires and JSON gives. All
theorems of `NativeOutputsProofs` but `TypeCorrect` also assume
`SwapsSeen = FALSE`: nobody swaps a file between `samestat` and `unlink`.

The ledger. `ReservationsDistinct` alone is not inductive: it says nothing of
requests that are computed but not applied. `IInv` therefore has a part for
each place a ledger can be: the file (`LedgerSound(Durable)`), the copy each
run holds and the request it is about to send (`RunSound`), and the requests
still on their way (`RequestSound` of every member of `late`). A request is
sound for the copy it was computed from. Compare-and-swap makes that copy the
current file when the request is applied (`PutSound`), so applying it yields a
sound file that extends the old one (`NewContentsSound`). Everything else a run
remembers about the file is stable under extension: its reservation stays and
the floor stays past its number (`OthersKeep`). `HistorySound` keeps a consumed
number at or under the floor, and `ReservationVerified` demands a number over
it. The refinement maps each applied PUT to `Reserve` or `Consume` and every
other step to a stutter (`PutRefines`).

The order of the ledger's releases is not a matter of the file alone: a run
compares a list of releases with a copy of the file and publishes several
requests later. `OrderInv` says what still holds in between. One run at most is
not at rest (`Exclusive`, from the concurrency group), so nobody else
publishes. A late write or a deletion may still change the file or the releases
under the run, but a plan that joins the ledger has a tag that nobody published
(`PublishedKeepsHolder`, from `PublicBehindFloor` and the distinct tags), so
the copy keeps every reservation that is published (`SeesPublished`) and what
the run cleared stays cleared (`Cleared`). `NamesKept` ties the tag a run
publishes to the base and the channel it was triggered for.

The publication. An attempt that has posted is one that is past its tag, has a
POST on its way or a release behind it (`Posted`); each of these keeps the next
from happening twice. `OneRelease` says so per attempt: before and while the
POST is on its way it made no release, and the release it works on is one it
made. Uploads therefore touch only the attempt's own release, which cannot be
public while it lacks a file (`UploadStep`), and `FilesVerified` carries the
downloads up to the PATCH. `TagHeld`: while nobody moves the tag, all that
posted is one attempt and the tag points to its commit, because `CreateTag` was
refused to every other.
`TagInv` needs no such condition on the whole history: an
attempt that has read its tag back finds it standing at its commit unless it
was moved behind that look (`exposed`), since nobody creates a tag that is
there; and only the PATCH makes a release public (`PublicStep`).

The automatic runs. One run is at work at a time (`Exclusive`), and what it saw
of the branch is its own commit (`CapturedOwn`), so a run that may publish is
not behind anything public (`Newest`): whatever was published after its commit
came from a run that had to be at work after it. For the nightly, `Searched`
says that a run past its search that still sees the head it searched under
leaves no qualified candidate within its probes.

The wait. A copied record can be told from an executed one only because it is
in the list from the attempt's start: `PagesInv` says that a list that has been
read contains every copied need, so `release_gate_ready` refuses it, and
`GateInv` that an executed gate speaks for executed needs. `PromotionInv` keeps
whatever changed between the two looks visible to the second.

The outputs. `LinkedInv` ties the outputs a run has linked to its place in the
loops, `WholeInv` says they are there unless taken, `CleanInv` what the alias
check has established, and `BackInv` that what the rollback has passed is gone
and what it is about to remove is its own. A file in the directory belongs to a
run that knows it linked it (`FilesInv`), hence no two runs can both believe it
theirs.

The build. `ReadInv`: what a sync works with is, file by file, as committed or
as the plan makes it, since `verify_checkout`. Applying the plan to such a tree
gives the same tree (`EvidenceInv`), which is why a half applied plan can be
resumed and why the receipt says what was built. `PackInv` carries the files
into the archives: what nobody edited is untouched (`CleanInv`); while nothing
is `tainted`, what a package has copied is untouched and at the one version its
comparison found, which the files still to be copied have too (`CopyInv`); so
the archives hold untouched files at one version (`ArchiveInv`). The staging
fixes that version by the inspected files, hence for all (`PlainAsExpected`).

The registry. `Loop(p)` goes through the two loops of a publisher: what it has
looked at is free or holds its version, what it has copied holds its version.
Every version tag a publisher writes is written with that version (`OwnTags`),
so the loops of others survive a copy (`KeptLoop`), and the step from the last
versioned copy to `latest` finds all images in place (`CopyFacts`).

The archives. `AssembledVerifies` and `ReleasableAsBuilt` hold in every state
because they hold of every assembly, so their proofs are about data and not
about steps. An archive is walked by two recursive functions, `Levels` and
`FlattenSeq`; that they exist, and what they are one level or one list further,
is shown by induction over the numbers up to `MaxDepth + 1` or the length of
the list (`Induction`, from the well-foundedness of the naturals in the library,
as a fact about sets of numbers). From there on the argument follows the code.
What is below one index over a list of manifests is that list and nothing
beneath (`NestedLevels`), so the walk finds again exactly the leaves that were
written (`NestedLeaves`). The attestations are written behind the images, and
each contract can tell them apart (`WrittenFacts`), so the images and the
attestations that are read back are those of the two inputs, in that order
(`MergeFacts`, `RuntimeFacts`). What made an input acceptable then makes the
whole acceptable (`MergeVerifies`, `RuntimeVerifies`); an input that is put
together again from the sidecar and the runnable archive has every blob the
checks read, though not every blob the input had (`Restored`), so the pair is
accepted too (`PairVerifies`). For the converse, images and statements of what
was written are those the inputs were accepted for (`LeavesAsBuilt`); a sidecar
of another assembly was accepted against this archive, whose images it must
therefore be about (`PairSpeaks`).

The preparation. No commit lacks an edit of its past (`Growing`), and a topic
that passed the owner check has no edit that the head does not have
(`NothingForeign`), so a new commit on both keeps all of them.

`OwnTopicAccepted` and `PullRequestMerges` quantify over all merge bases of a
graph that people push to, and neither is inductive: a run that read the branch
long ago may still push to the topic. The second invariant, `Lines`, says how
any commit got ahead of the default branch. It left the branch at one former
head that holds all it has of lower versions (`Left`, `Rooted`), and that head
lies in line with the head of every run at work, because all of them were heads
of one branch (`Heads`). A topic that only the command pushed to is its version
on such a head and nothing more (`OwnRooted`), so at any merge base with today's
head the owner check finds the tree it expects. What a run found and may extend
left the branch no later than the run's own head, or has the right tree and is
not pushed again (`FoundFits`); what it asks to merge has the tree it made
(`PushedFits`). `LinesStep` goes through the calls of the command (`LocalLines`,
`ReadTopicLines`, `PushLines`) and what people do (`OthersLines`).

Every invariant and every action property of the runs is proved. What only TLC
checks is liveness (`SupersededIsReplaced`, `HeadConcludes`, `WaitEnds`), which
is out of the prover's reach, and the two runs that expect a violation.

## Not modelled

- Formats: base64 and JSON of the ledger and its 4 MB limit, tag syntax, tar,
  media types, sizes, signatures, the fields of a BuildKit predicate, the
  adapters for npm, plist and JSON version files. They are pure checks whose
  failure is the failure of the step that makes them.
- The publication of a Python package (the PyPI target of
  `publish_verified.py`): one upload, which this repository's policy does not
  use.
- The deployment webhook: it keeps no state, filters each delivery by itself and
  starts an installer that is part of another repository. How two installers
  interleave, or what one does after its connection was cut, cannot be read
  from this code, and nothing here promises it.
- Release notes, change scope, the fuzz policy, static workflow contracts, scan
  wrappers, runner preflight, the grid analysis and the configuration of the
  stack: pure functions or one process, without shared state.
- Every component with its status and reason is listed in PROJECT.json.

## Plan

What is left, in this order:

1. An abstract publication (a release is drafted, filled and made public once)
   and `ReleasePublisher` shown to implement it, as `ReleaseLedger` implements
   `VersionAllocator`.
2. Pure operators with reference definitions: the decision of `change_scope`
   and the bounds of the fuzz policy.
