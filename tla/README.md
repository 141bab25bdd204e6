# Animus News: TLA+ specifications

Specifications of the Go program in `src/`: TLA+ modules translated from the
code, TLC configurations that check them on small instances, and theorems about
them that TLAPS proves for every value of the constants. `PROJECT.json` names the
source lines behind every definition, the runs, the hazards, the findings and the
theorems.

    tlc -config PilotSeq.cfg MCPilot.tla            # a run, see the tables below
    tlapm PilotProofs.tla                           # the proofs of a module

## 1. The system

Animus News turns a topic into a reviewed, rendered, published news video. Three
generations of the pipeline live side by side and share little code:

| Component | Source (`src/internal/…`) | State | Operations | Right when |
|---|---|---|---|---|
| L1 pilot pipeline | `shortform/pilot` | the files of one episode directory | generate-real, resume, status, validate, import-claude-review, import-visual-shot, import-voice | stages keep their order, nothing is produced for an unreviewed script, manifests describe their media, resuming reaches the end |
| artifact store | `storage/store.go` | objects by hash, one `artifacts.json` and one `state.json` per episode | PutArtifact, GetArtifact, ListArtifacts, SaveEpisode, GetEpisode, AddArtifactRef | a name keeps its content, a returned reference can be read, links are not lost |
| short-form workflow | `workflows/shortform.go`, `shortform/{artifacts,approve,validate}.go`, `shortform/activities` | a Temporal workflow: current state, gate results, artifact hashes; buffered signals | eighteen activities with retries, two approval signals, a query | no gate is passed over, nothing approved changes, only people approve |
| short-form gates | `shortform/gates` | none | provenance, self-approval, storyboard, shot, subtitle, render, multi-verifier, release, immutability | each refuses what its rule forbids |
| short-form runner | `shortform/runner` | the demo's artifact files and summary | RunDemo | a summary and the files beside it tell the truth after failing writes and earlier runs |
| episode workflow | `workflows/episode.go`, `temporalops/client.go` | state, notes, audit events | four activities, two signals, a query | human QA and release approval both precede the dry run, and the audit trail is complete |
| episode state machine | `workflows/state_machine.go` | current state, history, state it was blocked from | Transition, Block, Unblock, JSON | only table transitions; people where the table says so; blocking is reversible |
| publishing | `publishing` | the sandbox's drafts under a mutex | GeneratePack, GenerateReleasePack, UploadPrivateDraft, ScheduleDraft, GetDraftStatus | nothing public, nothing scheduled without approval, a dry run predicts the platform |
| routing | `models/router`, `models/registry`, `providers/health.go` | none | Validate, Route, Evaluate | disabled or too open providers are never chosen |
| claims, verification, council | `claims`, `verification`, `council` | none | Extract, VerifyClaims, LocalCouncil, Aggregate | a block anywhere blocks, a high-risk claim without evidence is not approved |
| QA | `qa/packet.go`, `productionqa/checks.go` | none | packet and report building | blockers reach the decision |
| artifact validation | `artifacts` | none | ValidateDirectory, ValidateTransition | a state is entered only with its artifacts, fresh and approved |
| dry-run pipeline | `pipeline` | a report under construction, over files others may edit | DryRun | stops at the first blocker, acts on what was approved |
| storyboard, research, sources | `storyboard`, `research`, `sources` | none | audit, source registry, storyboard generation | nothing is drawn from a script that was not approved |
| cost, analytics, audit, security | `cost`, `analytics`, `audit`, `security` | none | sums, thresholds, masking | a budget is not overrun |
| the rest | provider adapters, schemas, preview, model adapters, storage selection, Temporal worker, CLI, Python scripts, Docker files | none of their own | building requests, text and layout; process wiring | |

**How they interact.** The CLI (`cmd/animus-news`) runs pilot commands in its own
process, one per invocation; what one invocation leaves for the next is the episode
directory. The pilot calls external commands (visual and voice providers,
`faster-whisper`, `ffmpeg`, `ffprobe`) and, with `--claude-review=api`, an HTTP
API; each runs between reading a file and writing one. A worker process hosts the
Temporal workflows and activities; people send signals to them through the CLI. The
short-form workflow calls the gates inline and everything else as activities. The
artifact store is a library behind two interfaces and is selected by the storage
configuration; the workflows in the repository do not call it yet. The dry run calls
claims, verification, council (which routes through the registry), QA, storyboard,
production QA and publishing one after the other on the files of one directory, and
asks the artifact gate whether storyboarding may begin.

**What is hard to test here.** Commands that die or time out between two files, or
in the middle of one (no write in the repository is atomic); retries over what an
earlier attempt left; operators who edit, delete and import files between and
during commands; two commands on one directory (there is no lock anywhere);
approvals that are judged against state that has changed since; signals that come
early or twice; activities that run again after a timeout. `PROJECT.json` lists
each such hazard at its line with the properties that cover it.

## 2. Plan

| Order | Modules | Status |
|---|---|---|
| 1 | `Pilot` (the pilot pipeline), `ReleaseGate` (its abstract two-gate protocol), `PilotRefinement`, `PilotProofs`, `PilotRefinementProofs` | done |
| 2 | `LocalStore` (the file system store), `ImmutableStore` (its abstract specification), `LocalStoreRefinement`, `LocalStoreProofs`, `LocalStoreRefinementProofs` | done |
| 3 | `ShortForm` (artifacts, mock activities, gates), `ShortFormWorkflow`, `TwoSignatures` (the abstract promise), `ShortFormRefinement`, `ShortFormRunner`, `ShortFormProofs`, `MCShortForm` | done |
| 4 | `EpisodeLifecycle` (refines `TwoSignatures` too), `EpisodeStateMachine`, `EpisodeStateMachineProofs`, `EpisodeLifecycleProofs` | done |
| 5 | `ModelRouter`, `RouterDecisions`; `PublishPack`, `Publishing`; `Editorial`, `EpisodeBundle`, `DryRun`; `NewsroomProofs`, `MCNewsroom` | done |
| 6 | Proofs about `ShortFormWorkflow` and `ShortFormRunner` (`ShortFormProofs`), about `Publishing` and `DryRun` (`NewsroomProofs`), and about the pilot with one command at a time (in `PilotProofs`) | done |

Each module takes its parameters as CONSTANTS with a named assumption, has one
action per operation or step, and declares no RECURSIVE operator where theorems are
to be proved.

## 3. The pilot pipeline

### `Pilot`

A process in `Runs` is one invocation of the CLI. The code keeps no state between
invocations, so the model's main variable is the directory:

| Variable | In the code |
|---|---|
| `ws` | the files of the episode directory; a function whose domain is the files that exist |
| `pc[r]` | where invocation `r` stands in `GenerateReal`, `Resume` or an import |
| `got[r]` | what it read before an external call, or will write next |
| `faults` | how many deaths, timeouts and provider errors have happened (bounded) |

Contents are what the code compares: a text (script, request, audio, captions) is
the version of the script it carries; a hash is the content it was computed from;
a manifest is a record of hashes; `Torn` is the content of a file whose write was
cut short. `Torn` files exist for every `fileExists` and fail every `readJSON`.

Every stage of `Resume` is a group of actions: `Ensure…` is the test that skips,
refuses or starts the stage, and one action follows for each file it writes, so
that other commands, the operator or a death may come in between any two. The
labels of `pc` are the names of those steps; a label that is a file name means
"has decided to write this file". The gates (`ScriptGate`, `FinalGate`) read the
response and the script in one action each. `UpdateStatus` re-reads the manifest
and rewrites it in one step. The import commands are a start and their writes; they
write before they judge, as the code does. `EditScript` and `DeleteFile` are the
operator's editor and `rm`, which the runbooks tell them to use; `Fault` is a
process that dies, an external command killed on its timeout, or an error of a
provider or the API.

Left out: `audit.log` (appended to, never read), directories, credits and
thumbnails, the wording of requests, probing of media beyond "whole or torn". All
shots are one file and the two caption files are one, so a batch of shots that was
produced in part is a batch that was not produced or one that is torn.

### `ReleaseGate` and `PilotRefinement`

`ReleaseGate` says what the pilot is for without its files: a run drafts, may
produce only after it passed the script gate on a passing review, may declare a
release candidate only after it then passed the final gate; only runs between the
gates add to what is produced. `PilotRefinement` reads the phase of a run off its
label and the products off the directory, and states that the pipeline implements
this (`ImplementsGate`).

### Runs

| Run | Configuration | Checks | Shows |
|---|---|---|---|
| `pilot_sequential` | `PilotSeq.cfg` | `TypeOK`, `PipelineOrder`, `MediaBinding`, `ProductionReviewed`, `DeclaredOnReviews`, `CallsNeeded` | one command at a time, every kind of import, an operator who edits and deletes, one death possibly in the middle of a write |
| `pilot_concurrent` | `PilotConcurrent.cfg` | `CandidateComplete`, `ImplementsGate` | two commands interleaved on one directory |
| `pilot_api` | `PilotApi.cfg` | `ApprovedProduction` | reviews by the API, edits between commands |
| `pilot_live` | `PilotLive.cfg` | `EventuallyValid` | resuming and importing reaches a valid release candidate despite two faults |
| `pilot_stale_api_review` | `PilotStaleApiReview.cfg` | `ProductionReviewed` | violated: the API approves a script it never saw |
| `pilot_leftover_render` | `PilotLeftoverRender.cfg` | `RenderAdviceWorks` | violated: a render without its manifest is refused for ever, while status advises to resume |

**Bounds.** Two scripts (the draft and a revision) are what the approval hash tells
apart; a third would only repeat the second. One content of the shots: what the
properties compare is a manifest with its file, and a torn file or a recording
imported over it already makes the two differ. Two recordings, one whose extension
collides with the provider's output and one whose extension does not. Two
concurrent commands, since every race in this code is between a `fileExists` and a
write of another command; with one script, because what the concurrent run asks is
about files and gates, not about versions. One fault (two in the liveness run): a
fault ends a command, so a second one can only come in a later command, which
starts from a directory that one fault can leave. `FaultPoints` leaves out labels at
which a death is no different from one at the next label. `Deletable` is the
response that the runbook says to delete.

**Fairness** (`OperatorFairness`, used by the runs of temporal properties only). A command that was
started runs on: the operating system schedules it and every external command has
a timeout, hence weak fairness of its steps. The operator follows the advice that
`status` prints: generates or resumes again and again, and imports each review;
since a command ends before the next begins, these are enabled now and then and not
always, hence strong fairness. The verdicts in those runs are passes: with a
reviewer who never passes, nothing is owed. Edits, deletions and faults are never
fair. Two windows are excluded from the faults because a retry refuses what they
leave behind: between the render and its manifest (shown by
`pilot_leftover_render`) and between `script.md` and its manifest (the same
refusal, `ensureScript`).

Three things the model shows and no run asks about, because the code does not
promise otherwise: a script revised by hand, as the runbook describes, leaves
`short_script_manifest.json` with the old hash; `topic.yaml` or `research_pack.json`
lost to a torn write in the first command never come back, and `validate` does not
miss them; media that one approved version produced stay when another is approved.

`MediaBinding`, `ProductionReviewed`, `DeclaredOnReviews` and `CallsNeeded` hold for
one command at a time; two concurrent commands can break them, since nothing in the
code locks the directory, and the code does not promise otherwise.

`CallsNeeded` is about external work: a provider or the API is called only for a stage
whose manifest (or response) is missing, never once a render is there, and never over a
product that is already there, unless that is a shot the operator imported or a fault
cut an earlier command off between the product and its manifest. In the last case the
call is repeated, and paid for again: the code takes the manifest, not the product, for
the sign that a stage is done, and the model repeats the call as the code does.

### What is proved

| Theorem | Module | States |
|---|---|---|
| `TypeCorrect` | `PilotProofs` | `Spec => []TypeOK` |
| `OrderCorrect` | `PilotProofs` | `Spec => []PipelineOrder` |
| `CompleteCorrect` | `PilotProofs` | `Spec => []CandidateComplete` |
| `MediaCorrect` | `PilotProofs` | `OneCommand` implies `Spec => []MediaBinding` |
| `CallsCorrect` | `PilotProofs` | `OneCommand` implies `Spec => []CallsNeeded` |
| `ApprovedCorrect` | `PilotProofs` | `OneCommand` and no interleaved edits imply `Spec => []ApprovedProduction` |
| `ReviewedCorrect` | `PilotProofs` | with manual reviews besides, `Spec => []ProductionReviewed` |
| `DeclaredCorrect` | `PilotProofs` | with manual reviews besides, `Spec => DeclaredOnReviews` |
| `SmoothCorrect` | `PilotProofs` | `OneCommand` implies `Spec => NeverStuck`: no command that started gives up before the first fault |
| `PilotImplementsGate` | `PilotRefinementProofs` | `Spec => ImplementsGate` |

All hold for any scripts, takes, edits and fault points, and any number of faults,
under `PilotAssumption` (the modes have legal values; `Torn` is no script, take or status)
and `TornAssumption` (nor a content of the files that hold more than a text).
`TypeCorrect`, `OrderCorrect`, `CompleteCorrect` and `PilotImplementsGate` ask for no
more: they hold for any set of commands and of deletable files. The others have the
hypotheses of the table, which are those under which the code keeps these promises:
`OneCommand` is one command at a time, by an operator who deletes no file but the two
reviews that the runbook says to delete; "no interleaved edits" is `~Interleave`, an
operator who keeps his hands off the directory while a command runs; and "manual
reviews" is `ReviewMode = "manual"`, because the API approves a script that it never
saw (`pilot_stale_api_review`).

*TypeCorrect.* `TypeOK` is not inductive: a run writes what it holds, so what it
holds must have the type its label asks for. `TypeInv` adds `Holds(pc[r], got[r])`
for every run. The lemmas `MoveTyped` and `StoreTyped` settle the two shapes every
step has; `TypeStep` has one step per action.

*OrderCorrect* and *CompleteCorrect.* That a stage's file has everything before it on disk is not
inductive either: a run that has passed the tests of the earlier stages relies on
what it saw there, while others run. `OrderInv` adds, for every run, that the files
`Behind` its label exist unless the operator may delete them. No command deletes a
file, which makes it stable under the steps of others; a torn write only adds a
file whose predecessors the run has behind it. `BehindIs` tabulates `Behind`, so
that the case distinction is not unfolded in every step.

*PilotImplementsGate.* The invariant is the type invariant; each action is shown to
be one action of the gate or a stutter, one step per action.

*MediaCorrect* and the three about reviews rest on one invariant, `OneInv`.
A stage writes its media and then the manifest over them, so a manifest that describes
its file could be made false by writing the file again. `MayStand` says why that does not
happen: what a run found missing (`Missing`) stays missing until it writes it, and the
passing review that let a run through a gate still stands (`Reviewed`, `Passed`).
`FilesFit` adds what the files themselves keep: a render is there only with readable
manifests of what it is made of, a QA report only with that of the render, and with
imported reviews the text that a review speaks of is the one that it hashes. Each action
changes at most one file; `MayWrite` says what may be written, `WriteFits` that it keeps
`FilesFit`, and each action then only has to show that it stays within `MayWrite` and
`MayStand`. The step lemmas also say which step may declare a candidate (`Declares`), from which
`DeclaredOnReviews` follows.

*SmoothCorrect.* A stage of `Resume` refuses what an earlier attempt left in pieces: a
script or a render without its manifest, a file that cannot be read, a review that is
half there. The theorem says that only faults leave such pieces: until the first one
every command goes on to the status or the import that it was called for, whatever was
imported, edited, refused or reviewed before or meanwhile, and whichever reviews the
operator deleted. What it adds to `EventuallyValid` is that each of the model's aborts
needs a fault before it, for any scripts and takes; `pilot_leftover_render` is what a
fault between the render and its manifest does. The invariant is `IntactInv`, stated in
`PilotProofs` itself: as long as no fault has happened no file is `Torn`, and a run whose
place lies beyond the render or the script has the manifest too (`Finished`, `Carries`).
It rests on `OrderInv` and `OneInv` as well.

*CallsCorrect* takes from these invariants what a run at a call may rely on: by `OneInv`
the manifest it found missing still is, and with `FilesFit` a render cannot be there
without it; by `IntactInv` a product that is there before the first fault has its manifest
(`Finished`), shots apart, which the operator may import before theirs.

`OneInv` and `IntactInv` were checked with TLC on small instances
before the proof and are no property of a run.

Only model-checked: `EventuallyValid` (liveness is out of the prover's reach) and the two
properties that the code violates.

## 4. The artifact store

### `LocalStore`

A client is a caller of the store with its own goroutine or process. Variables:
`disk` (the files under the root), `pc` and `call` (where a call stands and what it
has read), `told` (the references PutArtifact has returned), `linked` (the
references AddArtifactRef has confirmed), `deaths`.

Every write is `os.WriteFile`, which truncates and then fills: the model has an
action for each (`OpenIndex`, `FillIndex`, and so on), so that another client can
read in between and a death or a full disk (`Die`) can leave the file empty, torn,
or whole without the caller knowing. Two clients that truncated the same file
overwrite each other from its start, which leaves the later one's content or a
mixture (`Filled`); writers of one object write the same bytes, because the path
contains the hash. `StartPut` reads the index, `StatObject` is the test of
`writeObject`, `NewIndex` is built from the index as it was read. A call that is
refused (a bad name, content that does not validate, an unreadable index, an
immutable conflict) changes nothing and is no step. AddArtifactRef links references
that a put returned; the code does not check that.

Left out: sizes, times, metadata, the staging directory of the validation.

### `ImmutableStore` and `LocalStoreRefinement`

`ImmutableStore` binds each name at most once, tells only bindings, and may lose an
episode's bindings all together, after which nothing is bound for that episode.
`LocalStoreRefinement` maps the files to it: the bindings are those of
`artifacts.json` or, while that is being rewritten, those its writer read; they are
lost when it is unreadable and nobody writes it. This is stated for one client at a
time.

### Runs

| Run | Configuration | Checks | Shows |
|---|---|---|---|
| `store_sequential` | `StoreSeq.cfg` | `TypeOK`, `Immutable`, `LinkedStay`, `ImplementsStore` | one client at a time, with one failing write |
| `store_concurrent` | `StoreConcurrent.cfg` | `IndexBacked`, `ToldObjectWhole` | two clients at a time, with one failing write |
| `store_torn_object` | `StoreTornObject.cfg` | `ToldReadable` | violated: a retried put returns a reference that can never be read |

**Bounds.** Two contents and two names are what immutability and a lost update need;
two episodes share the objects directory, and only there meet. One failing write
suffices for each property's hazard: it leaves one file unreadable, and calls that
come later meet it. Two clients are every race between a read of a file and its
rewriting. No fairness: the store promises no progress.

`Immutable` and `LinkedStay` hold for one client at a time. Two concurrent puts of
different contents under one free name both succeed, and of two concurrent
AddArtifactRef calls one may be lost: the code has no lock, and nothing in the
repository calls the store concurrently yet. A put that fails while it rewrites
`artifacts.json` loses what earlier puts of the episode returned: the model has the
step (`Die`), and `Lose` of the abstract store admits it.

### What is proved

| Theorem | Module | States |
|---|---|---|
| `StoreTypeCorrect` | `LocalStoreProofs` | `Spec => []TypeOK` |
| `BackedCorrect` | `LocalStoreProofs` | `Spec => []IndexBacked` |
| `WholeCorrect` | `LocalStoreProofs` | `Spec => []ToldObjectWhole` |
| `ImmutableCorrect` | `LocalStoreProofs` | `OneClient` implies `Spec => []Immutable` |
| `LinkedCorrect` | `LocalStoreProofs` | `OneClient` implies `Spec => []LinkedStay` |
| `StoreImplements` | `LocalStoreRefinementProofs` | `OneClient` implies `Spec => ImplementsStore` |

The first three hold for any set of clients, the others when there is at most one
(`OneClient`); all hold for any episodes, names, contents and states and any number
of failing writes, under `StoreAssumption` (an unfinished file is no document).

*StoreTypeCorrect.* `TypeInv` adds what a call holds at each step. `Fits` says which
contents a path may have; `WritesFit` gives it for every write, `DiskWritten` keeps
the disk typed.

*BackedCorrect.* No step removes a file, so what was true of an index when it was
read is true when it is written back, however late. `BackedInv` adds that the index
each call has read is backed and that the new object exists from `openIndex` on.

*WholeCorrect.* `ObjectsWhole` says of every object, listed or not, that as long as no
call died it is whole or some client is filling it; that clients who fill one object
write the same bytes makes it stable, whoever finishes last. With `BackedInv`, which
says that what was told exists, it gives the property.

*ImmutableCorrect.* `Immutable` is not inductive: a put adds a name that its copy of
the index does not bind. `BoundInv` adds that every index that can be read binds
all that callers were told (`ToldBound`), and so does the copy a put holds, whose
new name it lacks (`PutsFresh`). An index that was torn binds nothing, which is why
`Immutable` itself stays a part of the invariant.

*LinkedCorrect.* `LinkInv` adds the same about the record a call is about to write.

*StoreImplements.* `Shown` is the set of at most one index that the mapping shows;
`ShownBound` and `ShownOnce` tie it to the mapping, and `Binding`, `Telling`,
`Losing` and `Stutters` give the steps of `ImmutableStore` in its terms.
`PutsCurrent` adds that the index a put has read still stands in the file until the
put truncates it, and that the file is empty until the put fills it.

## 5. The short-form pipeline

### `ShortForm`

The artifacts, the mock activities and the gates are pure in the code and operators
here. An artifact is a record of what its content hash covers and some gate reads;
the hash of an artifact is the artifact, so that two hashes are equal exactly when
the contents are. An activity that returns an error returns `None`. A gate returns
the set of its reasons; it passes when that is empty. `defect` is one field that a
faulty provider gets wrong.

### `ShortFormWorkflow`

| Variable | In the code |
|---|---|
| `case` | the workflow's input and the provider fault |
| `pc`, `attempt` | the await at which the workflow stands, and which attempt of its activity |
| `art` | the artifact variables of the function |
| `stamped` | the hashes in the result (`ArtifactHashes`) |
| `passed` | the gates in the result that passed |
| `shown`, `result` | what the query answers, and what the workflow returned |
| `inbox`, `sent`, `decided` | buffered signals, all signals, the one received, per channel |

Temporal runs a workflow function from one await to the next without interruption.
There is one action per activity: the activity's answer and the code that follows it
up to the next await, gates included. Signals arrive at any moment and wait in their
channel; `Receive` takes the oldest. `AttemptFails` is an attempt that errs, times
out or loses its worker; the third ends the workflow. `block` and `blockErr` work on
a copy of the result, so a query keeps showing the state before (`Close` leaves
`shown` alone).

### `TwoSignatures` and `ShortFormRefinement`

The abstract promise: a person reviews, something complete is pinned, a named person
signs, it is released, and all may stop before any of these. Who signed is read off
the gates that passed. The episode workflow implements it as well.

### `ShortFormRunner`

The demo command does the same in one process and writes each artifact to one
directory, run after run. A write that fails is noted and the run goes on; the
process may die between two writes.

### Runs

| Run | Configuration | Checks | Shows |
|---|---|---|---|
| `short_form` | `ShortForm.cfg` | `FirstDecisionCounts`, `DownstreamReviewed`, `CandidatePins`, `CompletedEarned`, `SummaryTrue`, `ApprovedFrozen`, `ImplementsPromise`, `DecidedRunsClose` | the workflow with signals at any time, failing attempts and every provider fault; the runner over its own leftovers |
| `short_form_query` | `ShortFormQuery.cfg` | `QueryShowsOutcome` | violated: a closed workflow that was refused still answers with the state in which it waited |

`MCShortForm` runs the workflow or the runner (`driver`); they share no state.

**Bounds.** The usual input and fourteen deviations of it, each of which some gate or
activity tells apart, and nine provider faults. Two scenes: gates compare counts and
go through lists, and two differ from one and from none. Two signals per channel: a
decision and one that corrects it. One person with, beside it, nobody and a machine:
gates only ask of what kind an approver is and how many different names signed. Two
runs of the demo and two failing writes or deaths: what a run meets are the leftovers
of the run before.

**Fairness.** Weak fairness of the workflow's own steps: a worker polls the task
queue, and every attempt ends by its timeout of one minute. Nobody owes a signal;
`DecidedRunsClose` speaks of runs to which both decisions were sent.

### What is proved

| Theorem | Module | States |
|---|---|---|
| `FirstDecisionCorrect` | `ShortFormProofs` | `Spec => []FirstDecisionCounts` |
| `ReviewCorrect` | `ShortFormProofs` | `Spec => []DownstreamReviewed` |
| `PinsCorrect` | `ShortFormProofs` | `Spec => []CandidatePins` |
| `CompletionCorrect` | `ShortFormProofs` | `Spec => []CompletedEarned` |
| `ApprovedStaysFrozen` | `ShortFormProofs` | `Spec => ApprovedFrozen` |
| `WorkflowTyped` | `ShortFormProofs` | `Spec => []WorkflowTypeOK` |
| `WorkflowEndsInTime` | `ShortFormProofs` | `Spec => [](Left \in 0..57) /\ EndsInTime` |
| `WorkflowImplements` | `ShortFormProofs` | `Spec => ImplementsPromise` |
| `SummaryCorrect` | `ShortFormProofs` | `RunnerSpec => []SummaryTrue` |

Those about the workflow hold for any inputs, scenes, provider faults, identities and any
number of signals, under `IdentityAssumption` (people, machines and nobody are told
apart) and `SignalAssumption` (no signal is the marker of a missing one). `SummaryCorrect` holds
for any settings, scenes and any number of runs, failing writes and deaths, under
`RunnerAssumption`: the injected failure is one of those that the command accepts, and
the scenes are a sequence.

*The workflow.* All eight rest on `WorkflowInv`. The workflow walks a line of nineteen
awaits (`Pos`), and the place on it decides which artifacts are made, stamped and
approved (`Made`, `Stamped`, `Done`, in `KindInv`) and how many gates were passed
(`Cleared`): `GateInv` says that these are a prefix of `GateOrder`. `DraftInv` keeps
that a draft which waits for its approval is what its provider made, `MailInv` that a
channel holds what was sent after its first signal, `ChainInv` how the artifacts
depend on each other and on the decisions: what is pinned is what was approved, what is
signed is what was pinned, what is published is what was signed. A step goes one place
along the line and changes one artifact at most, or ends the run (`Moved`), which
settles everything that it does not touch (`StepOthers`, `StepMail`); each action has a
lemma for what it does touch. `Moved` is also what the action property and the
refinement are read off: a step of `TwoSignatures` or a stutter.

`WorkflowTyped` adds what the drafts of the providers are (`WorkKinds`) and that only what
closes returns (`Returned`). `WorkflowEndsInTime` is the half of `DecidedRunsClose` that
needs no fairness: every step of the workflow's own lowers `Left`, the attempts that the
retry policy leaves on the rest of the line, and a signal leaves it alone. What remains
for TLC is that a step of its own is possible until it waits or is closed, and that
fairness takes it.

*The runner.* Here the step at which a run stands decides which gates it has passed
(`CourseInv`), who has approved and what an injected failure rules out (`HandsInv`), and
which files it has yet to write (`ListInv`). `ManifestInv` and `LastInv` separate the
present run from the leftovers: while it is under way no manifest and no summary bears
its number, the manifest is written after everything that earns it, and the summary last.
The argument needs that the storyboard gate refuses a storyboard nobody approved
(`DraftsRefused`), that the render gate refuses a render without sound (`RenderedSound`)
and that the release gate passes the demo's release once it is signed (`DemoReleased`).

Only model-checked: `DecidedRunsClose`, beyond `WorkflowEndsInTime`.

## 6. The newsroom

### Modules

`EpisodeLifecycle` is the workflow of `episode.go`: as above an action per await, with
`epState` changed in place, so that a query and the audit events (`trail`) move
together. The activities return a text or an error.

`EpisodeStateMachine` is the state machine of `state_machine.go` with its table.
`Reload` saves and loads it as JSON, which loses `blockedFrom`. A call that is refused
changes nothing and is no step.

`ModelRouter` holds the registry's validation, every reason to reject a model, the
stable sort and the cut to a panel, provider health with its fallback policy, and the
answers of the local council's mock models. The sort is stated by what it returns: `Ahead`
compares two models as the code does and, where it finds no difference, by their places
in the registry, which is what a stable sort keeps; the model ranked `n`-th is the one with
`n - 1` others ahead of it. (The `SortSeq` of the TLA+ library leaves the order of equal
elements open.) `RouterDecisions` asks a router for one decision after the other.

`PublishPack` holds packs, release manifests, what the artifact validator asks of
them and the dry-run adapter; `Publishing` the sandbox and the callers that share it. The
checks of a call run before the lock, so `BeginCall` and `SaveDraft` are two actions.

`Editorial` holds extraction, coverage and aggregation of claims, the council, the QA
packet, production QA and the storyboard as pure operators: a sentence is a text with
the classes of words the rules look for. `EpisodeBundle` holds the validators of an
episode directory and the storyboarding gate. The report of `verification.VerifyClaims` is
handed on in memory and never saved, so no validator of an artifact applies to it;
`ReportsValid` is about the two reports that are artifacts, the human's draft and
production QA's. `DryRun` is the walk of
`pipeline/dryrun.go`, one action per read of the directory, while an editor replaces
files (`EditFile`).

### Runs

| Run | Configuration | Checks | Shows |
|---|---|---|---|
| `newsroom` | `Newsroom.cfg` | see below | each module on its own, in one run: `driver` names the module, the others stay where they began |

| Module | Properties |
|---|---|
| all with a type | `NewsroomTypeOK` |
| `EpisodeLifecycle` | `AuditTrail`, `FirstDecisionDecides`, `EpisodeImplementsPromise`, `EpisodeCloses` |
| `EpisodeStateMachine` | `CanonicalHistory`, `HumansDecided`, `BlockedCanReturn` |
| `RouterDecisions` | `RoutedBest` |
| `Publishing` | `ScheduledSigned`, `AnsweredStored`, `AdaptersAgree` |
| `DryRun` | `OnlySoundProduced`, `StoryboardOfApproved`, `ReportsValid`, `ToldOutcome` |

**Bounds.** Two decisions per channel, as above. One block and four transitions
by a human: a machine can pass all three human decisions, with a detour through blocked
or a second loop through one of them. Registries of three models: a task of medium risk takes two and one of low
risk one, so that there is a cut and a tie at it. Two callers with two calls each on two episodes: a caller's answer is disturbed by
one call of another, or one of its own. Claims files of one or two claims, because ids
that collide need two; two replacements of a file, because one between two reads of a
file and one before them are what can differ.

**Fairness.** Weak fairness of the episode workflow's own steps, as above;
`EpisodeCloses` speaks of episodes to which both decisions were sent. The other modules
promise no progress: they are libraries.

### What is proved

| Theorem | Module | States |
|---|---|---|
| `FirstDecisionCorrect` | `EpisodeLifecycleProofs` | `EpSpec => []FirstDecisionDecides` |
| `AuditTrailCorrect` | `EpisodeLifecycleProofs` | `EpSpec => []AuditTrail` |
| `EpisodeTyped` | `EpisodeLifecycleProofs` | `EpSpec => []EpisodeTypeOK` |
| `EpisodeEndsInTime` | `EpisodeLifecycleProofs` | `EpSpec => [](EpLeft \in 0..21) /\ EpEndsInTime` |
| `EpisodeImplements` | `EpisodeLifecycleProofs` | `EpSpec => EpisodeImplementsPromise` |
| `HistoryCorrect` | `EpisodeStateMachineProofs` | `MachineSpec => [](MachineTypeOK /\ CanonicalHistory)` |
| `ReturnCorrect` | `EpisodeStateMachineProofs` | `MachineSpec => []BlockedCanReturn` |
| `HumansCorrect` | `EpisodeStateMachineProofs` | `MachineSpec => []HumansDecided` |
| `RouterCorrect` | `NewsroomProofs` | `RouterSpec => []RoutedBest` |
| `ScheduledCorrect` | `NewsroomProofs` | `PublishSpec => []ScheduledSigned` |
| `AnsweredCorrect` | `NewsroomProofs` | `PublishSpec => []AnsweredStored` |
| `AdaptersCorrect` | `NewsroomProofs` | `PublishSpec => []AdaptersAgree` |
| `SoundnessCorrect` | `NewsroomProofs` | `WalkSpec => []OnlySoundProduced` |
| `StoryboardCorrect` | `NewsroomProofs` | `WalkSpec => []StoryboardOfApproved` |
| `ReportsCorrect` | `NewsroomProofs` | `WalkSpec => []ReportsValid` |
| `OutcomeCorrect` | `NewsroomProofs` | `WalkSpec => []ToldOutcome` |
| `WalkTyped` | `NewsroomProofs` | `WalkSpec => []WalkTypeOK` |
| `NewsroomParts` | `NewsroomProofs` | `NewsroomSpec` implies the specifications of the five modules |
| `NewsroomTyped` | `NewsroomProofs` | `NewsroomSpec => []NewsroomTypeOK` |

They hold for any number of decisions, records, blocks, callers, episodes, calls and
edits, and for any directories, registries and contents of the edited files. The
last two are about `MCNewsroom`, the instances that the run checks side by side, and carry
every theorem of a module over to them. The
assumptions are about markers and shapes only: no decision, state, draft, visibility or
report is the marker of a missing one (`EpisodeAssumption`, `MachineAssumption`,
`PublishAssumption`, `PackAssumption`, `WalkAssumption`), and a directory has its five
files, whose claims are a list or missing (`WalkAssumption`).

*The episode workflow.* The audit trail alone is not inductive: which record comes next
depends on where the workflow stands. The trail can only be one of a few walks; `At`
says that the workflow stands at the end of the straight one, `BlockedAt` that it left
it for `blocked`, and `PathInv` ties the state, the trail and what was returned to one
of these. `HeardInv` adds which decisions a state rests on, `MailInv` that a channel
still holds what was sent and not received. One lemma per action preserves all three;
under it the refinement is a step of `TwoSignatures` or a stutter. The length of the trail
also gives the bound of `EpisodeEndsInTime`, the half of `EpisodeCloses` that needs no
fairness.

*The state machine.* `MachineInv` strengthens the history with what a block remembers:
the last record of a blocked machine is the one that blocked it. Whether a stage lies
beyond a human decision depends on where an episode really stands while it is blocked
(`Place`); `DecisionInv` says that every decision that is `Owed` at that place was made
(`Decided`). That the transition table leads past a decision only through it is a check
of its entries.

*Routing.* `RouterInv` says that an answer is `Route` of the registry, task and options it
was asked about, so the work is in the operators. `Ahead` is a strict total order
(`AheadTotal`), whence the numbers of models ahead of each model differ, and as many
different numbers below `n` are all of them (`AheadCounts`): every rank has one model
(`RankedOrder`), and no induction over the list is needed. `PanelCorrect` then gives that
what is selected are the first in rank. `RouterAssumption` says that a registry is a list, that
qualities are integers and that a task has one of the tiers of privacy or none. A task
without a capability, a modality or a tier is refused before any model is looked at
(`Complete`, `NoneRouted`).

*Publishing.* A call between its checks and its save holds a visibility that was
admissible then; `Fit` says that it still is, because signatures are never taken back.
`AdaptersAlike` compares the two adapters on one pack. They have two validators: the sandbox
asks for a title candidate, the dry run does not (`SandboxValidates`, `DryRunValidates`), so
`AdaptersAgree` says in which direction they may differ and for which packs: the dry run
never refuses what the sandbox accepts, and lets untitled packs and uploads of approved
scheduled packs pass besides. A generated pack has a title, hence is scheduled alike.

*The dry run.* `WalkInv` follows the walk. `FilesInv` says that claims which did not come
from fixtures are the extractor's, which leaves every one of them to a human; therefore the
local council asks for revision, the packet lists them as unresolved, and nothing that
follows can approve them (`JudgedAs`, in `JudgeInv`).
`GateInv` relates what the storyboarding gate saw to what stands in the directory now: it
is still there, or an editor has replaced it since. `StoryInv` says of a story that was
told that its claims were approved and came through the gate, `OutcomeInv` where the
walk may have got with which outcome. The lemmas before them say what the editorial
operators return, for any claims and any council: what a recommendation lets pass, what
coverage asks of a claim, that a council's block blocks. `WalkTypes` adds to `WalkInv` what
is held at each step, for `WalkTyped`.

One attempt at these proofs failed because the model was wrong: three of the editorial
operators (`ClassifyType`, `ClassifyRisk`, `Aggregate`) were CASE expressions whose
guards overlap, which TLA+ leaves open where Go's `switch` takes the first. They are chains
of conditions now, in the order of the code.

## 7. What is only model-checked

- The liveness properties `EventuallyValid`, `DecidedRunsClose` and `EpisodeCloses`: the
  provers handle neither fairness nor ENABLED. `WorkflowEndsInTime`,
  `EpisodeEndsInTime` and `SmoothCorrect` prove the part of them that is a matter of
  single steps.

## 8. Findings

Each of the four runs that expect a violation checks one sentence of the documentation
or of the program's own output against the code: `pilot_stale_api_review`,
`pilot_leftover_render`, `store_torn_object` and `short_form_query`. `PROJECT.json`
quotes the sentences.

## 9. Not modelled

- Validators of artifacts that the dry run neither reads nor writes, and the JSON
  schemas: field checks over one record; the model takes the rest of a directory as
  valid or not (`rest`).
- The provider adapters (`shortform/providers`), model adapters, the Python scripts and
  the container images: they build requests and command lines. The pilot model takes
  each as a step that writes a file, or fails.
- Cost, analytics, audit and security: pure functions over one input record each, which
  keep no state.
- Storage configuration and credentials: selection and checks of settings. Only the local
  backend exists.
- Splitting markdown into sentences and matching terms: the models take a sentence with
  the classes of words it contains.
- The HTML preview, thumbnails, credits, and the wording of requests and reports.
- The command line and the connection of client and worker to Temporal. Temporal itself
  is external: it delivers signals in order, retries activities as their policy says,
  and runs a workflow function without interruption between awaits.
