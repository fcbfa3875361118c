# rinse in TLA+

This is a formal model of [linkdata/rinse](../src/README.md), a service that
turns untrusted documents into harmless PDF files by running them through a
sequence of gVisor containers. The modules are checked with TLC on small
instances; the theorems are proved with TLAPS for every instance.

All paths below are relative to `src/`. Line numbers of every modelled
definition are in `PROJECT.json`, under `map`.

## 1. The system

| Component | State | Operations | Talks to |
|---|---|---|---|
| **Job** (`rinser/job.go`, `jobprocess.go`, `scrubfile.go`) | `state`, `errstate`, `Error`, `closed`, `cancelFn`, `stopped`, `progress` under `job.mu`; the working directory | `Start`, `Close`, `process` and its nine stages, `processDone`, `watchProgress`, `scrub` | `runsc` for each stage; is started and closed by the job list, by handlers, by its watchdog |
| **Job list** (`rinser/rinse.go`, `findjob.go`, `restdeletejobs.go`, `uijobbutton.go`) | `jobs`, `closed`, `maxConcurrent` under `Rinse.mu` | `AddJob`, `RemoveJob`, `runTasks`, `nextJobLocked`, `Close`; the delete handler; the Start/Stop button | every job, under `job.mu` inside `Rinse.mu` |
| **Intake** (`handlepost.go`, `restpostjobs.go`, `addjoburl.go`) | a job nobody else knows yet | `NewJob`, store the upload, `AddJob` | job list |
| **Results** (`restgetjobsuuid*.go`) | – | find the job, send its file, `RemoveJob` when `CleanupGotten` | job list, working directory |
| **Container run** (`runsc.go`) | one process, two pipes, two scanner goroutines and their channels | `runsc`, the deferred kill | the operating system, the context of the job |
| **Settings** (`settings.go`, `ui*.go` controls) | ten settings under `Rinse.mu`, `rinse.json` | `loadSettings`, the controls, `saveSettings` | file system; read by `AddJob`, `NewJob`, `runTasks` |
| **Page images and previews** (`refreshDiskuse` in `job.go`; pdftoppm, `output.txt` and tesseract messages in `jobprocess.go`; `jobpreview.go`, `restgetjobsuuidpreview.go`) | `imgfiles` and `previews` under `job.mu`; the images in the working directory | note images, list them, mark the ones tesseract has read, make and cache previews | the worker, a goroutine beside pdftoppm, viewers |
| **External address** (`uiexternalip.go`) | the last answer | look up after a change of the proxy | network |
| **Authentication** (`auth.go`, `jwt/`, `uiimpersonate.go`, `GetEmail`) | keys read at start; the user in the session of a request | accept or refuse a request, set and read the user | sessions (jaws), login (jawsauth), every handler |
| **User interface texts, start-up, self-test, language tables, API description** | – | rendering, `main`, generated or constant data | – |

### What is hard about it

* **Concurrency.** `Rinse.mu` and one `job.mu` per job are taken for single
  sections. `Start` and `Close` do part of their work outside the lock, with
  values read inside. Handlers, the background task, the watchdog of each job,
  its worker and browser pages act on one job at a time of their own choosing;
  the Start/Stop button does not take `Rinse.mu` at all.
* **Who removes the files.** `Close` removes them itself, leaves them to the
  worker it cancels, or to whoever closed the job first. The decision rests on
  two flags (`cancelFn`, `closed`) that others change.
* **Failure.** Every stage may fail, time out or be canceled; files may fail to
  be overwritten, directories to be removed; an upload may fail half-way; a
  settings file may be written in part.
* **Time.** A deadline per job, a watchdog per job, cleanup by age, and a
  background task that looks once a second.
* **Lists from before.** Two goroutines walk the directory without a lock and
  note what they found later; viewers read images whose names they took before,
  while pdftoppm writes them or `scrub` removes them.
* **Shared sessions.** The user of a token reaches its handler through a
  session, which other requests and logins use at the same time.
* **Processes.** A container ends, closes its output, dies of a signal, or
  does none of these; three events reach `runsc` in any order. One that is killed
  is not waited for, and may write while its directory is scrubbed.

### What makes each part correct

* Job: launched once; a job that runs is moved by its worker only; it keeps its
  outcome and its first error; if its containers are orderly it stops; a closed
  job's files are removed in the end, by one goroutine, after they were
  overwritten, or the error that was in the way is logged.
* Job list: jobs start in order and within the limit; a free slot is used; no
  working directory is forgotten; a listed result exists; a closed service
  stays empty.
* Container run: `nil` means that all output was handled and the exit code was
  0; a process that outlives the run was sent a SIGKILL, and the readers end;
  a canceled run returns.
* Settings: what was set is what a restart finds.
* Page images: tesseract gets every page and nothing else; no note is lost; a
  preview shows the first pages.
* Authentication: a session speaks for nobody but those who were vouched for;
  the handler acts for the user of its token, the name trimmed.

`PROJECT.json` lists under `hazards` each place where these could go wrong, with
the properties that would show it.

## 2. The modules

    JobLifecycle          what a job promises: new, running, stopped; closed; files
        ^         ^              JobQueue   what the list promises: order, turns, limit
        | refines | refines        ^
        |         | (one instance  | refines
        |         |  per job)      |
       Job       Rinse ------------+
        :          :
        :          :............ LaunchNotClosed justifies Serialized = TRUE in Job
        :                        TypeOK of Settings justifies the Limits of Rinse
       Runsc  ................. CanceledRunReturns justifies a fairness of Job,
                                SurvivorsAreKilled which stages leave a container
       Settings

       Pages  ................. OneRemover of Job: its files go once the worker ended
       Auth   ................. stands alone: handlers read the user it leaves

The dotted relations are assumptions of one module that another one discharges
by a checked property; they are not instances, since the modules look at the
code at different grains.

### JobLifecycle

The abstract specification: a job is started at most once, stops once, and
its files go once, after `Close`. With `Serialized`, starting and closing are
ordered by one lock: a closed job is not started and files are not removed
under a running worker. Every other module that has jobs refers to this one.

### JobQueue

The abstract specification of the job list: a queue that keeps its order, to
which a job is added at most once, of which the first job that waits is started
in one step when fewer of its jobs run than the limit says, and which is empty
for good once closed. There is no lock, no loop and no goroutine in it: that
`runTasks` and `nextJobLocked` take many steps to read jobs that change
meanwhile is what Rinse has to hide. The limit is about queued jobs: one that
was removed while it runs does not count (`rinse.go:447`, section 6).
`InTurn` is FALSE where the Start button is used, which asks for neither turn
nor limit (`uijobbutton.go:14`).

### Job

One job, with any callers of `Start` (`Starters`) and `Close` (`Closers`), its
worker and its watchdog. A section under `job.mu` is one action; what follows
it outside the lock is another.

| Code | Action |
|---|---|
| `Start`: `transition`, then context and `go` statements | `StartTransition`, `StartLaunch` |
| `Close`: locked section; `cancel()`; `removeAll` | `CloseMark` (in `Close`, `WatchClose`), `CloseCancel`, `ScrubFiles`, `RemoveDir`, `RemoveDirFails` |
| `process`: `transition` reads the context, then locks | `CheckContext`, `Advance` |
| the nine stages | `StageSucceeds`, `StageFails`, `StageInterrupted`, `StageWrites`, `MadeProgress`; which stage lets which failure through is in their guards |
| the deferred kill of `runsc`, which does not wait | `MayLeaveContainer` in the stages; `SurvivorWrites`, `SurvivorEnds` |
| error path, `processDone` | `Fail`, `ProcessDone`, `AfterDone` |
| `watchProgress` | `WatchTick`, `WatchClose`, `WatchExit` |

Data: the working directory is there or gone. The files in it are none, data of
a stage, zeroed, or `"late"`: with something a killed container wrote after its
stage was over. Time is whether `progress` is older than `TimeoutSec` and whether
the deadline is over. Errors of overwriting a file (`scrubErr`) and of the last
removal (`removeErr`) are what `removeAll` logs; `RemoveDirFails` may happen in
any removal, the last one included, and nobody tries again.

`Orderly` says, as in Runsc, that containers do not close their stdout, or write
a line the scanner does not take, before they exit. If they do, a stage may hang
in `cmd.Wait` past its deadline (`MayHang`).

`Serialized` is what the job list guarantees its jobs: `Start` only on listed
jobs under `Rinse.mu`, `Close` only after the job left the list. The button of
the user interface breaks it. Both cases are checked and proved.

### Rinse

Any number of jobs (up to `MaxJobs`), the list, and one set of goroutines per
kind of handler. `Rinse.mu` is explicit (`mu`) where it is held over several
steps: `AddJob` and `runTasks` read one job after another (`ScanJob`), each
under its own lock, while those jobs go on; then they decide (`ScanEnds`,
`ScanEndsIdle`) and call `Start` (`StartNext`, `Launch`). `Job.Close` is one
step here, followed by the removal; workers are as coarse as the list can tell.

| Code | Action |
|---|---|
| `NewJob`, a failed upload, `AddJob` | `NewJob`, `UploadFails`, `AddJob`; `GiveUp` tells the form from the REST handler |
| `runTasks`, `nextJobLocked` | `Tick`, `ScanJob`, `ScanEnds`, `ScanEndsIdle`, `StartNext`, `Launch` |
| delete handler, `RemoveJob` | `Delete`, `Unlist`, `CloseJob`, `RemoveAll` |
| `uiJobButton.JawsClick` | `Click` |
| `Rinse.Close` | `CloseServer` |
| download | `Find`, `OpenResult`, `Downloaded`, `CopyFails` |
| worker, watchdog, `processDone` | `WorkerEnds`, `ProcessDone`, `WorkerRemoves`, `WatchdogCloses`, `WatchdogRemoves` |
| `uiMaxConcurrent.JawsSet`; time | `SetMaxConcurrent`; `StoppedAges` |

The watchdog of this module may close its job at any time once it runs, more
often than the real one does; safety that holds here holds for the code.

### Runsc

One call of `runsc`: the `select` loop, the two scanners with their unbuffered
channels, `cmd.Wait`, the deferred kill and its panic. The process and `os/exec`
are external: a pipe of `PipeSize` lines, a process that writes, closes its
stdout, exits or dies. `Orderly` says that stdout can be read for as long as the
process lives; `Signals` that someone else may kill the process. The deferred
function sends a SIGKILL and returns: the process is `"killed"` and may still
write until `Dies`. The signal reaches `runsc run` only; that gVisor then ends
the sandbox and with it the output is taken for granted.

### Settings

Settings in memory, the file, and a goroutine per control: change under
`Rinse.mu`, snapshot under `Rinse.mu`, then `os.WriteFile`, which empties the
file when it opens it. Saves fail and the process crashes anywhere. Five
settings stand for the ten, one for each way they are treated: `limit`
(checked by its control), `cleanup` (stored as it comes, also below zero, but
loaded as zero or more), `size` (stored as it comes, loaded within two bounds),
`gotten` (changed without saving), `keys` (not saved).

### Pages

The page images of one job. An image is its place in the order of file names; a
document that is a PNG file has two more, its own name and `input.png`.
`refreshDiskuse` is two steps, the walk without a lock and the notes under
`job.mu`, and is run by the worker and by the goroutine of
`waitForPdfToImages`. pdftoppm and tesseract are external.

| Code | Action |
|---|---|
| `transition` and its `refreshDiskuse` | `Transition`, `WorkerWalks`, `WorkerNotes` |
| `renameDoc`, `waitForDocToPdf` | `RenameDoc`, `DocToPdf` |
| `waitForPdfToImages`, its goroutine | `StartRender`, `RenderEnds`; `Refresh` |
| pdftoppm | `WritePage` |
| `runPdfToImages`, `makeOutputTxt` | `WorkerWalks`, `WorkerNotes`, `MakeOutputTxt` |
| the handler of tesseract's messages | `Message`, `BadImage`; `ScanEnds` |
| `RESTGETJobsUUIDPreview`, `Preview` | `Ask`, `TakeNames`, `ReadImage`, `Store` |
| `scrub` after the job was closed | `Scrub`, one file at a time |
| errors | `StageFails`, in every stage |

A preview is the set of the images in it. Its width is left out but for `Fits`:
an image in a JPEG has at most 65535 lines.

### Auth

Requests, each served by a goroutine: `CheckAuth` up to the verdict on the
token, `setUsernameInSession`, then the handler, which asks `GetEmail` at any
time. Requests without a token go through `JawsAuth.Wrap`. A token is a record
of what the checks look at. Names are those of `Users`, which logins have, and
those in `Padded`, which only tokens have: with blanks around them, or nothing
else in them. `jwt.go` puts them into the session as they are; `GetEmail` trims
them (`Trim`, which takes them to their `Bare` form). Sessions are made, logged
in, impersonated in and ended by others at any time.

| Code | Action |
|---|---|
| `GetJWTFromHeader` | `Arrive` |
| `VerifyJWT`, `GetUsernameFromPayload` and the answer 400 | `Verify` |
| `setUsernameInSession` | `SetUsernameInSession`, `SetUser` |
| `RedirectAuthFn`; the handler | `Wrap`, `Return`, `GetEmail` |
| `uiImpersonate.JawsClick` | `Impersonate` |
| jawsauth, jaws.Session | `LogIn`, `EndSession` |

Two history variables say what the properties are about: `vouched`, who ever
logged in, was impersonated or sent a valid token (trimmed); `alone`, whether anybody else
named another user for the session of the request since it came.

## 3. What the runs check

| Run | Instance | Shows |
|---|---|---|
| `job_races` | callers Ui and Scheduler of `Start`, Ui and Handler of `Close`, not serialized, deadline and watchdog, orderly containers, files and directories that resist | `OneLaunch`, `WorkerOwnsState`, `ClosedJobHasRemover`, `FailedJobTellsWhy`, `OutcomeIsFinal`; liveness `StartedJobStops`, `ClosedJobIsRemoved` |
| `job_serialized` | the same callers, serialized | `StopReachesWorker`, `OneRemover`, `ScrubbedOrLogged`, the strict lifecycle |
| `rinse_list` | 3 jobs, poster, deleter, background task, watchdogs, `Rinse.Close`, limit changing between 1 and 2, no cleanup by age | `StartRespectsLimit`, `StartInOrder`, `LaunchNotClosed`, the strict lifecycle of each job, the queue (`ImplementsQueue`) |
| `rinse_live` | 2 jobs, REST poster, downloads with `CleanupGotten`, cleanup by age, `Rinse.Close` | `ListedResultIsThere`, `ClosedServerIsEmpty`, `CleanupWaits`; liveness `WaitingJobStarts`, `ClosedJobIsRemoved`, `StoppedJobIsCleanedUp` |
| `rinse_ui` | 2 jobs, poster, deleter, Start/Stop on stale pages, watchdogs that close listed jobs, `Rinse.Close` | `NoOrphans` |
| `runsc_orderly` | 3 lines, pipe of 1, handler may fail | `NilMeansAllHandled`, `SurvivorsAreKilled`; liveness `CanceledRunReturns`, `ReadersEnd` |
| `settings_save` | 2 administrators (symmetric), 3 changes, values below and above the bounds | `QuietFileIsCurrent`, `FileIsNoMix` |
| `pages_previews` | up to 2 pages, 2 viewers who ask for 1 page or for more than there are | `OutputIsPages`, `PreviewLacksLastAtMost`, `NotesAreKept`; liveness `PagesAreNoted` |
| `auth_requests` | 2 requests, 2 sessions (symmetric), 2 users, 9 tokens (2 good, 2 with a name to trim, 5 wrong in one way each), 2 answers of the key endpoint, time 1 to 3 | `SessionIsVouched`, `HandlerSeesTokenUser` |
| `runsc_hang`, `runsc_panic` | 2 lines; a container that is not orderly; one that dies of a signal | `CanceledRunReturns`, `KillSucceeds` are violated, section 6 |
| `pages_png` | a document that is a PNG file | `OutputIsPages` is violated, section 6 |

`TypeOK` is checked once per module but for Auth and Runsc, where it is proved.

**Bounds.** Two callers of each kind on one job give every pairwise race; a
third would find the job in a state the second already left it in, and the
proofs hold for any number. Three jobs are the least with which the order of
waiting jobs and a limit of two both matter: one runs, two wait, or two run and
one waits. Two suffice where order is not asked. One goroutine per handler is
enough, as each may come back and serve the next request at any time, and
different handlers race with each other. Three lines and a pipe of one let a
reader hold a line while another is in the pipe and a third blocks the process.
Three changes allow two overlapping saves after one that was kept.
Two pages are the least of which one can be whole while the next is written, two
viewers the least that store a preview of one number from different moments;
the refreshing goroutine and the worker are two in the code as well. Two requests
and two users give every pair in a session; the proofs hold for any number.
`TimeoutSec`, `CleanupSec` and `MaxTimeSec` matter by sign alone.

**Deadlock** is not checked where the system may stop: when all jobs are
posted and gone, when a job has ended, when `runsc` has returned.
`settings_save` and `auth_requests` check it.

**Fairness.**
* Goroutines are scheduled: weak fairness of each goroutine's next step.
* Waiting for `Rinse.mu`: strong fairness, since `sync.Mutex` hands the lock to
  a goroutine that waited for more than a millisecond.
* The ticker of the background task goes on until the service is closed.
* A deadline arrives. Work of a stage that lives may take for ever: stages are
  fair only once their context is dead, and only if they do not hang in
  `cmd.Wait` (`MayHang`). That they return then is `CanceledRunReturns` of Runsc,
  which holds for `Orderly` containers and fails for others (`runsc_hang`).
  `StartedJobStops` and `ClosedJobIsRemoved` of Job therefore name `Orderly` as
  their condition; the liveness of Rinse has the same condition, in its fairness
  of workers, and takes removals without an error for granted.
* A SIGKILL takes effect (Runsc). Job does not need it: a killed container may go
  on there for ever.
* Nobody has to send a request, press a button or close anything.
* In Pages only the goroutine beside pdftoppm is fair: it sleeps half a second
  and looks again. Nothing says how long a stage takes.
* Settings and Auth have safety properties only and assume no fairness.

Each property has a mutant in `PROJECT.json`: a changed definition, such as a
removed comparison, a flag read at the wrong time or a limit off by one, with
which the property fails.

## 4. What is proved

The proofs make no assumption but those named in the modules: the goroutines of
a job are different ones, "free" is not one of them, the background task does not
close the service (`runBackgroundTasks` has no such call), seconds are integers,
limits are above zero (`uiMaxConcurrent` refuses others), pipes hold at least a line,
settings are integers, tokens are made of known parts, "no key" is not a key, a
name that is trimmed is one of a user or none.

**JobProof** – any callers, any timeouts, serialized or not.
`IInv` strengthens the properties by what each label of the worker says about
the job (`WorkerInv`): `cancelFn` is set exactly while the worker has yet to
reach the end of `processDone`, and `done` exactly afterwards. That is why
`Close` may leave the files to the worker when it finds `cancelFn` set
(`ClosedJobHasRemover` is not inductive without it). `LaunchInv` ties the gap
between transition and launch to one caller. `SerializedInv` adds that a closed
job has no launch under way, and that what stages stored is overwritten, or has
an error, when it is unlinked: nobody but a killed container writes by then.
`SerializedScrub` is about what the code sees to; that everything is overwritten
is false (section 6).
From it: `TypeCorrect`, `LaunchedOnce`, `WorkerOwns`, `ClosedIsRemovable`,
`FailureExplained`, `SerializedStop`, `SerializedRemoval`, `SerializedScrub`,
`FinalOutcome`, and
`Refinement`: every step of Job is a step of JobLifecycle or a stutter.

**RinseProof** – any number of jobs, goroutines of each kind and limits.
All safety properties of Rinse, and the refinement. `CoreInv` says
* who is in the critical section (`LockInv`): a goroutine that scans or starts
  holds `mu`, and `scan.next` is listed as long as it is held;
* who has a job in hand (`FreshInv`, `HandsInv`): one that is being added is
  known to one handler, one that is being closed has left the list;
* how the parts of a job hang together (`JobInv`), and that a listed job is
  closed by its watchdog only (`ClosedInv`);
* that a transition to "active" without a worker has one goroutine that
  launches it, under `mu` but for the button (`LaunchInv`).

From it alone: `TypeCorrect`, `LaunchesOpenJobs`, `ClosedServerStaysEmpty`,
`ListedResultsStay`, `CleanupIsDue`. Three arguments go further:
* `NoWorkdirIsForgotten`: `OwnerInv` names an owner for each directory. A job
  that is not closed is listed or held by somebody who will list or close it; a
  closed one has a worker, a watchdog or a goroutine that will remove it. A step
  either hands the job over or keeps it (`Keeps`).
* `StartsInOrder`, `StartsRespectLimit`: the loop reads jobs that change behind
  it. `ScanInv` says what stays true of what it has read: jobs it passed do not
  wait, but for the one it chose, and those that run are at most as many as
  it counted. Jobs only stop while `mu` is held; without the button none
  starts. It is kept only while the count is below the limit, where the loop
  stops looking.
* `JobsImplementLifecycle`: `StrictInv` adds that, without the button, files are
  removed after the worker stopped; then each step is a step of JobLifecycle
  for each job, or a stutter.

**QueueProof** – as RinseProof.
`ListImplementsQueue`: every step of Rinse is a step of JobQueue or a stutter.
The step to look at is `StartNext`, some steps after the loop chose a job:
`LockInv` says that the job is still listed, `StartInOrder` and
`StartRespectsLimit` that it still is its turn (lemma `Turn`). With the Start
button, `Clickers # {}`, the theorem is about the queue without turns.

**RunscProof** – any number of lines, any size of pipe.
`NilMeansAllHandled` needs an account of the lines (`Flow`: written = handled +
in the pipe + in the reader's hands) and why the channel of stdout was closed
(`OutRead`): while the context lives, only the end of an orderly process closes
it. `AllHandled`, `OnlyKilledSurvive` and `TypeCorrect` follow. The second
is the reason for the sets in `MayLeaveContainer` of Job: a process outlives a run
that ended for its context or for its handler, and no other.

**SettingsProof** – any administrators, any values.
`OneSave` says what a save under way has in its hands as long as there is one;
`Origin` where snapshots and file come from. `SavesAreKept`, `NoMix` and
`TypeCorrect` follow. The last says of the values only that the limit stays above
zero, which Rinse assumes; a control may store any other below zero.

**AuthProof** – any requests, sessions, users, tokens and keys.
`HandlerSeesTokenUser` is not inductive: `RequestInv` adds that a request that
reached its handler alone finds its user in a session that is live, and
`Agreement` why nobody else may have put another one there: requests of one
session that have tokens and were not disturbed name the same user.
`Decision` shows that the checks of `CheckAuth`, in the order they come, accept
exactly the valid tokens, on which `SessionsAreVouched` rests. Sessions hold
names as they are in tokens; both properties are about them trimmed
(`TrimmedName`).

**PagesProof** – documents of any length, any viewers, any bounds.
The properties rest on lists from before. `Past` says what is true of any such
list as long as nothing was scrubbed: what it has is still on disk, and it has
no gap. `DiskInv` gives the reason (pages are written in order, each is whole
before the next begins), `NoteInv` holds it for the notes and for what each of
the two goroutines found. `OutputInv` follows the worker from the end of
pdftoppm to `output.txt`: its own last walk saw every page, so the notes have
them, whatever the other goroutine writes there later. `StageInv` keeps the
stages apart. From it: `TypeCorrect`, `OutputHasPages` and `NotesStay`.
`OutputHasPages` is about documents that are not PNG files, as with those it is
false (`pages_png`). `PreviewsShowFirstPages` needs what a viewer has in its
hands (`InHand`), and that the first `n` names of a list without a gap are the
pages up to `n` (lemma `FirstPages`, from cardinalities of intervals).
`TypeCorrect` and `NotesStay` hold for PNG documents too.

What Job assumes with `Serialized = TRUE` thus holds for any number of jobs
(`LaunchesOpenJobs`, `JobsImplementLifecycle`) as long as no button is used.

**Model-checked only.** All liveness properties, which are out of the prover's
reach, and that the violations in section 6 happen. Every safety property of
every passing run is proved.

## 5. What is not modelled

* What a stage computes, file names, languages, container configuration,
  texts, logging and templates: nothing modelled depends on them.
* Upload limits, languages and content types of the intake; metadata and logs
  (read only).
* The external address: one assignment after a request over the network. That
  it is the one of the last proxy does not hold, and nothing promises it.
* The width of previews; what draws them.
* Start-up (`New`, `getLanguages`, `main`), which runs before the list exists,
  and the self-test, a client of the service.
* `MaybeStartJob`, which has no caller.
* The end of the process after `Rinse.Close`, which does not wait for workers.
* A Start by the background task that fails, in Rinse.
* Errors of overwriting and removing in Rinse and Pages, where removals succeed;
  they are in Job.
* A directory that comes back: `os.MkdirAll` in `runsc.go` makes the data
  directory below `Workdir` again when another goroutine removes it while a
  stage begins, which takes callers that are not serialized. The worker of such a
  job removes it at its end.

## 6. Where code and documents disagree

Each of these has a run that finds it:

* `runsc_hang` – a container whose stdout ended or has a line of 64 kB sends
  `runsc` into `cmd.Wait`, where no deadline reaches it.
* `runsc_panic` – a container that dies of a signal after its stdout ended is
  killed again, and the service panics.
* `pages_png` – a document that is a PNG file is noted as two page images
  (`job.go:284`), both are in `output.txt` after they are gone, and tesseract
  fails: no PNG document is ever rinsed. `README.md:79-83` describes a list of
  the pages of `input.pdf`.

Met while modelling, without a run of their own:

* A file of a job that cannot be opened for writing, or cannot be
  written, is deleted without being overwritten (`scrubfile.go:14-38`), and so is
  what a killed container writes after the walk. `README.md:64-65` says that all
  files are overwritten first. What does hold is `ScrubbedOrLogged`.
* A Stop that hits the launch of a job (`job.go:147`) finds no `cancelFn`: the
  files are removed under the worker, what it writes meanwhile is deleted
  without being overwritten and without an error, and it is not canceled:
  `ScrubbedOrLogged` holds only for serialized callers. (The worker removes the
  directory once more in the end: `ClosedJobIsRemoved` holds.)
* A removal that fails is logged and not tried again (`job.go:242`): the
  directory of a closed job may stay for good, at its last removal too.
* `README.md:63-64` has containers "destroyed as soon as the stage is complete or
  fails". They are sent a SIGKILL, which is not waited for (`runsc.go:69`).
* A token is looked at once. It may expire before the handler runs, which does
  not look again. Blanks around its user's name go into the session and are
  trimmed when it is read: a token for " ann" acts for "ann", one for " " for
  nobody (`jwt.go:62-68`, `rinse.go:265`).
* `uiAutoCleanup` stores a negative `CleanupSec` (`uiautocleanup.go:33-38`); only
  the input field of the page refuses it.
* A maximum runtime of 0 is shown as "unlimited" (`uimaxruntime.go:15`) and
  makes every job fail at once (`HasDeadline`).
* A job between its last transition and `processDone` counts as stopped at the
  zero time: a tick in that gap removes it and its result without waiting for
  `CleanupSec` (`rinse.go:231`). `CleanupWaits` is about the jobs on either
  side of the gap.
* A page that is still being written when a preview is made is left out of it,
  and the preview is cached for good (`jobpreview.go:74`). A preview asked for
  before there are pages is an empty JPEG, answered with 200 and not with the
  202 of `restgetjobsuuidpreview.go:28`.
* A preview higher than 65535 lines, such as 100 pages at a width of 1000,
  cannot be encoded and is answered with 500.
* `README.md:40` gives `TimeoutSec` a default of 600, `settings.go:55` one of 60.
* A token with an unknown `alg` has no method to verify it (`jwt.go:103`); the
  call on nil is a panic, which ends the request.

* Removed jobs that wind down are not counted against `maxConcurrent`
  (`rinse.go:447`); `StartRespectsLimit` is about listed jobs.
* The watchdog may close a job that has just finished: it stays in the list
  without its result. `ListedResultIsThere` therefore needs `TimeoutSec <= 0`.
* A download under way is not protected from the scrub: it may send zeroes
  (`restgetjobsuuidrinsed.go:34`).
* `RESTPOSTJobs` does not close a job whose upload or `AddJob` failed, so its
  directory stays (`restpostjobs.go:115`); `NoOrphans` is stated for services
  without it. `job` is nil in the log call when `NewJob` failed.
* `saveSettings` leaves out `EndpointForJWKs`; the first change erases it.
* Overlapping saves may leave the older settings, or a file that does not
  parse; the service then starts with the defaults.
* The `CleanupGotten` switch is not saved; a negative `CleanupSec`, "never",
  becomes 0, "immediately", when it is loaded.
* Lines left on stderr are lost when stdout ends first (`runsc.go:115`).
* A killed container is not waited for and stays as a zombie.
* Shutdown does not wait for workers to remove their files.

## 7. Plan

Done, in this order: JobLifecycle, Job, Rinse, Runsc, Settings, Pages, Auth;
JobProof, RunscProof, SettingsProof, AuthProof, RinseProof, PagesProof;
JobQueue, QueueProof.

Next, most important first:

1. **Intake**: size limits and what a handler leaves behind for every point at
   which it may fail.
2. **Settings**: what a restart without `EndpointForJWKs` means for the keys of
   Auth.
