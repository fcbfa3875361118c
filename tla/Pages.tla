------------------------------- MODULE Pages -------------------------------
(***************************************************************************)
(* The page images of one job: pdftoppm writes them, the goroutine that    *)
(* watches the disk meanwhile and the worker note them in Job.imgfiles,    *)
(* tesseract is given the list of them and names each one in its messages, *)
(* and RESTGETJobsUUIDPreview makes and caches previews of the first ones  *)
(* at any time (rinser/job.go, jobprocess.go, jobpreview.go).              *)
(*                                                                         *)
(* An image is a number, its place in the order of file names.  The width  *)
(* of a preview, which is a part of its key and changes nothing else, is   *)
(* left out.  The job is closed through the job list: its files are        *)
(* removed when the worker is done (Job.tla, OneRemover).                  *)
(***************************************************************************)
EXTENDS Naturals, FiniteSets

CONSTANTS
    MaxPages,   \* bound: pages of the document
    DocIsPNG,   \* is the document a PNG file itself?
    Viewers,    \* goroutines in RESTGETJobsUUIDPreview
    Requests,   \* numbers of pages they are asked for, at least one
    MaxPreview, \* most pages a preview shows: 100 in the code
    Fits        \* images that fit into the 65535 lines of a JPEG at the width
                \*   that is asked for

ASSUME BoundAssumption ==
    /\ {MaxPages, MaxPreview, Fits} \subseteq Nat
    /\ Requests \subseteq Nat \ {0}
    /\ DocIsPNG \in BOOLEAN

Pages == 1 .. MaxPages

\* The names of a document that is a PNG file: "input.png" comes before
\* "output-1.png", and its own name here after it, as "photo.png" does.
Input    == 0
Original == MaxPages + 1

Images == Pages \union {Input, Original}

Walkers == {"worker", "refresher"}

VARIABLES
    stage,     \* Job.state
    step,      \* what the worker does next in it
    file,      \* each image in Job.Datadir: "absent", "partial", "whole", or
               \*   "zeroed" by scrub
    imgfiles,  \* Job.imgfiles: "unknown", "unseen" (false), "seen" (true)
    found,     \* the local variable imgfiles of each call of refreshDiskuse
    done,      \* the local variable done of waitForPdfToImages
    refresher, \* the goroutine it starts
    output,    \* the images named in output.txt
    removal,   \* scrub of the working directory: "none", "zero", "delete"
    previews,  \* Job.previews: the images in each preview, by its number of pages
    pc,        \* what each viewer does next
    numPages,  \* the number of pages of the preview it makes
    names,     \* the images it has yet to read
    images     \* those it could decode

workVars == <<stage, step, done, output>>
diskVars == <<file, removal>>
noteVars == <<imgfiles, found>>
viewVars == <<previews, pc, numPages, names, images>>
vars     == <<workVars, diskVars, noteVars, refresher, viewVars>>

Init ==
    /\ stage = "new"
    /\ step = "done"
    /\ file = [i \in Images |-> IF DocIsPNG /\ i = Original THEN "whole" ELSE "absent"]
    /\ imgfiles = [i \in Images |-> "unknown"]
    /\ found = [w \in Walkers |-> {}]
    /\ done = FALSE
    /\ refresher = "none"
    /\ output = {}
    /\ removal = "none"
    /\ previews = [n \in {} |-> {}]
    /\ pc = [v \in Viewers |-> "idle"]
    /\ numPages = [v \in Viewers |-> 0]
    /\ names = [v \in Viewers |-> {}]
    /\ images = [v \in Viewers |-> {}]

-----------------------------------------------------------------------------
(* Noting images                                                           *)

OnDisk == {i \in Images : file[i] # "absent"}

Known == {i \in Images : imgfiles[i] # "unknown"}

\* Mutation: images that are known already are marked unseen again.
NotedAnew(new) == [i \in Images |-> IF i \in new THEN "unseen" ELSE imgfiles[i]]

\* Only images that are not known yet are added.
Noted(new) ==
    [i \in Images |-> IF i \in new \ Known THEN "unseen" ELSE imgfiles[i]]

\* refreshDiskuse reads the directory without Job.mu ...
Walk(w) ==
    /\ found' = [found EXCEPT ![w] = OnDisk]
    /\ UNCHANGED imgfiles

\* ... and takes it to add what it has found.
Note(w) ==
    /\ imgfiles' = Noted(found[w])
    /\ found' = [found EXCEPT ![w] = {}]

-----------------------------------------------------------------------------
(* The worker                                                              *)

After == [new |-> "starting", starting |-> "download", download |-> "meta",
          meta |-> "language", language |-> "convert", convert |-> "render",
          render |-> "scan", scan |-> "ending", ending |-> "finished"]

Ended == {"finished", "failed"}

WorkerAt(st, s) == stage = st /\ step = s

\* transition: the state is set, refreshDiskuse is next.
Transition ==
    /\ stage \in DOMAIN After
    /\ step = "done"
    /\ stage' = After[stage]
    /\ step' = "walk"
    /\ UNCHANGED <<done, output, diskVars, noteVars, refresher, viewVars>>

WorkerWalks ==
    /\ step = "walk"
    /\ step' = "note"
    /\ Walk("worker")
    /\ UNCHANGED <<stage, done, output, diskVars, refresher, viewVars>>

\* After rendering, makeOutputTxt is next.
WorkerNotes ==
    /\ step = "note"
    /\ step' = IF done /\ stage = "render" THEN "list" ELSE "work"
    /\ Note("worker")
    /\ UNCHANGED <<stage, done, output, diskVars, refresher, viewVars>>

\* A stage that leaves the images alone.
OtherStage ==
    /\ step = "work"
    /\ stage \in {"starting", "download", "language", "ending"}
    /\ step' = "done"
    /\ UNCHANGED <<stage, done, output, diskVars, noteVars, refresher, viewVars>>

\* runExtractMeta, then renameDoc.
RenameDoc ==
    /\ WorkerAt("meta", "work")
    /\ step' = "done"
    /\ file' = [file EXCEPT ![Original] = "absent", ![Input] = file[Original]]
    /\ UNCHANGED <<stage, done, output, removal, noteVars, refresher, viewVars>>

\* LibreOffice has made input.pdf; the document is overwritten and deleted.
DocToPdf ==
    /\ WorkerAt("convert", "work")
    /\ IF file[Input] = "whole"
       THEN file' = [file EXCEPT ![Input] = "zeroed"] /\ UNCHANGED step
       ELSE file' = [file EXCEPT ![Input] = "absent"] /\ step' = "done"
    /\ UNCHANGED <<stage, done, output, removal, noteVars, refresher, viewVars>>

\* waitForPdfToImages starts its goroutine and pdftoppm.
StartRender ==
    /\ WorkerAt("render", "work")
    /\ step' = "rendering"
    /\ refresher' = "check"
    /\ UNCHANGED <<stage, done, output, diskVars, noteVars, viewVars>>

\* pdftoppm writes one page after the other.
WritePage(p) ==
    /\ step = "rendering"
    /\ \A q \in Pages : q < p => file[q] = "whole"
    /\ \/ file[p] = "absent" /\ file' = [file EXCEPT ![p] = "partial"]
       \/ file[p] = "partial" /\ file' = [file EXCEPT ![p] = "whole"]
    /\ UNCHANGED <<workVars, removal, noteVars, refresher, viewVars>>

\* Mutation: runPdfToImages makes the list without looking once more.
ListAtOnce == "list"

\* runPdfToImages calls refreshDiskuse before makeOutputTxt.
AfterRender == "walk"

\* pdftoppm is through with the document, which may be shorter than MaxPages.
RenderEnds ==
    /\ step = "rendering"
    /\ \A p \in Pages : file[p] # "partial"
    /\ done' = TRUE
    /\ step' = AfterRender
    /\ UNCHANGED <<stage, output, diskVars, noteVars, refresher, viewVars>>

\* makeOutputTxt
MakeOutputTxt ==
    /\ step = "list"
    /\ output' = Known
    /\ step' = "done"
    /\ UNCHANGED <<stage, done, diskVars, noteVars, refresher, viewVars>>

\* Tesseract names the images in the order of the list as it comes to them.
\* The handler marks the image.
Message(i) ==
    /\ WorkerAt("scan", "work")
    /\ i \in output
    /\ \A k \in output : k < i => imgfiles[k] = "seen" /\ file[k] = "whole"
    /\ imgfiles[i] = "unseen"
    /\ imgfiles' = [imgfiles EXCEPT ![i] = "seen"]
    /\ UNCHANGED <<workVars, diskVars, found, refresher, viewVars>>

\* It names an image it cannot read, because it is gone or for any other reason,
\* once more; the handler makes that an error, "file not found" or
\* ErrImageSeenTwice.
BadImage(i) ==
    /\ WorkerAt("scan", "work")
    /\ i \in output
    /\ imgfiles[i] = "seen"
    /\ stage' = "failed"
    /\ step' = "done"
    /\ UNCHANGED <<done, output, diskVars, noteVars, refresher, viewVars>>

\* Tesseract has read all images.  What runsc did not read of its messages by
\* then is lost (Runsc.tla).
ScanEnds ==
    /\ WorkerAt("scan", "work")
    /\ \A i \in output : file[i] = "whole"
    /\ step' = "done"
    /\ UNCHANGED <<stage, done, output, diskVars, noteVars, refresher, viewVars>>

\* The context is dead, or a container or a file operation fails.  The
\* deferred function of waitForPdfToImages runs in any case.
StageFails ==
    /\ stage \in DOMAIN After \ {"new"}
    /\ step \in {"work", "rendering", "list", "done"}
    /\ stage' = "failed"
    /\ step' = "done"
    /\ done' = (done \/ step = "rendering")
    /\ UNCHANGED <<output, diskVars, noteVars, refresher, viewVars>>

-----------------------------------------------------------------------------
(* The goroutine of waitForPdfToImages                                     *)

\* Mutation: there is no loop.
LooksOnce ==
    \/ refresher = "check" /\ refresher' = "sleep" /\ UNCHANGED noteVars
    \/ refresher = "sleep" /\ refresher' = "note" /\ Walk("refresher")
    \/ refresher = "note" /\ refresher' = "ended" /\ Note("refresher")

\* done is looked at before the sleep, so that one refresh may come late.
Looks ==
    \/ refresher = "check" /\ done /\ refresher' = "ended" /\ UNCHANGED noteVars
    \/ refresher = "check" /\ ~done /\ refresher' = "sleep" /\ UNCHANGED noteVars
    \/ refresher = "sleep" /\ refresher' = "note" /\ Walk("refresher")
    \/ refresher = "note" /\ refresher' = "check" /\ Note("refresher")

Refresh == Looks /\ UNCHANGED <<workVars, diskVars, viewVars>>

-----------------------------------------------------------------------------
(* Removal, once the worker has ended                                      *)

\* scrub overwrites the files in the order of their names and then deletes
\* them in that order.
Scrub ==
    /\ stage \in Ended
    /\ \/ removal = "none" /\ removal' = "zero" /\ UNCHANGED file
       \/ /\ removal = "zero"
          /\ \E i \in Images :
                /\ file[i] \in {"partial", "whole"}
                /\ \A k \in Images : k < i => file[k] \notin {"partial", "whole"}
                /\ file' = [file EXCEPT ![i] = "zeroed"]
          /\ UNCHANGED removal
       \/ /\ removal = "zero"
          /\ \A i \in Images : file[i] \in {"zeroed", "absent"}
          /\ removal' = "delete"
          /\ UNCHANGED file
       \/ /\ removal = "delete"
          /\ \E i \in Images :
                /\ file[i] # "absent"
                /\ \A k \in Images : k < i => file[k] = "absent"
                /\ file' = [file EXCEPT ![i] = "absent"]
          /\ UNCHANGED removal
    /\ UNCHANGED <<workVars, noteVars, refresher, viewVars>>

-----------------------------------------------------------------------------
(* Viewers                                                                 *)

Least(S) == CHOOSE i \in S : \A k \in S : i <= k

\* Mutation: the names are not sorted; the map hands out the last ones.
LastOf(n, S) == {i \in S : Cardinality({k \in S : k > i}) < n}

\* The first n names, sorted.
FirstOf(n, S) == {i \in S : Cardinality({k \in S : k < i}) < n}

\* Mutation: as many pages as are asked for, however many there are.
AsAsked(m, n) == n

AtMost(m, n) == IF m < n THEN m ELSE n

\* RESTGETJobsUUIDPreview finds the job and looks at its state: it answers 202
\* for a new job and 410 for one that failed, else it goes on.
Ask(v) ==
    /\ pc[v] = "idle"
    /\ removal = "none"
    /\ stage \notin {"new", "failed"}
    /\ pc' = [pc EXCEPT ![v] = "take"]
    /\ UNCHANGED <<workVars, diskVars, noteVars, refresher, previews, numPages,
                   names, images>>

\* The first section of Preview under Job.mu, for a request of n pages: a
\* preview that is cached is the answer, otherwise the names of the images are
\* taken.
TakeNames(v, n) ==
    /\ pc[v] = "take"
    /\ LET clipped == AtMost(AtMost(MaxPreview, Cardinality(Known)), n) IN
       IF clipped > 0 /\ clipped \in DOMAIN previews
       THEN /\ pc' = [pc EXCEPT ![v] = "idle"]
            /\ UNCHANGED <<numPages, names>>
       ELSE /\ pc' = [pc EXCEPT ![v] = "read"]
            /\ numPages' = [numPages EXCEPT ![v] = clipped]
            /\ names' = [names EXCEPT ![v] = FirstOf(clipped, Known)]
    /\ UNCHANGED <<workVars, diskVars, noteVars, refresher, previews, images>>

\* The viewer is answered and forgets its local variables.
Answered(v) ==
    /\ pc' = [pc EXCEPT ![v] = "idle"]
    /\ numPages' = [numPages EXCEPT ![v] = 0]
    /\ names' = [names EXCEPT ![v] = {}]
    /\ images' = [images EXCEPT ![v] = {}]

\* The next image is opened and decoded.  One that is gone makes it answer
\* 500; one that does not decode is left out of the preview.
ReadImage(v) ==
    /\ pc[v] = "read"
    /\ names[v] # {}
    /\ LET i == Least(names[v]) IN
       IF file[i] = "absent"
       THEN Answered(v)
       ELSE /\ names' = [names EXCEPT ![v] = @ \ {i}]
            /\ images' = [images EXCEPT ![v] =
                             IF file[i] = "whole" THEN @ \union {i} ELSE @]
            /\ UNCHANGED <<pc, numPages>>
    /\ UNCHANGED <<workVars, diskVars, noteVars, refresher, previews>>

\* The preview is encoded and cached.  One too high for a JPEG is answered
\* with 500.  Without images it is empty, and is sent all the same.
Store(v) ==
    /\ pc[v] = "read"
    /\ names[v] = {}
    /\ previews' =
          IF Cardinality(images[v]) <= Fits
          THEN [n \in DOMAIN previews \union {numPages[v]} |->
                   IF n = numPages[v] THEN images[v] ELSE previews[n]]
          ELSE previews
    /\ Answered(v)
    /\ UNCHANGED <<workVars, diskVars, noteVars, refresher>>

-----------------------------------------------------------------------------
Work ==
    \/ Transition \/ WorkerWalks \/ WorkerNotes \/ OtherStage \/ RenameDoc
    \/ DocToPdf \/ StartRender \/ RenderEnds \/ MakeOutputTxt \/ ScanEnds
    \/ StageFails
    \/ \E i \in Images : Message(i) \/ BadImage(i)

Next ==
    \/ Work
    \/ \E p \in Pages : WritePage(p)
    \/ Refresh
    \/ Scrub
    \/ \E v \in Viewers :
          \/ Ask(v)
          \/ \E n \in Requests : TakeNames(v, n)
          \/ ReadImage(v) \/ Store(v)

SafeSpec == Init /\ [][Next]_vars

\* The goroutine that refreshes is scheduled.  Nothing says how long a stage
\* takes, nobody has to ask for a preview, and a job may be kept for good.
Spec == SafeSpec /\ WF_vars(Refresh)

-----------------------------------------------------------------------------
(* Properties                                                              *)

\* Every variable stays in its range.
TypeOK ==
    /\ stage \in DOMAIN After \union Ended
    /\ step \in {"walk", "note", "work", "rendering", "list", "done"}
    /\ file \in [Images -> {"absent", "partial", "whole", "zeroed"}]
    /\ imgfiles \in [Images -> {"unknown", "unseen", "seen"}]
    /\ found \in [Walkers -> SUBSET Images]
    /\ done \in BOOLEAN
    /\ refresher \in {"none", "check", "sleep", "note", "ended"}
    /\ output \in SUBSET Images
    /\ removal \in {"none", "zero", "delete"}
    /\ DOMAIN previews \subseteq 0 .. MaxPreview
    /\ previews \in [DOMAIN previews -> SUBSET Images]
    /\ pc \in [Viewers -> {"idle", "take", "read"}]
    /\ numPages \in [Viewers -> Nat]
    /\ names \in [Viewers -> SUBSET Images]
    /\ images \in [Viewers -> SUBSET Images]

\* What tesseract is given is what pdftoppm made of the document, every page
\* of it and nothing else, however the directory was walked meanwhile
\* (jobprocess.go:331-351, README.md:79-83).
OutputIsPages ==
    stage \in {"scan", "ending"} => output = {p \in Pages : file[p] = "whole"}

\* A preview of n pages shows the first n of the document, in spite of pages
\* that are rendered and noted while it is made.  It lacks the last one at
\* most, which was still being written when the names were taken; as long as
\* the files are not being removed (jobpreview.go:20-77, job.go:266-291).
PreviewLacksLastAtMost ==
    removal = "none" /\ ~DocIsPNG =>
        \A n \in DOMAIN previews :
            previews[n] \subseteq 1 .. n /\ 1 .. (n - 1) \subseteq previews[n]

\* An image is never forgotten, and one tesseract has named is not taken for
\* one it has not, though both goroutines that note images do so with lists
\* from before (job.go:281-288, jobprocess.go:374-389).
NotesAreKept ==
    [][\A i \in Images :
          /\ imgfiles[i] = "seen" => imgfiles'[i] = "seen"
          /\ imgfiles[i] = "unseen" => imgfiles'[i] # "unknown"]_vars

\* Every page is noted while pdftoppm still runs, if that goes on for long
\* enough: it is all the progress the watchdog sees of it
\* (jobprocess.go:319-329, job.go:281-288).
PagesAreNoted ==
    \A p \in Pages :
        file[p] = "whole" ~> imgfiles[p] # "unknown" \/ step # "rendering"

=============================================================================
