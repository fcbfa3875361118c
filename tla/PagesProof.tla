----------------------------- MODULE PagesProof -----------------------------
(***************************************************************************)
(* Proofs about Pages, for documents of any length, any viewers and any    *)
(* requests.                                                               *)
(***************************************************************************)
EXTENDS Pages, FiniteSetTheorems, WellFoundedInduction, TLAPS

\* Previews have no more pages than MaxPreview, whoever makes them.
TypeInv ==
    /\ TypeOK
    /\ \A v \in Viewers : numPages[v] <= MaxPreview

\* Where the worker is in waitForPdfToImages and runPdfToImages, and what it
\* made of it.
StageInv ==
    /\ removal # "none" => stage \in Ended
    /\ step = "rendering" => stage = "render" /\ ~done
    /\ step = "list" => stage = "render" /\ done
    /\ stage = "render" /\ step = "work" => ~done
    /\ stage = "render" /\ step = "done" => done
    /\ stage \in {"scan", "ending"} => done
    /\ stage \in {"new", "starting", "download", "meta", "language", "convert"} => ~done

\* Without a PNG file for a document there are no images but pages.  They come
\* in order, and all but the last one are whole.
DiskInv ==
    removal = "none" =>
        /\ OnDisk \subseteq Pages
        /\ \A p, q \in Pages : q < p /\ file[p] # "absent" => file[q] = "whole"
        /\ \A p \in Pages : file[p] # "zeroed"
        /\ done /\ stage \notin Ended => \A p \in Pages : file[p] # "partial"

\* A list of images from before: what it has is still there, and it has no gap.
Past(S) ==
    /\ S \subseteq OnDisk
    /\ \A p \in S : \A q \in Pages : q < p => q \in S

NoteInv ==
    removal = "none" => Past(Known) /\ \A w \in Walkers : Past(found[w])

\* What the worker knows when it makes the list.
OutputInv ==
    /\ stage = "render" /\ step = "note" /\ done => OnDisk \subseteq found["worker"]
    /\ step = "list" => OnDisk \subseteq Known
    /\ (stage = "render" /\ step = "done") \/ stage \in {"scan", "ending"} =>
           output = {p \in Pages : file[p] = "whole"}

\* Viewer v has the first pages in its hands, but for the last one if that was
\* not whole when it came to it.
InHand(v) ==
    /\ numPages[v] # 0 => numPages[v] \in OnDisk
    /\ names[v] \union images[v] \subseteq 1 .. numPages[v]
    /\ 1 .. (numPages[v] - 1) \subseteq names[v] \union images[v]

ViewerInv ==
    \A v \in Viewers :
        IF pc[v] = "read"
        THEN removal = "none" => InHand(v)
        ELSE names[v] = {} /\ images[v] = {}

PagesInv ==
    /\ TypeInv /\ StageInv /\ DiskInv /\ NoteInv /\ OutputInv /\ ViewerInv
    /\ PreviewLacksLastAtMost

-----------------------------------------------------------------------------
(* Images, names and lists                                                 *)

\* Pages are natural numbers, and the names of a PNG document are no pages.
LEMMA ImageFacts ==
    /\ Pages \subseteq Nat \ {0} /\ Images \subseteq Nat /\ Pages \subseteq Images
    /\ Input \in Images \ Pages /\ Original \in Images \ Pages /\ Input # Original
    /\ MaxPages \in Nat /\ MaxPreview \in Nat /\ Fits \in Nat
    /\ \A p \in Pages : p <= MaxPages
    /\ \A p, q \in Nat : p \in Pages /\ 0 < q /\ q < p => q \in Pages
BY BoundAssumption DEF Pages, Images, Input, Original

LEMMA ImagesAreFinite ==
    ASSUME NEW S \in SUBSET Images
    PROVE  IsFiniteSet(S) /\ Cardinality(S) \in Nat
<1>1. IsFiniteSet(0 .. MaxPages + 1)
      BY BoundAssumption, FS_Interval
<1>2. S \subseteq 0 .. MaxPages + 1
      BY BoundAssumption DEF Images, Pages, Input, Original
<1> QED
    BY <1>1, <1>2, FS_Subset, FS_CardinalityType

\* Least picks one of the names.
LEMMA LeastIsOne ==
    ASSUME NEW S \in SUBSET Nat, S # {}
    PROVE  Least(S) \in S
<1>1. PICK i \in S : \A k \in S : ~ (<<k, i>> \in OpToRel(<, Nat))
      BY NatLessThanWellFounded, WFMin
<1>2. ASSUME NEW k \in S, k < i PROVE <<k, i>> \in OpToRel(<, Nat)
  <2>1. <<k, i>> \in Nat \X Nat /\ <<k, i>>[1] = k /\ <<k, i>>[2] = i
        OBVIOUS
  <2> QED
      BY <1>2, <2>1 DEF OpToRel
<1>3. \A k \in S : ~ (k < i)
      BY <1>1, <1>2, Zenon
<1>4. \A k \in S : i <= k
      BY <1>3
<1> QED
    BY <1>4 DEF Least

\* The first n names of a list without a gap are the first n pages.
LEMMA FirstPages ==
    ASSUME NEW S \in SUBSET Pages, \A p \in S : \A q \in Pages : q < p => q \in S,
           NEW n \in Nat, n <= Cardinality(S)
    PROVE  FirstOf(n, S) = 1 .. n /\ (n # 0 => n \in S)
<1>1. IsFiniteSet(S) /\ Cardinality(S) \in Nat
      BY ImagesAreFinite, ImageFacts
<1>2. ASSUME NEW i \in S
      PROVE  {k \in S : k < i} = 1 .. (i - 1) /\ Cardinality({k \in S : k < i}) = i - 1
  <2>1. i \in Nat \ {0} /\ S \subseteq Nat \ {0}
        BY ImageFacts
  <2>2. {k \in S : k < i} = 1 .. (i - 1)
    <3>1. \A k \in 1 .. (i - 1) : k \in Nat /\ 0 < k /\ k < i
          BY <2>1
    <3>2. \A k \in 1 .. (i - 1) : k \in S
          BY <2>1, <3>1, ImageFacts
    <3>3. \A k \in S : k < i => k \in 1 .. (i - 1)
          BY <2>1
    <3> QED
        BY <3>1, <3>2, <3>3
  <2>3. Cardinality(1 .. (i - 1)) = i - 1
        BY <2>1, FS_Interval
  <2> QED
      BY <2>2, <2>3
<1>3. \A k \in 1 .. n : k \in S
  <2> SUFFICES ASSUME NEW k \in 1 .. n, k \notin S
               PROVE  FALSE
      OBVIOUS
  <2>1. S \subseteq 1 .. (k - 1)
    <3> SUFFICES ASSUME NEW i \in S, k <= i
                 PROVE  FALSE
        BY ImageFacts
    <3>1. i # k /\ i \in Nat /\ k \in Nat /\ 0 < k
          BY ImageFacts
    <3>2. k < i /\ k \in Pages
          BY <3>1, ImageFacts
    <3> QED
        BY <3>2
  <2>2. IsFiniteSet(1 .. (k - 1)) /\ Cardinality(1 .. (k - 1)) = k - 1
        BY FS_Interval
  <2>3. Cardinality(S) <= k - 1
        BY <2>1, <2>2, FS_Subset
  <2> QED
      BY <1>1, <2>3
<1>4. FirstOf(n, S) \subseteq 1 .. n
  <2> SUFFICES ASSUME NEW i \in S, Cardinality({k \in S : k < i}) < n
               PROVE  i \in 1 .. n
      BY DEF FirstOf
  <2>1. i - 1 < n /\ i \in Nat \ {0}
        BY <1>2, ImageFacts
  <2> QED
      BY <2>1
<1>5. 1 .. n \subseteq FirstOf(n, S)
  <2> SUFFICES ASSUME NEW i \in 1 .. n
               PROVE  i \in FirstOf(n, S)
      OBVIOUS
  <2>1. i \in S
        BY <1>3
  <2>2. Cardinality({k \in S : k < i}) < n
        BY <1>2, <2>1
  <2> QED
      BY <2>1, <2>2 DEF FirstOf
<1>6. n # 0 => n \in S
      BY <1>3
<1> QED
    BY <1>4, <1>5, <1>6

-----------------------------------------------------------------------------
(* Ranges and stages                                                       *)

\* What can be known, and a clipped number of pages.
LEMMA ClippedFacts ==
    ASSUME TypeOK, NEW n \in Requests
    PROVE  /\ Known \in SUBSET Images /\ Cardinality(Known) \in Nat
           /\ LET clipped == AtMost(AtMost(MaxPreview, Cardinality(Known)), n)
              IN  clipped \in 0 .. MaxPreview /\ clipped <= Cardinality(Known)
<1>1. Known \in SUBSET Images
      BY DEF Known
<1>2. Cardinality(Known) \in Nat
      BY <1>1, ImagesAreFinite
<1> QED
    BY <1>1, <1>2, BoundAssumption DEF AtMost

\* Every step keeps the variables in their ranges.
LEMMA TypeStep ==
    TypeInv /\ [Next]_vars => TypeInv'
<1> SUFFICES ASSUME TypeInv, [Next]_vars PROVE TypeInv'
    OBVIOUS
<1> USE ImageFacts DEF TypeInv, TypeOK, After, Ended, Walkers, workVars, diskVars, noteVars,
                       viewVars
<1>1. CASE Transition
      BY <1>1 DEF Transition
<1>2. CASE WorkerWalks
      BY <1>2 DEF WorkerWalks, Walk, OnDisk
<1>3. CASE WorkerNotes
      BY <1>3 DEF WorkerNotes, Note, Noted
<1>4. CASE OtherStage
      BY <1>4 DEF OtherStage
<1>5. CASE RenameDoc
      BY <1>5 DEF RenameDoc
<1>6. CASE DocToPdf
      BY <1>6 DEF DocToPdf
<1>7. CASE StartRender
      BY <1>7 DEF StartRender
<1>8. CASE RenderEnds
      BY <1>8 DEF RenderEnds, AfterRender
<1>9. CASE MakeOutputTxt
      BY <1>9 DEF MakeOutputTxt, Known
<1>10. CASE ScanEnds
       BY <1>10 DEF ScanEnds
<1>11. CASE StageFails
       BY <1>11 DEF StageFails
<1>12. ASSUME NEW i \in Images, Message(i) PROVE TypeInv'
       BY <1>12 DEF Message
<1>13. ASSUME NEW i \in Images, BadImage(i) PROVE TypeInv'
       BY <1>13 DEF BadImage
<1>14. ASSUME NEW p \in Pages, WritePage(p) PROVE TypeInv'
       BY <1>14 DEF WritePage
<1>15. CASE Refresh
       BY <1>15 DEF Refresh, Looks, Walk, Note, Noted, OnDisk
<1>16. CASE Scrub
       BY <1>16 DEF Scrub
<1>17. ASSUME NEW v \in Viewers, Ask(v) PROVE TypeInv'
       BY <1>17 DEF Ask
<1>18. ASSUME NEW v \in Viewers, NEW n \in Requests, TakeNames(v, n) PROVE TypeInv'
  <2> DEFINE clipped == AtMost(AtMost(MaxPreview, Cardinality(Known)), n)
  <2>1. clipped \in 0 .. MaxPreview /\ FirstOf(clipped, Known) \in SUBSET Images
        BY ClippedFacts DEF FirstOf
  <2> HIDE DEF clipped
  <2>2. \/ pc' = [pc EXCEPT ![v] = "idle"] /\ UNCHANGED <<numPages, names>>
        \/ /\ pc' = [pc EXCEPT ![v] = "read"]
           /\ numPages' = [numPages EXCEPT ![v] = clipped]
           /\ names' = [names EXCEPT ![v] = FirstOf(clipped, Known)]
        BY <1>18 DEF TakeNames, clipped
  <2>3. UNCHANGED <<workVars, diskVars, noteVars, refresher, previews, images>>
        BY <1>18 DEF TakeNames
  <2> QED
      BY <2>1, <2>2, <2>3
<1>19. ASSUME NEW v \in Viewers, ReadImage(v) PROVE TypeInv'
  <2>1. Least(names[v]) \in Images
        BY <1>19, LeastIsOne DEF ReadImage
  <2> QED
      BY <1>19, <2>1 DEF ReadImage, Answered
<1>20. ASSUME NEW v \in Viewers, Store(v) PROVE TypeInv'
       BY <1>20 DEF Store, Answered
<1>21. CASE UNCHANGED vars
       BY <1>21 DEF vars
<1> QED
    BY <1>1, <1>2, <1>3, <1>4, <1>5, <1>6, <1>7, <1>8, <1>9, <1>10, <1>11, <1>12, <1>13,
       <1>14, <1>15, <1>16, <1>17, <1>18, <1>19, <1>20, <1>21 DEF Next, Work

\* Every step keeps to the order in which the worker does its work.
LEMMA StageStep ==
    TypeInv /\ StageInv /\ [Next]_vars => StageInv'
<1> SUFFICES ASSUME TypeInv, StageInv, [Next]_vars PROVE StageInv'
    OBVIOUS
<1> USE DEF TypeInv, TypeOK, StageInv, After, Ended, WorkerAt, workVars, diskVars
<1>1. CASE Transition
      BY <1>1 DEF Transition
<1>2. CASE WorkerWalks
      BY <1>2 DEF WorkerWalks
<1>3. CASE WorkerNotes
      BY <1>3 DEF WorkerNotes
<1>4. CASE OtherStage
      BY <1>4 DEF OtherStage
<1>5. CASE RenameDoc
      BY <1>5 DEF RenameDoc
<1>6. CASE DocToPdf
      BY <1>6 DEF DocToPdf
<1>7. CASE StartRender
      BY <1>7 DEF StartRender
<1>8. CASE RenderEnds
      BY <1>8 DEF RenderEnds, AfterRender
<1>9. CASE MakeOutputTxt
      BY <1>9 DEF MakeOutputTxt
<1>10. CASE ScanEnds
       BY <1>10 DEF ScanEnds
<1>11. CASE StageFails
       BY <1>11 DEF StageFails
<1>12. ASSUME NEW i \in Images, Message(i) \/ BadImage(i) PROVE StageInv'
       BY <1>12 DEF Message, BadImage
<1>13. ASSUME NEW p \in Pages, WritePage(p) PROVE StageInv'
       BY <1>13 DEF WritePage
<1>14. CASE Refresh
       BY <1>14 DEF Refresh
<1>15. CASE Scrub
       BY <1>15 DEF Scrub
<1>16. ASSUME NEW v \in Viewers,
              Ask(v) \/ (\E n \in Requests : TakeNames(v, n)) \/ ReadImage(v) \/ Store(v)
       PROVE  StageInv'
       BY <1>16 DEF Ask, TakeNames, ReadImage, Store
<1>17. CASE UNCHANGED vars
       BY <1>17 DEF vars
<1> QED
    BY <1>1, <1>2, <1>3, <1>4, <1>5, <1>6, <1>7, <1>8, <1>9, <1>10, <1>11, <1>12, <1>13,
       <1>14, <1>15, <1>16, <1>17 DEF Next, Work

-----------------------------------------------------------------------------
(* The directory                                                           *)

\* Until the files are removed, pdftoppm alone changes the directory of a job
\* whose document is not a PNG file.
LEMMA FilesGrow ==
    ASSUME ~DocIsPNG, TypeInv, StageInv, DiskInv, [Next]_vars, removal' = "none"
    PROVE  /\ removal = "none"
           /\ UNCHANGED file \/ \E p \in Pages : WritePage(p)
           /\ OnDisk \subseteq OnDisk'
<1>1. removal = "none"
  <2>1. CASE Scrub
        BY <2>1 DEF Scrub
  <2>2. CASE UNCHANGED removal
        BY <2>2
  <2> QED
      BY <2>1, <2>2 DEF Next, Work, Transition, WorkerWalks, WorkerNotes, OtherStage, RenameDoc,
         DocToPdf, StartRender, RenderEnds, MakeOutputTxt, ScanEnds, StageFails, Message,
         BadImage, WritePage, Refresh, Ask, TakeNames, ReadImage, Store, diskVars, vars
<1>2. file[Input] = "absent" /\ file[Original] = "absent"
      BY <1>1, ImageFacts DEF DiskInv, OnDisk
<1>3. file \in [Images -> {"absent", "partial", "whole", "zeroed"}]
      BY DEF TypeInv, TypeOK
<1>4. CASE RenameDoc
  <2>1. file' = [file EXCEPT ![Original] = "absent", ![Input] = "absent"]
        BY <1>2, <1>4 DEF RenameDoc
  <2> QED
      BY <1>1, <1>2, <1>3, <2>1, ImageFacts DEF OnDisk
<1>5. CASE DocToPdf
  <2>1. file' = [file EXCEPT ![Input] = "absent"]
        BY <1>2, <1>5 DEF DocToPdf
  <2> QED
      BY <1>1, <1>2, <1>3, <2>1, ImageFacts DEF OnDisk
<1>6. ASSUME NEW p \in Pages, WritePage(p)
      PROVE  OnDisk \subseteq OnDisk'
      BY <1>3, <1>6, ImageFacts DEF WritePage, OnDisk
<1>7. CASE Scrub
      BY <1>1, <1>7 DEF Scrub, OnDisk, StageInv
<1>8. CASE UNCHANGED file
      BY <1>1, <1>8 DEF OnDisk
<1> QED
    BY <1>1, <1>4, <1>5, <1>6, <1>7, <1>8 DEF Next, Work, Transition, WorkerWalks, WorkerNotes,
       OtherStage, StartRender, RenderEnds, MakeOutputTxt, ScanEnds, StageFails, Message,
       BadImage, Refresh, Ask, TakeNames, ReadImage, Store, diskVars, vars

\* Pages come in order, and none is being written when pdftoppm is through.
LEMMA DiskStep ==
    ASSUME ~DocIsPNG, TypeInv, StageInv, DiskInv, [Next]_vars
    PROVE  DiskInv'
<1> SUFFICES ASSUME removal' = "none"
             PROVE  /\ OnDisk' \subseteq Pages
                    /\ \A p, q \in Pages :
                           q < p /\ file'[p] # "absent" => file'[q] = "whole"
                    /\ \A p \in Pages : file'[p] # "zeroed"
                    /\ done' /\ stage' \notin Ended => \A p \in Pages : file'[p] # "partial"
    BY DEF DiskInv
<1>1. /\ OnDisk \subseteq Pages
      /\ \A p, q \in Pages : q < p /\ file[p] # "absent" => file[q] = "whole"
      /\ \A p \in Pages : file[p] # "zeroed"
      /\ done /\ stage \notin Ended => \A p \in Pages : file[p] # "partial"
      BY FilesGrow DEF DiskInv
<1>2. CASE UNCHANGED file
  <2>1. CASE RenderEnds
        BY <1>1, <1>2, <2>1 DEF RenderEnds, OnDisk
  <2>2. CASE (done' => done) /\ (stage \in Ended => stage' \in Ended)
        BY <1>1, <1>2, <2>2 DEF OnDisk
  <2>3. CASE StageFails
        BY <1>1, <1>2, <2>3 DEF StageFails, OnDisk, Ended
  <2>4. RenderEnds \/ StageFails \/ ((done' => done) /\ (stage \in Ended => stage' \in Ended))
        BY DEF Next, Work, Transition, WorkerWalks, WorkerNotes, OtherStage, RenameDoc, DocToPdf,
           StartRender, MakeOutputTxt, ScanEnds, Message, BadImage, WritePage, Refresh, Scrub,
           Ask, TakeNames, ReadImage, Store, workVars, vars, After, Ended
  <2> QED
      BY <2>1, <2>2, <2>3, <2>4
<1>3. ASSUME NEW p \in Pages, WritePage(p)
      PROVE  /\ OnDisk' \subseteq Pages
             /\ \A r, q \in Pages : q < r /\ file'[r] # "absent" => file'[q] = "whole"
             /\ \A r \in Pages : file'[r] # "zeroed"
             /\ ~done'
  <2>1. /\ \A q \in Pages : q < p => file[q] = "whole"
        /\ \/ file[p] = "absent" /\ file' = [file EXCEPT ![p] = "partial"]
           \/ file[p] = "partial" /\ file' = [file EXCEPT ![p] = "whole"]
        /\ step = "rendering" /\ UNCHANGED done
        BY <1>3 DEF WritePage, workVars
  <2>2. file \in [Images -> {"absent", "partial", "whole", "zeroed"}] /\ p \in Images
        BY ImageFacts DEF TypeInv, TypeOK
  <2>3. \A i \in Images : i # p => file'[i] = file[i]
        BY <2>1, <2>2
  <2>4. file'[p] \in {"partial", "whole"} /\ file[p] # "whole"
        BY <2>1, <2>2
  <2>5. OnDisk' \subseteq Pages
        BY <1>1, <2>3 DEF OnDisk
  <2>6. ASSUME NEW r \in Pages, NEW q \in Pages, q < r, file'[r] # "absent"
        PROVE  file'[q] = "whole"
    <3>1. q \in Images /\ r \in Images /\ q \in Nat /\ r \in Nat /\ p \in Nat
          BY ImageFacts
    <3>2. CASE r = p
          BY <2>1, <2>3, <2>6, <3>1, <3>2
    <3>3. CASE r # p
      <4>1. file[r] # "absent"
            BY <2>3, <2>6, <3>1, <3>3
      <4>2. file[q] = "whole"
            BY <1>1, <2>6, <4>1
      <4> QED
          BY <2>3, <2>4, <3>1, <4>2
    <3> QED
        BY <3>2, <3>3
  <2>7. \A r \in Pages : file'[r] # "zeroed"
        BY <1>1, <2>3, <2>4, ImageFacts
  <2>8. ~done'
        BY <2>1 DEF StageInv
  <2> QED
      BY <2>5, <2>6, <2>7, <2>8
<1> QED
    BY <1>2, <1>3, FilesGrow

-----------------------------------------------------------------------------
(* Lists of images                                                         *)

\* The directory as it is has no gap.
LEMMA DirectoryIsPast ==
    ASSUME DiskInv, removal = "none"
    PROVE  Past(OnDisk)
<1>1. ASSUME NEW p \in OnDisk, NEW q \in Pages, q < p
      PROVE  q \in OnDisk
  <2>1. p \in Pages /\ file[p] # "absent"
        BY DEF DiskInv, OnDisk
  <2>2. file[q] = "whole"
        BY <1>1, <2>1 DEF DiskInv
  <2> QED
      BY <2>2, ImageFacts DEF OnDisk
<1> QED
    BY <1>1 DEF Past

\* Whoever notes images adds what it has found to what is known.
LEMMA NoteFacts ==
    ASSUME TypeOK, NEW w \in Walkers, Note(w)
    PROVE  /\ Known' = Known \union found[w]
           /\ found'[w] = {}
           /\ \A x \in Walkers : x # w => found'[x] = found[x]
BY DEF TypeOK, Note, Noted, Known

\* Whoever walks the directory finds what there is.
LEMMA WalkFacts ==
    ASSUME TypeOK, NEW w \in Walkers, Walk(w)
    PROVE  /\ Known' = Known
           /\ found'[w] = OnDisk
           /\ \A x \in Walkers : x # w => found'[x] = found[x]
BY DEF TypeOK, Walk, Known

\* Images are noted in these ways only.
LEMMA Notes ==
    ASSUME TypeOK, [Next]_vars
    PROVE  \/ Known' = Known /\ UNCHANGED found
           \/ \E w \in Walkers : Walk(w) \/ Note(w)
<1>1. CASE UNCHANGED noteVars
      BY <1>1 DEF noteVars, Known
<1>2. ASSUME NEW i \in Images, Message(i)
      PROVE  Known' = Known /\ UNCHANGED found
      BY <1>2 DEF Message, Known, TypeOK
<1>3. CASE WorkerWalks \/ WorkerNotes
      BY <1>3 DEF WorkerWalks, WorkerNotes, Walkers
<1>4. CASE Refresh
  <2>1. UNCHANGED noteVars \/ Walk("refresher") \/ Note("refresher")
        BY <1>4 DEF Refresh, Looks
  <2> QED
      BY <1>1, <2>1 DEF Walkers
<1> QED
    BY <1>1, <1>2, <1>3, <1>4 DEF Next, Work, Transition, OtherStage, RenameDoc, DocToPdf,
       StartRender, RenderEnds, MakeOutputTxt, ScanEnds, StageFails, BadImage, WritePage, Scrub,
       Ask, TakeNames, ReadImage, Store, vars

\* What is known, or will be noted, is on disk and has no gap.
LEMMA NoteStep ==
    ASSUME ~DocIsPNG, TypeInv, StageInv, DiskInv, NoteInv, [Next]_vars
    PROVE  NoteInv'
<1> SUFFICES ASSUME removal' = "none"
             PROVE  Past(Known)' /\ \A w \in Walkers : Past(found[w])'
    BY DEF NoteInv
<1>1. Past(Known) /\ (\A w \in Walkers : Past(found[w])) /\ Past(OnDisk) /\ Past({})
      BY DirectoryIsPast, FilesGrow DEF NoteInv, Past
<1>2. OnDisk \subseteq OnDisk'
      BY FilesGrow
<1>3. TypeOK
      BY DEF TypeInv
<1>4. CASE Known' = Known /\ UNCHANGED found
      BY <1>1, <1>2, <1>4 DEF Past
<1>5. ASSUME NEW w \in Walkers, Walk(w)
      PROVE  Past(Known)' /\ \A x \in Walkers : Past(found[x])'
  <2>1. Known' = Known /\ \A x \in Walkers : found'[x] = OnDisk \/ found'[x] = found[x]
        BY <1>3, <1>5, WalkFacts
  <2> QED
      BY <1>1, <1>2, <2>1 DEF Past
<1>6. ASSUME NEW w \in Walkers, Note(w)
      PROVE  Past(Known)' /\ \A x \in Walkers : Past(found[x])'
  <2>1. /\ Known' = Known \union found[w]
        /\ \A x \in Walkers : found'[x] = {} \/ found'[x] = found[x]
        BY <1>3, <1>6, NoteFacts
  <2>2. Past(Known)'
        BY <1>1, <1>2, <2>1 DEF Past
  <2>3. \A x \in Walkers : Past(found[x])'
        BY <1>1, <1>2, <2>1 DEF Past
  <2> QED
      BY <2>2, <2>3
<1> QED
    BY <1>3, <1>4, <1>5, <1>6, Notes

-----------------------------------------------------------------------------
(* The list for tesseract                                                  *)

\* Every step but those of the worker after pdftoppm leaves what it knows alone.
LEMMA OutputStep ==
    ASSUME ~DocIsPNG, TypeInv, StageInv, DiskInv, NoteInv, OutputInv, [Next]_vars
    PROVE  OutputInv'
<1> USE DEF TypeInv, StageInv, OutputInv, Ended
<1>1. TypeOK /\ (stage \notin {"finished", "failed"} => removal = "none")
      BY DEF TypeOK
<1>2. ASSUME NEW w \in Walkers, Note(w), OnDisk \subseteq Known
      PROVE  OnDisk \subseteq Known'
      BY <1>1, <1>2, NoteFacts
<1>3. CASE Transition
      BY <1>3 DEF Transition, After, TypeOK, diskVars, noteVars, OnDisk, Known
<1>4. CASE WorkerWalks
  <2>1. found'["worker"] = OnDisk
        BY <1>1, <1>4, WalkFacts DEF WorkerWalks, Walkers
  <2> QED
      BY <1>4, <2>1 DEF WorkerWalks, diskVars, OnDisk
<1>5. CASE WorkerNotes
  <2>1. Known' = Known \union found["worker"]
        BY <1>1, <1>5, NoteFacts DEF WorkerNotes, Walkers
  <2>2. UNCHANGED <<stage, done, output, file>> /\ OnDisk' = OnDisk
        BY <1>5 DEF WorkerNotes, diskVars, OnDisk
  <2>3. step = "note" /\ step' = IF done /\ stage = "render" THEN "list" ELSE "work"
        BY <1>5 DEF WorkerNotes
  <2> QED
      BY <2>1, <2>2, <2>3
<1>6. CASE OtherStage \/ RenameDoc \/ DocToPdf \/ StartRender \/ ScanEnds
  <2>1. /\ UNCHANGED <<stage, done, output, imgfiles>>
        /\ step \notin {"note", "list"} /\ step' \notin {"note", "list"}
        /\ stage = "render" => step' # "done"
        BY <1>6 DEF OtherStage, RenameDoc, DocToPdf, StartRender, ScanEnds, WorkerAt, noteVars
  <2>2. stage \in {"scan", "ending"} => UNCHANGED file
        BY <1>6 DEF OtherStage, RenameDoc, DocToPdf, StartRender, ScanEnds, WorkerAt, diskVars
  <2> QED
      BY <2>1, <2>2
<1>7. CASE RenderEnds
      BY <1>7 DEF RenderEnds, AfterRender
<1>8. CASE MakeOutputTxt
  <2>1. removal = "none" /\ done /\ step = "list" /\ stage = "render"
        BY <1>1, <1>8 DEF MakeOutputTxt
  <2>2. Known = OnDisk
        BY <2>1 DEF NoteInv, Past
  <2>3. OnDisk = {p \in Pages : file[p] = "whole"}
    <3>1. \A p \in Pages : p \in Images /\ file[p] \in {"absent", "whole"}
          BY <1>1, <2>1, ImageFacts DEF DiskInv, TypeOK
    <3>2. OnDisk \subseteq Pages
          BY <2>1 DEF DiskInv
    <3> QED
        BY <3>1, <3>2 DEF OnDisk
  <2> QED
      BY <1>8, <2>1, <2>2, <2>3 DEF MakeOutputTxt, diskVars
<1>9. CASE StageFails
      BY <1>9 DEF StageFails
<1>10. ASSUME NEW i \in Images, BadImage(i) PROVE OutputInv'
       BY <1>10 DEF BadImage
<1>11. ASSUME NEW i \in Images, Message(i) PROVE OutputInv'
       BY <1>11 DEF Message, WorkerAt, workVars, diskVars
<1>12. ASSUME NEW p \in Pages, WritePage(p) PROVE OutputInv'
       BY <1>12 DEF WritePage, workVars
<1>13. CASE Refresh
  <2>1. UNCHANGED <<workVars, file>> /\ OnDisk' = OnDisk
        BY <1>13 DEF Refresh, diskVars, OnDisk
  <2>2. found'["worker"] = found["worker"]
        BY <1>1, <1>13, NoteFacts, WalkFacts DEF Refresh, Looks, noteVars, Walkers
  <2>3. OnDisk \subseteq Known => OnDisk \subseteq Known'
        BY <1>1, <1>2, <1>13, WalkFacts DEF Refresh, Looks, noteVars, Known, Walkers
  <2> QED
      BY <2>1, <2>2, <2>3 DEF workVars
<1>14. CASE Scrub
       BY <1>14 DEF Scrub, workVars
<1>15. CASE UNCHANGED <<workVars, diskVars, noteVars>>
       BY <1>15 DEF workVars, diskVars, noteVars, OnDisk, Known
<1>16. ASSUME NEW v \in Viewers,
              Ask(v) \/ (\E n \in Requests : TakeNames(v, n)) \/ ReadImage(v) \/ Store(v)
       PROVE  UNCHANGED <<workVars, diskVars, noteVars>>
       BY <1>16 DEF Ask, TakeNames, ReadImage, Store
<1> QED
    BY <1>3, <1>4, <1>5, <1>6, <1>7, <1>8, <1>9, <1>10, <1>11, <1>12, <1>13, <1>14, <1>15, <1>16
       DEF Next, Work, vars

-----------------------------------------------------------------------------
(* Viewers                                                                 *)

\* The names a viewer takes are those of the first pages.
LEMMA NamesTaken ==
    ASSUME ~DocIsPNG, TypeInv, DiskInv, NoteInv, ViewerInv, removal = "none",
           NEW v \in Viewers, NEW n \in Requests, TakeNames(v, n), pc'[v] = "read"
    PROVE  InHand(v)'
<1> DEFINE clipped == AtMost(AtMost(MaxPreview, Cardinality(Known)), n)
<1>1. /\ pc[v] = "take" /\ UNCHANGED <<file, images>>
      /\ pc' = [pc EXCEPT ![v] = "read"]
      /\ numPages' = [numPages EXCEPT ![v] = clipped]
      /\ names' = [names EXCEPT ![v] = FirstOf(clipped, Known)]
      BY DEF TakeNames, diskVars, TypeInv, TypeOK
<1>2. Past(Known) /\ Known \subseteq Pages
      BY DEF NoteInv, DiskInv, Past
<1>3. clipped \in Nat /\ clipped <= Cardinality(Known)
      BY ClippedFacts DEF TypeInv
<1> HIDE DEF clipped
<1>4. FirstOf(clipped, Known) = 1 .. clipped /\ (clipped # 0 => clipped \in Known)
      BY <1>2, <1>3, FirstPages DEF Past
<1>5. numPages'[v] = clipped /\ names'[v] = 1 .. clipped /\ images'[v] = {}
      BY <1>1, <1>4 DEF TypeInv, TypeOK, ViewerInv
<1>6. OnDisk' = OnDisk
      BY <1>1 DEF OnDisk
<1> QED
    BY <1>2, <1>3, <1>4, <1>5, <1>6 DEF InHand, Past

\* An image that is not the last one it asked for is whole.
LEMMA ImageRead ==
    ASSUME ~DocIsPNG, TypeInv, DiskInv, ViewerInv, removal = "none",
           NEW v \in Viewers, ReadImage(v), pc'[v] = "read"
    PROVE  InHand(v)'
<1> DEFINE i == Least(names[v])
           n == numPages[v]
<1>1. pc[v] = "read" /\ names[v] # {} /\ UNCHANGED file
      BY DEF ReadImage, diskVars
<1>2. n \in Nat /\ names[v] \in SUBSET Nat
      BY ImageFacts DEF TypeInv, TypeOK
<1>3. i \in names[v] /\ i \in Nat
      BY <1>1, <1>2, LeastIsOne
<1>4. /\ n # 0 => n \in OnDisk
      /\ names[v] \union images[v] \subseteq 1 .. n
      /\ 1 .. (n - 1) \subseteq names[v] \union images[v]
      BY <1>1 DEF ViewerInv, InHand
<1> HIDE DEF i
<1>5. /\ numPages'[v] = n
      /\ names'[v] = names[v] \ {i}
      /\ images'[v] = IF file[i] = "whole" THEN images[v] \union {i} ELSE images[v]
      BY <1>1 DEF ReadImage, Answered, TypeInv, TypeOK, i
<1>6. i \in 1 .. n
      BY <1>3, <1>4
<1>7. i < n => file[i] = "whole"
  <2>1. n \in Pages /\ file[n] # "absent"
        BY <1>2, <1>4, <1>6 DEF DiskInv, OnDisk
  <2>2. i \in Pages
        BY <1>2, <1>6, <2>1, ImageFacts DEF Pages
  <2> QED
      BY <2>1, <2>2 DEF DiskInv
<1>8. ASSUME NEW k \in 1 .. (n - 1) PROVE k \in names'[v] \union images'[v]
  <2>1. k \in names[v] \union images[v] /\ k < n
        BY <1>2, <1>4
  <2> QED
      BY <1>5, <1>7, <2>1
<1>9. names'[v] \union images'[v] \subseteq 1 .. n
      BY <1>4, <1>5, <1>6
<1>10. OnDisk' = OnDisk
       BY <1>1 DEF OnDisk
<1> QED
    BY <1>4, <1>5, <1>8, <1>9, <1>10 DEF InHand

\* Every step leaves viewers the pages they have in their hands.
LEMMA ViewerStep ==
    ASSUME ~DocIsPNG, TypeInv, StageInv, DiskInv, NoteInv, ViewerInv, [Next]_vars
    PROVE  ViewerInv'
<1>1. removal' = "none" => removal = "none" /\ OnDisk \subseteq OnDisk'
      BY FilesGrow
<1>2. ASSUME NEW u \in Viewers, UNCHANGED <<pc[u], numPages[u], names[u], images[u]>>
      PROVE  IF pc'[u] = "read"
             THEN removal' = "none" => InHand(u)'
             ELSE names'[u] = {} /\ images'[u] = {}
      BY <1>1, <1>2 DEF ViewerInv, InHand
<1>3. CASE UNCHANGED <<pc, numPages, names, images>>
      BY <1>2, <1>3 DEF ViewerInv
<1>4. ASSUME NEW v \in Viewers,
             Ask(v) \/ (\E n \in Requests : TakeNames(v, n)) \/ ReadImage(v) \/ Store(v),
             NEW u \in Viewers, u # v
      PROVE  UNCHANGED <<pc[u], numPages[u], names[u], images[u]>>
      BY <1>4 DEF Ask, TakeNames, ReadImage, Store, Answered, TypeInv, TypeOK
<1>5. ASSUME NEW v \in Viewers, Ask(v)
      PROVE  pc'[v] # "read" /\ names'[v] = {} /\ images'[v] = {}
      BY <1>5 DEF Ask, ViewerInv, TypeInv, TypeOK
<1>6. ASSUME NEW v \in Viewers, NEW n \in Requests, TakeNames(v, n)
      PROVE  IF pc'[v] = "read"
             THEN removal' = "none" => InHand(v)'
             ELSE names'[v] = {} /\ images'[v] = {}
  <2>1. CASE pc'[v] = "read"
        BY <1>1, <1>6, <2>1, NamesTaken
  <2>2. CASE pc'[v] # "read"
        BY <1>6, <2>2 DEF TakeNames, ViewerInv, TypeInv, TypeOK
  <2> QED
      BY <2>1, <2>2
<1>7. ASSUME NEW v \in Viewers, ReadImage(v)
      PROVE  IF pc'[v] = "read"
             THEN removal' = "none" => InHand(v)'
             ELSE names'[v] = {} /\ images'[v] = {}
  <2>1. CASE pc'[v] = "read"
        BY <1>1, <1>7, <2>1, ImageRead
  <2>2. CASE pc'[v] # "read"
        BY <1>7, <2>2 DEF ReadImage, Answered, TypeInv, TypeOK
  <2> QED
      BY <2>1, <2>2
<1>8. ASSUME NEW v \in Viewers, Store(v)
      PROVE  pc'[v] # "read" /\ names'[v] = {} /\ images'[v] = {}
      BY <1>8 DEF Store, Answered, TypeInv, TypeOK
<1>9. ASSUME NEW v \in Viewers,
             Ask(v) \/ (\E n \in Requests : TakeNames(v, n)) \/ ReadImage(v) \/ Store(v)
      PROVE  ViewerInv'
  <2> SUFFICES ASSUME NEW u \in Viewers
               PROVE  IF pc'[u] = "read"
                      THEN removal' = "none" => InHand(u)'
                      ELSE names'[u] = {} /\ images'[u] = {}
      BY DEF ViewerInv
  <2>1. CASE u = v
        BY <1>5, <1>6, <1>7, <1>8, <1>9, <2>1
  <2>2. CASE u # v
        BY <1>2, <1>4, <1>9, <2>2
  <2> QED
      BY <2>1, <2>2
<1>10. (\E v \in Viewers :
            Ask(v) \/ (\E n \in Requests : TakeNames(v, n)) \/ ReadImage(v) \/ Store(v))
       \/ UNCHANGED <<pc, numPages, names, images>>
       BY DEF Next, Work, Transition, WorkerWalks, WorkerNotes, OtherStage, RenameDoc, DocToPdf,
          StartRender, RenderEnds, MakeOutputTxt, ScanEnds, StageFails, Message, BadImage,
          WritePage, Refresh, Scrub, viewVars, vars
<1> QED
    BY <1>3, <1>9, <1>10

\* What a viewer stores lacks the last page at most.
LEMMA PreviewStep ==
    ASSUME ~DocIsPNG, TypeInv, StageInv, DiskInv, ViewerInv, PreviewLacksLastAtMost, [Next]_vars
    PROVE  PreviewLacksLastAtMost'
<1> SUFFICES ASSUME removal' = "none", NEW n \in DOMAIN previews'
             PROVE  previews'[n] \subseteq 1 .. n /\ 1 .. (n - 1) \subseteq previews'[n]
    BY DEF PreviewLacksLastAtMost
<1>1. removal = "none"
      BY FilesGrow
<1>2. \A k \in DOMAIN previews : previews[k] \subseteq 1 .. k /\ 1 .. (k - 1) \subseteq previews[k]
      BY <1>1 DEF PreviewLacksLastAtMost
<1>3. CASE UNCHANGED previews
      BY <1>2, <1>3
<1>4. ASSUME NEW v \in Viewers, Store(v)
      PROVE  previews'[n] \subseteq 1 .. n /\ 1 .. (n - 1) \subseteq previews'[n]
  <2>1. /\ images[v] \subseteq 1 .. numPages[v]
        /\ 1 .. (numPages[v] - 1) \subseteq images[v]
        BY <1>1, <1>4 DEF Store, ViewerInv, InHand
  <2>2. previews' = [k \in DOMAIN previews \union {numPages[v]} |->
                        IF k = numPages[v] THEN images[v] ELSE previews[k]]
        \/ UNCHANGED previews
        BY <1>4 DEF Store
  <2> QED
      BY <1>2, <1>3, <2>1, <2>2
<1>5. (\E v \in Viewers : Store(v)) \/ UNCHANGED previews
      BY DEF Next, Work, Transition, WorkerWalks, WorkerNotes, OtherStage, RenameDoc, DocToPdf,
         StartRender, RenderEnds, MakeOutputTxt, ScanEnds, StageFails, Message, BadImage,
         WritePage, Refresh, Scrub, Ask, TakeNames, ReadImage, viewVars, vars
<1> QED
    BY <1>3, <1>4, <1>5

-----------------------------------------------------------------------------
(* Invariance, and what follows                                            *)

\* A job that was not started satisfies the invariant.
LEMMA InitInv ==
    /\ Init => TypeInv /\ StageInv
    /\ Init /\ ~DocIsPNG => PagesInv
<1>1. ASSUME Init PROVE TypeInv /\ StageInv
  <2> USE <1>1, ImageFacts DEF Init
  <2>1. previews \in [DOMAIN previews -> SUBSET Images] /\ DOMAIN previews \subseteq 0 .. MaxPreview
        OBVIOUS
  <2>2. /\ file \in [Images -> {"absent", "partial", "whole", "zeroed"}]
        /\ imgfiles \in [Images -> {"unknown", "unseen", "seen"}]
        /\ found \in [Walkers -> SUBSET Images]
        OBVIOUS
  <2>3. /\ pc \in [Viewers -> {"idle", "take", "read"}]
        /\ numPages \in [Viewers -> Nat] /\ \A v \in Viewers : numPages[v] <= MaxPreview
        /\ names \in [Viewers -> SUBSET Images] /\ images \in [Viewers -> SUBSET Images]
        OBVIOUS
  <2>4. /\ stage \in DOMAIN After \union Ended /\ output \in SUBSET Images
        /\ step = "done" /\ done \in BOOLEAN /\ refresher = "none" /\ removal = "none"
        BY DEF After
  <2> HIDE <1>1 DEF Init
  <2>5. TypeInv
        BY <2>1, <2>2, <2>3, <2>4 DEF TypeInv, TypeOK
  <2> QED
      BY <1>1, <2>5 DEF Init, StageInv
<1>2. ASSUME Init, ~DocIsPNG PROVE PagesInv
  <2> USE <1>2 DEF Init
  <2>1. OnDisk = {} /\ Known = {} /\ \A w \in Walkers : found[w] = {}
        BY DEF OnDisk, Known
  <2>2. DiskInv
        BY <2>1, ImageFacts DEF DiskInv
  <2>3. NoteInv
        BY <2>1 DEF NoteInv, Past
  <2>4. OutputInv /\ ViewerInv /\ PreviewLacksLastAtMost
        BY DEF OutputInv, ViewerInv, PreviewLacksLastAtMost
  <2> QED
      BY <1>1, <2>2, <2>3, <2>4 DEF PagesInv
<1> QED
    BY <1>1, <1>2

\* Ranges and stages hold for every document, ...
LEMMA StageInvariance ==
    SafeSpec => [](TypeInv /\ StageInv)
BY InitInv, TypeStep, StageStep, PTL DEF SafeSpec

\* ... the rest for those that are not PNG files.
LEMMA Invariance ==
    ASSUME ~DocIsPNG PROVE SafeSpec => []PagesInv
<1>1. PagesInv /\ [Next]_vars => PagesInv'
      BY TypeStep, StageStep, DiskStep, NoteStep, OutputStep, ViewerStep, PreviewStep
         DEF PagesInv
<1>2. Init => PagesInv
      BY InitInv
<1> QED
    BY <1>1, <1>2, PTL DEF SafeSpec

\* Every variable stays in its range, for any document, and a preview has no
\* more than MaxPreview pages.
THEOREM TypeCorrect ==
    SafeSpec => []TypeOK
<1>1. TypeInv => TypeOK
      BY DEF TypeInv
<1> QED
    BY <1>1, StageInvariance, PTL

\* Tesseract is given every page of the document and nothing else, though two
\* goroutines note images with lists from before (makeOutputTxt).
THEOREM OutputHasPages ==
    ASSUME ~DocIsPNG PROVE SafeSpec => []OutputIsPages
<1>1. PagesInv => OutputIsPages
      BY DEF PagesInv, OutputInv, OutputIsPages
<1> QED
    BY <1>1, Invariance, PTL

\* Whenever it was made, a preview of n pages has the first n - 1, and no other
\* than the first n (Job.Preview).
THEOREM PreviewsShowFirstPages ==
    SafeSpec => []PreviewLacksLastAtMost
<1>1. CASE DocIsPNG
  <2>1. PreviewLacksLastAtMost
        BY <1>1 DEF PreviewLacksLastAtMost
  <2> QED
      BY <2>1, PTL
<1>2. CASE ~DocIsPNG
  <2>1. PagesInv => PreviewLacksLastAtMost
        BY DEF PagesInv
  <2>2. SafeSpec => []PagesInv
        BY <1>2, Invariance
  <2> QED
      BY <2>1, <2>2, PTL
<1> QED
    BY <1>1, <1>2

\* An image that was noted is never forgotten, and one that tesseract has named
\* is not taken for one it has not (refreshDiskuse, Known).
THEOREM NotesStay ==
    SafeSpec => NotesAreKept
<1>1. TypeOK /\ [Next]_vars =>
          [\A i \in Images :
              /\ imgfiles[i] = "seen" => imgfiles'[i] = "seen"
              /\ imgfiles[i] = "unseen" => imgfiles'[i] # "unknown"]_vars
  <2> SUFFICES ASSUME TypeOK, Next, NEW i \in Images
               PROVE  /\ imgfiles[i] = "seen" => imgfiles'[i] = "seen"
                      /\ imgfiles[i] = "unseen" => imgfiles'[i] # "unknown"
      OBVIOUS
  <2>1. ASSUME NEW w \in Walkers, Note(w)
        PROVE  imgfiles[i] # "unknown" => imgfiles'[i] = imgfiles[i]
        BY <2>1 DEF Note, Noted, Known
  <2>2. ASSUME NEW k \in Images, Message(k)
        PROVE  imgfiles'[i] = IF i = k THEN "seen" ELSE imgfiles[i]
        BY <2>2 DEF Message, TypeOK
  <2>3. CASE UNCHANGED imgfiles
        BY <2>3
  <2>4. \/ UNCHANGED imgfiles \/ (\E w \in Walkers : Note(w)) \/ \E k \in Images : Message(k)
        BY DEF Next, Work, Transition, WorkerWalks, WorkerNotes, OtherStage, RenameDoc, DocToPdf,
           StartRender, RenderEnds, MakeOutputTxt, ScanEnds, StageFails, BadImage, WritePage,
           Refresh, Looks, Walk, Scrub, Ask, TakeNames, ReadImage, Store, noteVars, Walkers
  <2> QED
      BY <2>1, <2>2, <2>3, <2>4
<1> QED
    BY <1>1, TypeCorrect, PTL DEF SafeSpec, NotesAreKept

=============================================================================
