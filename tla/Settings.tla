------------------------------ MODULE Settings ------------------------------
(***************************************************************************)
(* The settings of the service (rinser/settings.go) and the controls of    *)
(* the setup page that change them: a control changes a setting in memory  *)
(* under Rinse.mu and then has all of them written to rinse.json, outside  *)
(* the lock.  Several administrators may do so at a time, and the process  *)
(* may crash and be started again.                                         *)
(*                                                                         *)
(* Five settings stand for the ten: limit for MaxConcurrent, whose control *)
(* refuses values; cleanup for CleanupSec and all others that are stored   *)
(* as they come; size for MaxSizeMB, which is stored as it comes but       *)
(* loaded with a bound above; gotten for CleanupGotten, whose control does *)
(* not save; keys for EndpointForJWKs, which saveSettings leaves out.      *)
(***************************************************************************)
EXTENDS Integers

CONSTANTS
    Admins,     \* goroutines of the controls
    Limits,     \* values of MaxConcurrent in files and from the control
    Cleanups,   \* values of CleanupSec in files and from the control
    Sizes,      \* values of MaxSizeMB in files and from the control
    MaxChanges  \* bound: how many changes are made

ASSUME ValueAssumption ==
    /\ Limits \subseteq Int /\ Cleanups \subseteq Int /\ Sizes \subseteq Int
    /\ MaxChanges \in Nat

\* What loadSettings begins with.
DefaultLimit   == 2
DefaultCleanup == 86400
LargestSize    == 2048   \* the default, and the bound

\* type settings
Settings == [limit   : Limits \union {1, DefaultLimit},
             cleanup : Cleanups \union {0, DefaultCleanup},
             size    : Sizes \union {0, LargestSize},
             gotten  : BOOLEAN,
             keys    : {"none", "endpoint"}]

VARIABLES
    memory,   \* the settings in Rinse
    file,     \* rinse.json: "missing", "empty", "garbled", or "readable"
    text,     \* the settings in it, the defaults if it is not readable
    serving,  \* does the process run?
    pc,       \* what each control does next
    snapshot, \* the local variable x of saveSettings
    changes,  \* how many changes were made
    past,     \* history: all settings memory has had
    saves     \* history: since the start or a save that failed there was
              \*   "none", one "single" save after the other, or some since
              \*   the start "overlapped"

historyVars == <<changes, past, saves>>
fileVars    == <<file, text>>
vars        == <<memory, fileVars, serving, pc, snapshot, historyVars>>

Defaults == [limit |-> DefaultLimit, cleanup |-> DefaultCleanup,
             size |-> LargestSize, gotten |-> TRUE, keys |-> "none"]

\* min(high, max(low, n))
Clamp(low, n, high) == IF n < low THEN low ELSE IF n > high THEN high ELSE n

\* loadSettings puts bounds on what it has read.  A file that is missing or
\* does not parse leaves the defaults alone.
Loaded(x) == [limit   |-> IF x.limit < 1 THEN 1 ELSE x.limit,
              cleanup |-> IF x.cleanup < 0 THEN 0 ELSE x.cleanup,
              size    |-> Clamp(0, x.size, LargestSize),
              gotten  |-> x.gotten,
              keys    |-> x.keys]

\* saveSettings does not name EndpointForJWKs.
Saved(x) == [x EXCEPT !.keys = "none"]

Init ==
    /\ \/ file = "missing" /\ text = Defaults
       \/ file = "readable" /\ text \in Settings
    /\ memory = Loaded(text)
    /\ serving = TRUE
    /\ pc = [t \in Admins |-> "idle"]
    /\ snapshot = [t \in Admins |-> Saved(memory)]
    /\ changes = 0
    /\ past = {text, memory}
    /\ saves = "none"

-----------------------------------------------------------------------------
(* The controls                                                            *)

Goto(t, label) == pc' = [pc EXCEPT ![t] = label]

Change(x) ==
    /\ serving
    /\ changes < MaxChanges
    /\ changes' = changes + 1
    /\ memory' = x
    /\ past' = past \union {x}

\* A control that stores its value and saves.
Control(t, x) ==
    /\ pc[t] = "idle"
    /\ Change(x)
    /\ saves' = IF saves # "overlapped" /\ \A u \in Admins : pc[u] = "idle"
                THEN "single" ELSE "overlapped"
    /\ Goto(t, "save")
    /\ UNCHANGED <<fileVars, serving, snapshot>>

\* Mutation: the control stores any value.
AnyLimit(n) == n

\* uiMaxConcurrent stores values above zero only; it saves in any case.
NewLimit(n) == IF n > 0 THEN n ELSE memory.limit

SetLimit(t, n) == Control(t, [memory EXCEPT !.limit = NewLimit(n)])

\* uiAutoCleanup stores what comes; that it is not negative is up to the page.
SetCleanup(t, n) == Control(t, [memory EXCEPT !.cleanup = n])

\* So does uiMaxSize.
SetSize(t, n) == Control(t, [memory EXCEPT !.size = n])

\* The switch for CleanupGotten is bound to the field.
SetGotten(b) ==
    /\ Change([memory EXCEPT !.gotten = b])
    /\ UNCHANGED <<fileVars, serving, pc, snapshot, saves>>

\* Mutation: what is not the control's own setting is taken from the file.
TakenFromFile ==
    IF file = "readable" THEN [Saved(text) EXCEPT !.limit = memory.limit]
    ELSE Saved(memory)

Taken == Saved(memory)

\* saveSettings: the section under Rinse.mu.
TakeSnapshot(t) ==
    /\ pc[t] = "save"
    /\ snapshot' = [snapshot EXCEPT ![t] = Taken]
    /\ Goto(t, "open")
    /\ UNCHANGED <<memory, fileVars, serving, historyVars>>

\* os.WriteFile opens the file, which empties it, ...
OpenFile(t) ==
    /\ pc[t] = "open"
    /\ file' = "empty"
    /\ text' = Defaults
    /\ Goto(t, "write")
    /\ UNCHANGED <<memory, serving, snapshot, historyVars>>

\* ... and writes from its start.  Of a longer text another control wrote
\* since the end remains.
WriteFile(t) ==
    /\ pc[t] = "write"
    /\ \/ file' = "readable" /\ text' = snapshot[t]
       \/ file # "empty" /\ file' = "garbled" /\ text' = Defaults
    /\ Goto(t, "idle")
    /\ UNCHANGED <<memory, serving, snapshot, historyVars>>

\* os.WriteFile cannot open the file, or cannot write all of it.  The page
\* shows the error; memory keeps the new setting.
SaveFails(t) ==
    /\ \/ pc[t] \in {"open", "write"} /\ UNCHANGED fileVars
       \/ pc[t] = "write" /\ file' = "garbled" /\ text' = Defaults
    /\ saves' = IF saves = "single" THEN "none" ELSE saves
    /\ Goto(t, "idle")
    /\ UNCHANGED <<memory, serving, snapshot, changes, past>>

-----------------------------------------------------------------------------
(* The process                                                             *)

Crash ==
    /\ serving
    /\ serving' = FALSE
    /\ pc' = [t \in Admins |-> "idle"]
    /\ UNCHANGED <<memory, fileVars, snapshot, historyVars>>

\* New calls loadSettings.
Restart ==
    /\ ~serving
    /\ serving' = TRUE
    /\ memory' = Loaded(text)
    /\ past' = past \union {memory'}
    /\ saves' = "none"
    /\ UNCHANGED <<fileVars, pc, snapshot, changes>>

-----------------------------------------------------------------------------
Next ==
    \/ \E t \in Admins, n \in Limits : SetLimit(t, n)
    \/ \E t \in Admins, n \in Cleanups : SetCleanup(t, n)
    \/ \E t \in Admins, n \in Sizes : SetSize(t, n)
    \/ \E b \in BOOLEAN : SetGotten(b)
    \/ \E t \in Admins : TakeSnapshot(t) \/ OpenFile(t) \/ WriteFile(t)
                         \/ SaveFails(t)
    \/ Crash
    \/ Restart

Spec == Init /\ [][Next]_vars

-----------------------------------------------------------------------------
(* Properties                                                              *)

\* Every variable stays in its range.  The limit lets the job list start jobs,
\* as Rinse.tla assumes of its Limits; nothing keeps the others above zero.
TypeOK ==
    /\ memory \in Settings /\ memory.limit > 0
    /\ file \in {"missing", "empty", "garbled", "readable"}
    /\ text \in Settings
    /\ serving \in BOOLEAN
    /\ pc \in [Admins -> {"idle", "save", "open", "write"}]
    /\ snapshot \in [Admins -> Settings]
    /\ changes \in 0 .. MaxChanges
    /\ past \subseteq Settings
    /\ saves \in {"none", "single", "overlapped"}

\* As long as saves do not overlap, the file has what was set last once one is
\* done without an error, though others change settings between the change of
\* one control and its save, and crashes may have left half a file before
\* (settings.go:29-48).  The switch for CleanupGotten does not count: it is
\* not saved.
QuietFileIsCurrent ==
    serving /\ saves = "single" /\ (\A t \in Admins : pc[t] = "idle") =>
        /\ file = "readable"
        /\ text.limit = memory.limit
        /\ text.cleanup = memory.cleanup
        /\ text.size = memory.size

\* However saves overlap and wherever the process crashes, a file that can be
\* read holds settings that were all in force at one time: nobody starts with
\* a mix of two changes (settings.go:30-42).
FileIsNoMix ==
    file = "readable" => text \in past \union {Saved(x) : x \in past}

=============================================================================
