---------------------------- MODULE SettingsProof ----------------------------
(***************************************************************************)
(* Proofs about Settings, for any administrators and any values.           *)
(*                                                                         *)
(* QuietFileIsCurrent says nothing of a save that is under way; OneSave    *)
(* adds what it holds and that there is but one.  FileIsNoMix needs to     *)
(* know where the snapshots come from.                                     *)
(***************************************************************************)
EXTENDS Settings, TLAPS

\* Do x and y agree on the limit, the cleanup time and the size?
Same(x, y) == x.limit = y.limit /\ x.cleanup = y.cleanup /\ x.size = y.size

\* Is what is in x in force?
Current(x) == Same(x, memory)

\* As long as saves do not overlap.
OneSave ==
    /\ ~serving \/ saves = "none" => \A t \in Admins : pc[t] = "idle"
    /\ saves = "single" =>
           \A t, u \in Admins : pc[t] # "idle" /\ pc[u] # "idle" => t = u
    /\ saves = "single" =>
           \A t \in Admins :
               /\ pc[t] \in {"open", "write"} => Current(snapshot[t])
               /\ pc[t] = "write" => file = "empty"
    /\ QuietFileIsCurrent

\* Snapshots and the file come from what memory was.
Origin ==
    /\ memory \in past
    /\ \A t \in Admins :
           pc[t] \in {"open", "write"} =>
               snapshot[t] \in {Saved(x) : x \in past}
    /\ FileIsNoMix

IInv == TypeOK /\ OneSave /\ Origin

-----------------------------------------------------------------------------
\* The settings helpers stay within Settings.
LEMMA SettingsClosed ==
    /\ Defaults \in Settings
    /\ \A x \in Settings :
           /\ Saved(x) \in Settings
           /\ Same(Saved(x), x)
           /\ Loaded(x) \in Settings
           /\ Loaded(x).limit > 0
    /\ \A x \in Settings, b \in BOOLEAN :
           LET y == [x EXCEPT !.gotten = b]
           IN  y \in Settings /\ Same(y, x)
<1> USE ValueAssumption DEF Settings, DefaultLimit, DefaultCleanup, LargestSize
<1>1. Defaults \in Settings
  <2>1. /\ Defaults.limit \in Limits \union {1, DefaultLimit}
        /\ Defaults.cleanup \in Cleanups \union {0, DefaultCleanup}
        /\ Defaults.size \in Sizes \union {0, LargestSize}
        /\ Defaults.gotten \in BOOLEAN
        /\ Defaults.keys \in {"none", "endpoint"}
        BY DEF Defaults
  <2> QED
      BY <2>1 DEF Defaults
<1>2. ASSUME NEW x \in Settings
      PROVE  Saved(x) \in Settings /\ Same(Saved(x), x)
      BY DEF Saved, Same
<1>3. ASSUME NEW x \in Settings
      PROVE  Loaded(x) \in Settings /\ Loaded(x).limit > 0
  <2> DEFINE limit   == IF x.limit < 1 THEN 1 ELSE x.limit
             cleanup == IF x.cleanup < 0 THEN 0 ELSE x.cleanup
             size    == Clamp(0, x.size, LargestSize)
  <2>0. /\ x.limit \in Limits \union {1, DefaultLimit} /\ x.limit \in Int
        /\ x.cleanup \in Cleanups \union {0, DefaultCleanup}
        /\ x.size \in Sizes \union {0, LargestSize}
    <3>1. /\ x.limit \in Limits \union {1, DefaultLimit}
          /\ x.cleanup \in Cleanups \union {0, DefaultCleanup}
          /\ x.size \in Sizes \union {0, LargestSize}
          OBVIOUS
    <3>2. Limits \union {1, DefaultLimit} \subseteq Int
          OBVIOUS
    <3> QED
        BY ONLY <3>1, <3>2
  <2>1. limit \in Limits \union {1, DefaultLimit} /\ limit > 0
        BY <2>0
  <2>2. cleanup \in Cleanups \union {0, DefaultCleanup}
        BY <2>0
  <2>3. size \in Sizes \union {0, LargestSize}
        BY <2>0 DEF Clamp
  <2>4. Loaded(x) = [limit |-> limit, cleanup |-> cleanup, size |-> size,
                     gotten |-> x.gotten, keys |-> x.keys]
        BY DEF Loaded
  <2>5. x.gotten \in BOOLEAN /\ x.keys \in {"none", "endpoint"}
        OBVIOUS
  <2> HIDE DEF limit, cleanup, size
  <2> QED
      BY <2>1, <2>2, <2>3, <2>4, <2>5
<1>4. ASSUME NEW x \in Settings, NEW b \in BOOLEAN
      PROVE  LET y == [x EXCEPT !.gotten = b]
             IN  y \in Settings /\ Same(y, x)
      BY DEF Same
<1> QED
    BY <1>1, <1>2, <1>3, <1>4

\* The initial states satisfy the invariant.
LEMMA InitInv == Init => IInv
<1> SUFFICES ASSUME Init PROVE IInv
    OBVIOUS
<1>1. text \in Settings
      BY SettingsClosed DEF Init
<1>2. TypeOK
      BY <1>1, SettingsClosed, ValueAssumption DEF Init, TypeOK
<1>3. OneSave
      BY DEF Init, OneSave, QuietFileIsCurrent
<1>4. Origin
      BY DEF Init, Origin, FileIsNoMix
<1> QED
    BY <1>2, <1>3, <1>4 DEF IInv

\* Any change of memory keeps it in range.
LEMMA ChangeType ==
    ASSUME TypeOK, NEW x \in Settings, x.limit > 0, Change(x)
    PROVE  /\ memory' \in Settings /\ memory'.limit > 0
           /\ changes' \in 0 .. MaxChanges
           /\ past' \subseteq Settings
           /\ serving
  BY ValueAssumption DEF TypeOK, Change

\* A control that stores x and is about to save.
LEMMA ControlInv ==
    ASSUME IInv, NEW t \in Admins, NEW x \in Settings, x.limit > 0, Control(t, x)
    PROVE  IInv'
<1>1. TypeOK'
      BY ChangeType DEF IInv, TypeOK, Control, Goto, fileVars
<1>2. OneSave'
      BY DEF IInv, TypeOK, OneSave, QuietFileIsCurrent, Current, Same, Control,
             Change, Goto, fileVars
<1>3. Origin'
      BY DEF IInv, Origin, FileIsNoMix, Control, Change, Goto, fileVars
<1> QED
    BY <1>1, <1>2, <1>3 DEF IInv

\* Every step keeps the invariant.
LEMMA StepInv == IInv /\ [Next]_vars => IInv'
<1> SUFFICES ASSUME IInv, [Next]_vars PROVE IInv'
    OBVIOUS
<1> USE DEF IInv
<1>1. ASSUME NEW t \in Admins, NEW n \in Limits, SetLimit(t, n) PROVE IInv'
  <2> DEFINE x == [memory EXCEPT !.limit = NewLimit(n)]
  <2>1. x \in Settings /\ x.limit > 0
        BY ValueAssumption DEF TypeOK, Settings, NewLimit
  <2> QED
      BY <1>1, <2>1, ControlInv DEF SetLimit
<1>2. ASSUME NEW t \in Admins, NEW n \in Cleanups, SetCleanup(t, n) PROVE IInv'
  <2> DEFINE x == [memory EXCEPT !.cleanup = n]
  <2>1. x \in Settings /\ x.limit > 0
        BY DEF TypeOK, Settings
  <2> QED
      BY <1>2, <2>1, ControlInv DEF SetCleanup
<1>3. ASSUME NEW t \in Admins, NEW n \in Sizes, SetSize(t, n) PROVE IInv'
  <2> DEFINE x == [memory EXCEPT !.size = n]
  <2>1. x \in Settings /\ x.limit > 0
        BY DEF TypeOK, Settings
  <2> QED
      BY <1>3, <2>1, ControlInv DEF SetSize
<1>4. ASSUME NEW b \in BOOLEAN, SetGotten(b) PROVE IInv'
  <2> DEFINE x == [memory EXCEPT !.gotten = b]
  <2>1. x \in Settings /\ x.limit = memory.limit /\ Same(x, memory)
        BY SettingsClosed DEF TypeOK, Settings, Same
  <2>2. TypeOK'
        BY <1>4, <2>1, ChangeType DEF TypeOK, SetGotten, fileVars
  <2>3. OneSave'
        BY <1>4, <2>1
        DEF OneSave, QuietFileIsCurrent, Current, Same, SetGotten, Change, fileVars
  <2>4. Origin'
        BY <1>4 DEF Origin, FileIsNoMix, SetGotten, Change, fileVars
  <2> QED
      BY <2>2, <2>3, <2>4
<1>5. ASSUME NEW t \in Admins, TakeSnapshot(t) PROVE IInv'
  <2>1. TypeOK'
        BY <1>5, SettingsClosed
        DEF TypeOK, TakeSnapshot, Taken, Goto, fileVars, historyVars
  <2>2. OneSave'
        BY <1>5, SettingsClosed
        DEF TypeOK, OneSave, QuietFileIsCurrent, Current, Same, TakeSnapshot, Taken,
            Goto, fileVars, historyVars
  <2>3. Origin'
        BY <1>5 DEF TypeOK, Origin, FileIsNoMix, TakeSnapshot, Taken, Goto, fileVars,
            historyVars
  <2> QED
      BY <2>1, <2>2, <2>3
<1>6. ASSUME NEW t \in Admins, OpenFile(t) PROVE IInv'
  <2>1. TypeOK'
        BY <1>6, SettingsClosed DEF TypeOK, OpenFile, Goto, historyVars
  <2>2. OneSave'
        BY <1>6
        DEF TypeOK, OneSave, QuietFileIsCurrent, Current, Same, OpenFile, Goto,
            historyVars
  <2>3. Origin'
        BY <1>6 DEF TypeOK, Origin, FileIsNoMix, OpenFile, Goto, historyVars
  <2> QED
      BY <2>1, <2>2, <2>3
<1>7. ASSUME NEW t \in Admins, WriteFile(t) PROVE IInv'
  <2>1. TypeOK'
        BY <1>7, SettingsClosed DEF TypeOK, WriteFile, Goto, historyVars
  <2>2. OneSave'
        BY <1>7
        DEF TypeOK, OneSave, QuietFileIsCurrent, Current, Same, WriteFile, Goto,
            historyVars
  <2>3. Origin'
        BY <1>7 DEF TypeOK, Origin, FileIsNoMix, WriteFile, Goto, historyVars
  <2> QED
      BY <2>1, <2>2, <2>3
<1>8. ASSUME NEW t \in Admins, SaveFails(t) PROVE IInv'
  <2>1. TypeOK'
        BY <1>8, SettingsClosed DEF TypeOK, SaveFails, Goto, fileVars
  <2>2. OneSave'
        BY <1>8
        DEF TypeOK, OneSave, QuietFileIsCurrent, Current, Same, SaveFails, Goto,
            fileVars
  <2>3. Origin'
        BY <1>8 DEF TypeOK, Origin, FileIsNoMix, SaveFails, Goto, fileVars
  <2> QED
      BY <2>1, <2>2, <2>3
<1>9. CASE Crash
      BY <1>9
      DEF TypeOK, OneSave, QuietFileIsCurrent, Current, Same, Origin, FileIsNoMix,
          Crash, fileVars, historyVars
<1>10. CASE Restart
  <2>1. TypeOK'
        BY <1>10, SettingsClosed DEF TypeOK, Restart, fileVars
  <2>2. OneSave'
        BY <1>10 DEF OneSave, QuietFileIsCurrent, Current, Same, Restart, fileVars
  <2>3. Origin'
        BY <1>10 DEF Origin, FileIsNoMix, Restart, fileVars
  <2> QED
      BY <2>1, <2>2, <2>3
<1>11. CASE UNCHANGED vars
      BY <1>11
      DEF TypeOK, OneSave, QuietFileIsCurrent, Current, Same, Origin, FileIsNoMix,
          vars, fileVars, historyVars
<1> QED
    BY <1>1, <1>2, <1>3, <1>4, <1>5, <1>6, <1>7, <1>8, <1>9, <1>10,
       <1>11 DEF Next

\* The inductive invariant holds in every state.
THEOREM Invariance == Spec => []IInv
  BY InitInv, StepInv, PTL DEF Spec

\* Every variable stays in its range; the limit stays above zero.
THEOREM TypeCorrect == Spec => []TypeOK
<1> IInv => TypeOK
    BY DEF IInv
<1> QED BY Invariance, PTL

\* As long as saves do not overlap, the file has what was set last.
THEOREM SavesAreKept == Spec => []QuietFileIsCurrent
<1> IInv => QuietFileIsCurrent
    BY DEF IInv, OneSave
<1> QED BY Invariance, PTL

\* No file that can be read holds a mix of two changes.
THEOREM NoMix == Spec => []FileIsNoMix
<1> IInv => FileIsNoMix
    BY DEF IInv, Origin
<1> QED BY Invariance, PTL

=============================================================================
