----------------------------- MODULE WatchProofs -----------------------------
(***************************************************************************)
(* What Watch promises for any number of files, retries and changes.       *)
(***************************************************************************)
EXTENDS Watch, TLAPS

USE WatchAssumption DEF Zero

(* The watcher goes on only while it has retries left. *)
RetriesInv == wat # "closed" => errorsSeen <= MaxRetries

(* The count and errCh tell the same of the last command. *)
CommandInv ==
    /\ running = IF cmd = "returned" THEN 0 ELSE 1
    /\ errCh # Nil => cmd = "returned"
    /\ cmd = "returned" => errCh # Nil

(* No time lies in the future. *)
TimesInv ==
    /\ \A f \in Names : disk[f] # Nil => disk[f] <= changes
    /\ \A f \in Names : known[f] # Nil => known[f] <= changes
    /\ found # Nil => found.time <= changes
    /\ loaded <= changes

(* A round looks at known files, and is over before the next. *)
RoundInv ==
    /\ todo \subseteq Known
    /\ wat \in {"start", "tick"} \/ (wat = "send" /\ found = Nil) => todo = {}
    /\ found # Nil => wat = "send"

IInv == TypeOK /\ RetriesInv /\ RoundInv /\ CommandInv /\ TimesInv /\ KnownIsLoaded

-----------------------------------------------------------------------------
(* The watcher. *)

WatcherTypes ==
    /\ wat \in {"start", "tick", "stat", "send", "closed"}
    /\ known \in [Names -> 0 .. MaxChanges \cup {Nil}]
    /\ todo \subseteq Names
    /\ found \in [file : Names, time : 0 .. MaxChanges] \cup {Nil}
    /\ errorsSeen \in 0 .. MaxRetries + 1
    /\ unread \subseteq Names

(* What another goroutine leaves alone. *)
LEMMA Others == TypeOK /\ WatcherTypes' /\ UNCHANGED <<environment, main, signalled, command>> => TypeOK'
BY DEF TypeOK, WatcherTypes, environment, main, command

(* RetryWatching closes before the retries are exceeded. *)
LEMMA RetryType ==
    ASSUME TypeOK, RetriesInv, wat # "closed", RetryWatching
    PROVE  wat' \in {"tick", "closed"} /\ errorsSeen' \in 0 .. MaxRetries + 1 /\ todo' = {} /\ RetriesInv'
BY DEF TypeOK, RetriesInv, RetryWatching

(* Looked takes one time into account. *)
LEMMA LookedType ==
    ASSUME TypeOK, NEW f \in Names, NEW t \in 0 .. MaxChanges, Looked(f, t)
    PROVE  /\ wat' \in {"tick", "stat"}
           /\ errorsSeen' = 0
           /\ todo' \subseteq Names
           /\ known' \in [Names -> 0 .. MaxChanges \cup {Nil}]
           /\ known'[f] = t
           /\ \A g \in Names : g # f => known'[g] = known[g]
BY DEF TypeOK, Looked

LEMMA WatcherStepInv == IInv /\ WatcherStep => IInv'
<1> SUFFICES ASSUME IInv, WatcherStep PROVE IInv'
  OBVIOUS
<1> USE DEF IInv
<1>1. UNCHANGED <<environment, main, signalled, command>>
  BY DEF WatcherStep, WatcherRound, WatchStart, ListFiles, ListFails, StatFile
<1>2. CommandInv'
  BY <1>1 DEF CommandInv, command
<1>3. Alive' <=> Alive
  BY <1>1 DEF Alive, Exits, main
<1>4. UNCHANGED <<pc, loaded, disk, changes>>
  BY <1>1 DEF main, environment
<1>5. CASE WatchStart
  <2>1. WatcherTypes' /\ RetriesInv'
    BY <1>5 DEF WatchStart, TypeOK, WatcherTypes, RetriesInv
  <2>2. RoundInv'
    BY <1>5 DEF WatchStart, TypeOK, RoundInv, Known
  <2>3. TimesInv' /\ KnownIsLoaded'
    <3>1. TimesInv'
      BY <1>3, <1>4, <1>5 DEF WatchStart, TypeOK, TimesInv, Known
    <3>2. KnownIsLoaded'
      BY <1>3, <1>4, <1>5 DEF WatchStart, TypeOK, KnownIsLoaded, Known
    <3> QED BY <3>1, <3>2
  <2> QED BY <1>1, <1>2, <2>1, <2>3, <2>2, Others
<1>6. CASE ListFiles
  <2>1. WatcherTypes' /\ RetriesInv'
    BY <1>6 DEF ListFiles, TypeOK, WatcherTypes, RetriesInv, Known
  <2>2. \A f \in Names : known'[f] # Nil => known'[f] = Zero \/ (f \in Known /\ known'[f] = known[f])
    BY <1>6 DEF ListFiles, TypeOK, Known
  <2>3. UNCHANGED <<unread, found>>
    BY <1>6 DEF ListFiles
  <2>4. TimesInv' /\ KnownIsLoaded'
    <3>1. TimesInv'
      BY <1>3, <1>4, <2>2, <2>3 DEF TypeOK, TimesInv, Known
    <3>2. KnownIsLoaded'
      BY <1>3, <1>4, <2>2, <2>3 DEF TypeOK, KnownIsLoaded, Known
    <3> QED BY <3>1, <3>2
  <2>5. RoundInv'
    BY <1>6 DEF ListFiles, TypeOK, RoundInv, Known
  <2> QED BY <1>1, <1>2, <2>1, <2>4, <2>5, Others
<1>7. ASSUME NEW f \in Names, StatFile(f) PROVE IInv'
  <2>1. known[f] \in 0 .. MaxChanges /\ f \in Known
    BY <1>7 DEF StatFile, TypeOK, RoundInv, Known
  <2>2. CASE disk[f] = Nil
    <3>1. UNCHANGED <<known, found, unread>> /\ RetryWatching /\ wat = "stat"
      BY <1>7, <2>2 DEF StatFile
    <3>2. WatcherTypes' /\ RetriesInv'
      BY <3>1, RetryType DEF TypeOK, WatcherTypes
    <3>3. TimesInv' /\ KnownIsLoaded'
      <4>1. TimesInv'
        BY <1>3, <1>4, <3>1 DEF TimesInv, Known
      <4>2. KnownIsLoaded'
        BY <1>3, <1>4, <3>1 DEF KnownIsLoaded, Known
      <4> QED BY <4>1, <4>2
    <3>4. RoundInv'
      BY <1>7, <3>1 DEF StatFile, RetryWatching, Looked, TypeOK, RoundInv, Known
    <3> QED BY <1>1, <1>2, <3>2, <3>3, <3>4, Others
  <2>3. CASE disk[f] # Nil /\ known[f] = Zero
    <3>1. known' = [known EXCEPT ![f] = disk[f]] /\ unread' = unread \cup {f} /\ UNCHANGED <<found, errorsSeen>>
            /\ wat' = "tick" /\ todo' = {} /\ wat = "stat"
      BY <1>7, <2>3 DEF StatFile
    <3>2. WatcherTypes' /\ RetriesInv'
      BY <2>3, <3>1 DEF TypeOK, WatcherTypes, RetriesInv
    <3>3. TimesInv' /\ KnownIsLoaded'
      <4>1. TimesInv'
        BY <1>3, <1>4, <2>3, <3>1 DEF TypeOK, TimesInv, Known
      <4>2. KnownIsLoaded'
        BY <1>3, <1>4, <2>3, <3>1 DEF TypeOK, KnownIsLoaded, Known
      <4> QED BY <4>1, <4>2
    <3>4. RoundInv'
      BY <1>7, <3>1 DEF StatFile, RetryWatching, Looked, TypeOK, RoundInv, Known
    <3> QED BY <1>1, <1>2, <3>2, <3>3, <3>4, Others
  <2>4. CASE disk[f] # Nil /\ known[f] # Zero /\ disk[f] > known[f]
    <3>1. found' = [file |-> f, time |-> disk[f]] /\ UNCHANGED <<known, todo, errorsSeen, unread>>
            /\ wat' = "send" /\ wat = "stat"
      BY <1>7, <2>4, <2>1 DEF StatFile, TypeOK
    <3>2. WatcherTypes' /\ RetriesInv'
      BY <2>4, <3>1 DEF TypeOK, WatcherTypes, RetriesInv
    <3>3. TimesInv' /\ KnownIsLoaded'
      <4>1. TimesInv'
        BY <1>3, <1>4, <2>4, <3>1 DEF TypeOK, TimesInv, Known
      <4>2. KnownIsLoaded'
        BY <1>3, <1>4, <2>4, <3>1 DEF TypeOK, KnownIsLoaded, Known
      <4> QED BY <4>1, <4>2
    <3>4. RoundInv'
      BY <1>7, <3>1 DEF StatFile, RetryWatching, Looked, TypeOK, RoundInv, Known
    <3> QED BY <1>1, <1>2, <3>2, <3>3, <3>4, Others
  <2>5. CASE disk[f] # Nil /\ known[f] # Zero /\ ~(disk[f] > known[f])
    <3>1. Looked(f, disk[f]) /\ UNCHANGED <<found, unread>> /\ disk[f] <= known[f] /\ disk[f] \in 0 .. MaxChanges
      BY <1>7, <2>5, <2>1 DEF StatFile, TypeOK
    <3>2. WatcherTypes' /\ RetriesInv'
      BY <3>1, LookedType DEF TypeOK, WatcherTypes, RetriesInv
    <3>3. TimesInv' /\ KnownIsLoaded'
      <4>1. TimesInv'
        BY <1>3, <1>4, <2>1, <3>1, LookedType DEF TypeOK, TimesInv, Known
      <4>2. KnownIsLoaded'
        BY <1>3, <1>4, <2>1, <3>1, LookedType DEF TypeOK, KnownIsLoaded, Known
      <4> QED BY <4>1, <4>2
    <3>4. RoundInv'
      BY <1>7, <3>1 DEF StatFile, RetryWatching, Looked, TypeOK, RoundInv, Known
    <3> QED BY <1>1, <1>2, <3>2, <3>3, <3>4, Others
  <2> QED BY <2>2, <2>3, <2>4, <2>5
<1>8. CASE ListFails
  <2>1. UNCHANGED <<known, found, unread>> /\ RetryWatching /\ wat = "tick"
    BY <1>8 DEF ListFails
  <2>2. WatcherTypes' /\ RetriesInv'
    BY <2>1, RetryType DEF TypeOK, WatcherTypes
  <2>3. TimesInv'
    BY <1>3, <1>4, <2>1 DEF TimesInv, Known
  <2>4. KnownIsLoaded'
    BY <1>3, <1>4, <2>1 DEF KnownIsLoaded, Known
  <2>5. RoundInv'
    BY <2>1 DEF RetryWatching, TypeOK, RoundInv, Known
  <2> QED BY <1>1, <1>2, <2>2, <2>3, <2>4, <2>5, Others
<1> QED BY <1>5, <1>6, <1>7, <1>8 DEF WatcherStep, WatcherRound
-----------------------------------------------------------------------------
(* The other steps. *)

(* Told takes the newer time into account, or nothing. *)
LEMMA ToldType ==
    ASSUME TypeOK, RoundInv, RetriesInv, wat = "send", Told
    PROVE  WatcherTypes' /\ RetriesInv' /\ RoundInv'
<1>1. CASE found = Nil
  BY <1>1 DEF Told, TypeOK, WatcherTypes, RetriesInv, RoundInv, Known
<1>2. CASE found # Nil
  <2>1. found.file \in Names /\ found.time \in 0 .. MaxChanges /\ Looked(found.file, found.time)
          /\ found' = Nil /\ unread' = unread \ {found.file}
    BY <1>2 DEF Told, TypeOK
  <2>2. WatcherTypes' /\ RetriesInv'
    BY <2>1, LookedType DEF TypeOK, WatcherTypes, RetriesInv
  <2>3. RoundInv'
    BY <2>1 DEF Looked, TypeOK, RoundInv, Known
  <2> QED BY <2>2, <2>3
<1> QED BY <1>1, <1>2

(* While the main loop is told, what is known does not get into the future. *)
LEMMA ToldTimes ==
    ASSUME TypeOK, TimesInv, Told
    PROVE  /\ \A f \in Names : known'[f] # Nil => known'[f] <= changes
           /\ found' = Nil
BY DEF Told, Looked, TypeOK, TimesInv

LEMMA MainStepInv == IInv /\ MainStep => IInv'
<1> SUFFICES ASSUME IInv, MainStep PROVE IInv'
  OBVIOUS
<1> USE DEF IInv
<1>1. CASE CommandEnded
  <2>1. UNCHANGED <<environment, watcher, loaded, confFile, signalled>> /\ pc = "select" /\ errCh # Nil
    BY <1>1 DEF CommandEnded
  <2>2. \/ Spawn /\ pc' = pc /\ errRetries' = errRetries + 1 /\ errRetries < MaxRetries
        \/ pc' \in Exits /\ UNCHANGED <<errRetries, command>>
    BY <1>1 DEF CommandEnded, Exits
  <2>3. TypeOK' /\ CommandInv'
    <3>1. CASE Spawn /\ pc' = pc /\ errRetries' = errRetries + 1 /\ errRetries < MaxRetries
      <4>1. cmd = "returned" /\ running = 0 /\ running' = 1 /\ cmd' = "spawned" /\ errCh' = Nil /\ canceled' = FALSE
        BY <2>1, <3>1 DEF CommandInv, Spawn
      <4>2. CommandInv'
        BY <4>1 DEF CommandInv
      <4>3. errRetries' \in 0 .. MaxRetries
        BY <3>1 DEF TypeOK
      <4>4. UNCHANGED pc
        BY <3>1
      <4>5. TypeOK'
        BY <2>1, <4>1, <4>3, <4>4 DEF TypeOK, environment, watcher
      <4> QED BY <4>2, <4>5
    <3>2. CASE pc' \in Exits /\ UNCHANGED <<errRetries, command>>
      BY <2>1, <3>2 DEF TypeOK, CommandInv, environment, watcher, command
    <3> QED BY <2>2, <3>1, <3>2
  <2>4. RetriesInv' /\ RoundInv' /\ TimesInv' /\ KnownIsLoaded'
    BY <2>1 DEF RetriesInv, RoundInv, TimesInv, KnownIsLoaded, Alive, Exits, Known, environment, watcher
  <2> QED BY <2>3, <2>4
<1>2. CASE SignalReceived \/ WatcherClosed
  <2>1. UNCHANGED <<environment, watcher, loaded, confFile, errRetries, signalled, command>> /\ pc = "select"
          /\ pc' \in Exits
    BY <1>2 DEF SignalReceived, WatcherClosed, Exits
  <2> QED BY <2>1 DEF TypeOK, CommandInv, RetriesInv, RoundInv, TimesInv, KnownIsLoaded, Alive, Exits, Known, environment,
             watcher, command
<1>3. CASE Notify
  <2>1. UNCHANGED <<environment, loaded, confFile, signalled, command>> /\ pc' = "load" /\ errRetries' = 0
          /\ wat = "send" /\ Told
    BY <1>3 DEF Notify
  <2>2. WatcherTypes' /\ RetriesInv' /\ RoundInv'
    BY <2>1, ToldType
  <2>3. TypeOK'
    BY <2>1, <2>2 DEF TypeOK, WatcherTypes, environment, command
  <2>4. CommandInv' /\ TimesInv' /\ KnownIsLoaded'
    BY <2>1, ToldTimes DEF CommandInv, TimesInv, KnownIsLoaded, Alive, Exits, environment, command
  <2> QED BY <2>2, <2>3, <2>4
<1>4. CASE Load \/ Reload
  <2>1. UNCHANGED <<environment, watcher, errRetries, signalled, command>> /\ loaded' = changes
          /\ pc' \in {"select", "reload", "restart"} /\ confFile' \in Kinds \cup {Nil}
    BY <1>4 DEF Load, Reload, TypeOK
  <2>2. TypeOK' /\ CommandInv' /\ RetriesInv' /\ RoundInv'
    BY <2>1 DEF TypeOK, CommandInv, RetriesInv, RoundInv, Known, environment, watcher, command
  <2>3. TimesInv'
    BY <2>1 DEF TypeOK, TimesInv, environment, watcher
  <2>4. KnownIsLoaded'
    BY <2>1 DEF TypeOK, TimesInv, KnownIsLoaded, Known, environment, watcher
  <2> QED BY <2>2, <2>3, <2>4
<1>5. CASE Restart
  BY <1>5 DEF Restart, TypeOK, CommandInv, RetriesInv, RoundInv, TimesInv, KnownIsLoaded, Alive, Exits, Known, environment, watcher
<1>6. CASE Drain
  <2>1. UNCHANGED <<environment, watcher, loaded, confFile, errRetries, signalled>> /\ Spawn /\ errCh # Nil
          /\ pc = "drain" /\ pc' = "select"
    BY <1>6 DEF Drain
  <2>2. cmd = "returned" /\ running = 0 /\ running' = 1 /\ cmd' = "spawned" /\ errCh' = Nil /\ canceled' = FALSE
    BY <2>1 DEF CommandInv, Spawn
  <2>3. TypeOK' /\ CommandInv'
    BY <2>1, <2>2 DEF TypeOK, CommandInv, environment, watcher
  <2>4. RetriesInv' /\ RoundInv' /\ TimesInv' /\ KnownIsLoaded'
    BY <2>1 DEF RetriesInv, RoundInv, TimesInv, KnownIsLoaded, Alive, Exits, Known, environment, watcher
  <2> QED BY <2>3, <2>4
<1> QED BY <1>1, <1>2, <1>3, <1>4, <1>5, <1>6 DEF MainStep

LEMMA CommandStepInv == IInv /\ CommandStep => IInv'
<1> SUFFICES ASSUME IInv, CommandStep PROVE IInv'
  OBVIOUS
<1> USE DEF IInv
<1>1. UNCHANGED <<environment, watcher, loaded, confFile, errRetries, signalled, canceled>>
  BY DEF CommandStep, Execute, ShutDown, main
<1>2. pc' = pc \/ (pc' = "panic" /\ cmd = "spawned" /\ UNCHANGED <<cmd, running, errCh>>)
  BY DEF CommandStep, Execute, ShutDown, main
<1>3. \/ UNCHANGED <<cmd, running, errCh>>
      \/ cmd = "spawned" /\ cmd' = "serving" /\ UNCHANGED <<running, errCh>>
      \/ cmd # "returned" /\ \E err \in {"done", "listen", "error"} : Returns(err)
  BY DEF CommandStep, Execute, ShutDown
<1>4. CommandInv' /\ cmd' \in {"spawned", "serving", "returned"} /\ running' \in Nat
        /\ errCh' \in {Nil, "done", "listen", "error"}
  <2>1. CASE UNCHANGED <<cmd, running, errCh>>
    BY <2>1 DEF CommandInv, TypeOK
  <2>2. CASE cmd = "spawned" /\ cmd' = "serving" /\ UNCHANGED <<running, errCh>>
    BY <2>2 DEF CommandInv, TypeOK
  <2>3. CASE cmd # "returned" /\ \E err \in {"done", "listen", "error"} : Returns(err)
    BY <2>3 DEF CommandInv, TypeOK, Returns
  <2> QED BY <1>3, <2>1, <2>2, <2>3
<1>5. TypeOK'
  BY <1>1, <1>2, <1>4 DEF TypeOK, Exits, environment, watcher
<1>6. RetriesInv' /\ RoundInv' /\ TimesInv'
  BY <1>1 DEF RetriesInv, RoundInv, TimesInv, Known, environment, watcher
<1>7. KnownIsLoaded'
  <2>1. CASE pc' = pc
    BY <1>1, <2>1 DEF KnownIsLoaded, Alive, Known, watcher
  <2>2. CASE pc' = "panic"
    BY <2>2 DEF KnownIsLoaded, Alive, Exits
  <2> QED BY <1>2, <2>1, <2>2
<1> QED BY <1>4, <1>6, <1>7, <1>5

(* A change is younger than all that is known. *)
LEMMA ChangeInv == IInv /\ Change => IInv'
<1> SUFFICES ASSUME IInv, Change PROVE IInv'
  OBVIOUS
<1> USE DEF IInv
<1>1. UNCHANGED <<watcher, main, signalled, command>> /\ changes' = changes + 1 /\ changes < MaxChanges
        /\ kind' \in Kinds
  BY DEF Change, Kinds
<1>2. disk' \in [Names -> 1 .. MaxChanges \cup {Nil}] /\ \A f \in Names : disk'[f] \in {disk[f], changes', Nil}
  BY DEF Change, TypeOK
<1>3. TypeOK'
  BY <1>1, <1>2 DEF TypeOK, watcher, main, command
<1>4. TimesInv'
  BY <1>1, <1>2 DEF TypeOK, TimesInv, watcher, main
<1>5. CommandInv' /\ RetriesInv' /\ RoundInv' /\ KnownIsLoaded'
  BY <1>1 DEF CommandInv, RetriesInv, RoundInv, KnownIsLoaded, Alive, Known, watcher, main, command
<1> QED BY <1>3, <1>4, <1>5

LEMMA InitInv == Init => IInv
<1> SUFFICES ASSUME Init PROVE IInv
  OBVIOUS
<1>1. TypeOK
  <2>1. disk \in [Names -> 1 .. MaxChanges \cup {Nil}] /\ known \in [Names -> 0 .. MaxChanges \cup {Nil}]
    BY DEF Init
  <2>2. errorsSeen \in 0 .. MaxRetries + 1 /\ errRetries \in 0 .. MaxRetries /\ changes \in 1 .. MaxChanges
          /\ loaded \in 1 .. MaxChanges /\ running \in Nat
    BY DEF Init
  <2>3. kind \in Kinds /\ confFile \in Kinds \cup {Nil} /\ signalled \in BOOLEAN /\ canceled \in BOOLEAN
    BY DEF Init, Kinds
  <2>4. todo \subseteq Names /\ unread \subseteq Names /\ found \in [file : Names, time : 0 .. MaxChanges] \cup {Nil}
    BY DEF Init
  <2>5. wat \in {"start", "tick", "stat", "send", "closed"} /\ cmd \in {"spawned", "serving", "returned"}
          /\ pc \in {"select", "load", "reload", "restart", "drain"} \cup Exits
          /\ errCh \in {Nil, "done", "listen", "error"}
    BY DEF Init
  <2> QED BY <2>1, <2>2, <2>3, <2>4, <2>5 DEF TypeOK
<1>2. CommandInv /\ RetriesInv
  BY DEF Init, CommandInv, RetriesInv
<1>3. TimesInv /\ RoundInv /\ KnownIsLoaded
  BY DEF Init, TimesInv, RoundInv, KnownIsLoaded, Known
<1> QED BY <1>1, <1>2, <1>3 DEF IInv

LEMMA NextInv == IInv /\ [Next]_vars => IInv'
<1> SUFFICES ASSUME IInv, [Next]_vars PROVE IInv'
  OBVIOUS
<1>1. CASE WatcherStep
  BY <1>1, WatcherStepInv
<1>2. CASE MainStep
  BY <1>2, MainStepInv
<1>3. CASE CommandStep
  BY <1>3, CommandStepInv
<1>4. CASE Change
  BY <1>4, ChangeInv
<1>5. CASE Signal
  <2>1. UNCHANGED <<environment, watcher, main, cmd, running, errCh>> /\ signalled' = TRUE /\ canceled' = TRUE
    BY <1>5 DEF Signal
  <2>2. TypeOK' /\ CommandInv'
    BY <2>1 DEF IInv, TypeOK, CommandInv, environment, watcher, main
  <2>3. RetriesInv' /\ RoundInv' /\ TimesInv' /\ KnownIsLoaded'
    BY <2>1 DEF IInv, RetriesInv, RoundInv, TimesInv, KnownIsLoaded, Alive, Known, environment, watcher, main
  <2> QED BY <2>2, <2>3 DEF IInv
<1>6. CASE UNCHANGED vars
  <2>1. UNCHANGED <<environment, watcher, main, signalled, command>>
    BY <1>6 DEF vars
  <2>2. TypeOK' /\ CommandInv'
    BY <2>1 DEF IInv, TypeOK, CommandInv, environment, watcher, main, command
  <2>3. RetriesInv' /\ RoundInv' /\ TimesInv' /\ KnownIsLoaded'
    BY <2>1 DEF IInv, RetriesInv, RoundInv, TimesInv, KnownIsLoaded, Alive, Known, environment, watcher, main
  <2> QED BY <2>2, <2>3 DEF IInv
<1> QED BY <1>1, <1>2, <1>3, <1>4, <1>5, <1>6 DEF Next

LEMMA Invariant == Spec => []IInv
BY InitInv, NextInv, PTL DEF Spec

-----------------------------------------------------------------------------

(* The state is what the watcher, the main loop and the command make of it: *)
(* no more retries are used than the flags allow (main.go).                 *)
THEOREM TypeCorrect == Spec => []TypeOK
<1>1. IInv => TypeOK
  BY DEF IInv
<1> QED BY <1>1, Invariant, PTL

(* No command is started before the last one has returned, however signals, *)
(* retries and reloads fall together (main.go).                             *)
THEOREM OneCommandAtATime == Spec => []OneCommand
<1>1. IInv => OneCommand
  BY DEF IInv, CommandInv, OneCommand
<1> QED BY <1>1, Invariant, PTL

(* What the watcher takes for known has been loaded or is about to be,      *)
(* whenever the directory changes (main.go).                                *)
THEOREM NoChangeIsLost == Spec => []KnownIsLoaded
<1>1. IInv => KnownIsLoaded
  BY DEF IInv
<1> QED BY <1>1, Invariant, PTL
=============================================================================
