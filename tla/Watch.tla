-------------------------------- MODULE Watch --------------------------------
(***************************************************************************)
(* couper run -watch (main.go): the command runs in a goroutine, a second  *)
(* one looks at the configuration files four times a second, and the main  *)
(* loop reloads the configuration and replaces the command.                *)
(*                                                                         *)
(* The files are those of one directory.  A modification time is the       *)
(* number of the change that has created, written or renamed the file, so  *)
(* that it never decreases.                                                *)
(***************************************************************************)
EXTENDS Integers, FiniteSets

CONSTANTS
    Names,      \* the names files can have
    InitFiles,  \* those there when Couper starts
    MaxRetries, \* flags.FileWatchRetries
    MaxChanges, \* bound on the changes of the directory
    Nil         \* no file, no configuration, no error

ASSUME WatchAssumption ==
    /\ IsFiniteSet(Names)
    /\ InitFiles \in SUBSET Names \ {{}}
    /\ MaxRetries \in Nat
    /\ MaxChanges \in Nat \ {0}
    /\ Nil \notin Nat
    /\ Nil \notin {"done", "listen", "error"}
    /\ Nil \notin [file : Names, time : Nat]

(* What a directory's content makes of LoadFiles, of the dry run and of the *)
(* command: the command checks settings that the dry run does not.          *)
Kinds == {"ok", "unloadable", "unrunnable", "unstartable"}

(* time.Time{}: the time of a file not looked at yet. *)
Zero == 0

Exits == {"exit 0", "exit 1", "panic"}

VARIABLES
    disk,       \* the files and their modification times
    kind,       \* the kind of their content
    changes,    \* how often it has changed
    wat,        \* where the watcher is
    known,      \* lastChanges
    todo,       \* the files of this round it has yet to look at
    found,      \* the file found newer than known and its time, while the main loop is told
    errorsSeen, \* errorsSeen
    unread,     \* history: the files whose known time is that of the first look
    pc,         \* where the main loop is
    loaded,     \* history: the change LoadFiles has read last
    confFile,   \* the kind of confFile
    errRetries, \* errRetries
    signalled,  \* SIGINT or SIGTERM was sent
    cmd,        \* where the last command is
    running,    \* how many commands have not returned
    canceled,   \* the last command's context has ended
    errCh       \* errCh

environment == <<disk, kind, changes>>
watcher     == <<wat, known, todo, found, errorsSeen, unread>>
main        == <<pc, loaded, confFile, errRetries>>
command     == <<cmd, running, canceled, errCh>>
vars        == <<environment, watcher, main, signalled, command>>

TypeOK ==
    /\ disk \in [Names -> 1 .. MaxChanges \cup {Nil}]
    /\ kind \in Kinds
    /\ changes \in 1 .. MaxChanges
    /\ wat \in {"start", "tick", "stat", "send", "closed"}
    /\ known \in [Names -> 0 .. MaxChanges \cup {Nil}]
    /\ todo \subseteq Names
    /\ found \in [file : Names, time : 0 .. MaxChanges] \cup {Nil}
    /\ errorsSeen \in 0 .. MaxRetries + 1
    /\ unread \subseteq Names
    /\ pc \in {"select", "load", "reload", "restart", "drain"} \cup Exits
    /\ loaded \in 1 .. MaxChanges
    /\ confFile \in Kinds \cup {Nil}
    /\ errRetries \in 0 .. MaxRetries
    /\ signalled \in BOOLEAN
    /\ cmd \in {"spawned", "serving", "returned"}
    /\ running \in Nat
    /\ canceled \in BOOLEAN
    /\ errCh \in {Nil, "done", "listen", "error"}

Init ==
    /\ disk = [f \in Names |-> IF f \in InitFiles THEN 1 ELSE Nil]
    /\ kind = "ok"
    /\ changes = 1
    /\ wat = "start"
    /\ known = [f \in Names |-> Nil]
    /\ todo = {}
    /\ found = Nil
    /\ errorsSeen = 0
    /\ unread = {}
    /\ pc = "select"
    /\ loaded = 1
    /\ confFile = "ok"
    /\ errRetries = 0
    /\ signalled = FALSE
    /\ cmd = "spawned"
    /\ running = 1
    /\ canceled = FALSE
    /\ errCh = Nil

Alive == pc \notin Exits

Files == {f \in Names : disk[f] # Nil}
Known == {f \in Names : known[f] # Nil}

-----------------------------------------------------------------------------
(* The watcher. *)

WatchStart ==
    /\ Alive
    /\ wat = "start"
    /\ \/ /\ known' = [f \in Names |-> IF f \in Files THEN Zero ELSE Nil]
          /\ wat' = "tick"
       \/ wat' = "closed" /\ UNCHANGED known
    /\ UNCHANGED <<environment, todo, found, errorsSeen, unread, main, signalled, command>>

(* retryWatching after an error. *)
RetryWatching ==
    /\ errorsSeen' = errorsSeen + 1
    /\ wat' = IF errorsSeen + 1 >= MaxRetries THEN "closed" ELSE "tick"
    /\ todo' = {}

(* A tick: the directory cannot be read. *)
ListFails ==
    /\ Alive
    /\ wat = "tick"
    /\ RetryWatching
    /\ UNCHANGED <<environment, known, found, unread, main, signalled, command>>

(* A tick: the directory is read, and only the number of its files compared.*)
(* A round over no files is over at once.                                   *)
ListFiles ==
    /\ Alive
    /\ wat = "tick"
    /\ \/ /\ Cardinality(Files) # Cardinality(Known)
          /\ known' = [f \in Names |-> IF f \notin Files THEN Nil
                                       ELSE IF f \in Known THEN known[f] ELSE Zero]
          /\ errorsSeen' = 0
          /\ wat' = "send"
          /\ UNCHANGED todo
       \/ /\ Cardinality(Files) = Cardinality(Known)
          /\ todo' = Known
          /\ wat' = IF Known = {} THEN "tick" ELSE "stat"
          /\ UNCHANGED <<known, errorsSeen>>
    /\ UNCHANGED <<environment, found, unread, main, signalled, command>>

(* One file of the round has been looked at; its time is t. *)
Looked(f, t) ==
    /\ known' = [known EXCEPT ![f] = t]
    /\ errorsSeen' = 0
    /\ todo' = todo \ {f}
    /\ wat' = IF todo = {f} THEN "tick" ELSE "stat"

(* Mutant of StatFile: a busy main loop is not waited for. *)
StatFileOnly(f) ==
    /\ Alive
    /\ wat = "stat"
    /\ f \in todo
    /\ disk[f] # Nil
    /\ Looked(f, disk[f])
    /\ UNCHANGED <<environment, found, unread, main, signalled, command>>

StatFile(f) ==
    /\ Alive
    /\ wat = "stat"
    /\ f \in todo
    /\ \/ /\ disk[f] = Nil
          /\ RetryWatching
          /\ UNCHANGED <<known, found, unread>>
       \/ /\ disk[f] # Nil
          /\ known[f] = Zero
          /\ known' = [known EXCEPT ![f] = disk[f]]
          /\ unread' = unread \cup {f}
          /\ wat' = "tick"
          /\ todo' = {}
          /\ UNCHANGED <<found, errorsSeen>>
       \/ /\ disk[f] # Nil
          /\ known[f] # Zero
          /\ disk[f] > known[f]
          /\ found' = [file |-> f, time |-> disk[f]]
          /\ wat' = "send"
          /\ UNCHANGED <<known, todo, errorsSeen, unread>>
       \/ /\ disk[f] # Nil
          /\ known[f] # Zero
          /\ disk[f] <= known[f]
          /\ Looked(f, disk[f])
          /\ UNCHANGED <<found, unread>>
    /\ UNCHANGED <<environment, main, signalled, command>>

(* The watcher has told the main loop. *)
Told ==
    \/ /\ found = Nil
       /\ wat' = "tick"
       /\ UNCHANGED <<known, todo, found, errorsSeen, unread>>
    \/ /\ found # Nil
       /\ Looked(found.file, found.time)
       /\ found' = Nil
       /\ unread' = unread \ {found.file}

-----------------------------------------------------------------------------
(* The main loop. *)

(* A new goroutine with a new command and a new context. *)
Spawn ==
    /\ cmd' = "spawned"
    /\ running' = running + 1
    /\ canceled' = FALSE
    /\ errCh' = Nil

CommandEnded ==
    /\ pc = "select"
    /\ \/ /\ errCh = "listen"
          /\ errRetries < MaxRetries
          /\ errRetries' = errRetries + 1
          /\ Spawn
          /\ UNCHANGED pc
       \/ /\ \/ errCh = "listen" /\ errRetries >= MaxRetries
             \/ errCh = "error"
          /\ pc' = "exit 1"
          /\ UNCHANGED <<errRetries, command>>
       \/ /\ errCh = "done"
          /\ pc' = "exit 0"
          /\ UNCHANGED <<errRetries, command>>
    /\ UNCHANGED <<environment, watcher, loaded, confFile, signalled>>

SignalReceived ==
    /\ pc = "select"
    /\ signalled
    /\ pc' = "exit 0"
    /\ UNCHANGED <<environment, watcher, loaded, confFile, errRetries, signalled, command>>

WatcherClosed ==
    /\ pc = "select"
    /\ wat = "closed"
    /\ pc' = "exit 1"
    /\ UNCHANGED <<environment, watcher, loaded, confFile, errRetries, signalled, command>>

(* The two meet at the unbuffered reloadCh. *)
Notify ==
    /\ pc = "select"
    /\ wat = "send"
    /\ Told
    /\ pc' = "load"
    /\ errRetries' = 0
    /\ UNCHANGED <<environment, loaded, confFile, signalled, command>>

(* LoadFiles and the dry run. *)
Load ==
    /\ pc = "load"
    /\ loaded' = changes
    /\ pc' = IF kind \in {"unloadable", "unrunnable"} THEN "select" ELSE "reload"
    /\ UNCHANGED <<environment, watcher, confFile, errRetries, signalled, command>>

(* LoadFiles again, for a context that is not canceled. *)
Reload ==
    /\ pc = "reload"
    /\ loaded' = changes
    /\ IF kind = "unloadable"
       THEN confFile' = Nil /\ pc' = "select"
       ELSE confFile' = kind /\ pc' = "restart"
    /\ UNCHANGED <<environment, watcher, errRetries, signalled, command>>

(* Mutant of Restart: the running command is not told. *)
RestartQuietly ==
    /\ pc = "restart"
    /\ pc' = "drain"
    /\ UNCHANGED <<environment, watcher, loaded, confFile, errRetries, signalled, command>>

Restart ==
    /\ pc = "restart"
    /\ canceled' = TRUE
    /\ pc' = "drain"
    /\ UNCHANGED <<environment, watcher, loaded, confFile, errRetries, signalled, cmd, running, errCh>>

(* Mutant of Drain: the command's end is not waited for. *)
DrainNothing ==
    /\ pc = "drain"
    /\ Spawn
    /\ pc' = "select"
    /\ UNCHANGED <<environment, watcher, loaded, confFile, errRetries, signalled>>

Drain ==
    /\ pc = "drain"
    /\ errCh # Nil
    /\ Spawn
    /\ pc' = "select"
    /\ UNCHANGED <<environment, watcher, loaded, confFile, errRetries, signalled>>

-----------------------------------------------------------------------------
(* The command. *)

Returns(err) ==
    /\ errCh = Nil
    /\ errCh' = err
    /\ cmd' = "returned"
    /\ running' = running - 1

(* The goroutine reads confFile when it gets to run. *)
Execute ==
    /\ Alive
    /\ cmd = "spawned"
    /\ \/ /\ confFile = Nil
          /\ pc' = "panic"
          /\ UNCHANGED <<cmd, running, errCh>>
       \/ /\ confFile \in {"unrunnable", "unstartable"}
          /\ Returns("error")
          /\ UNCHANGED pc
       \/ /\ confFile = "ok"
          /\ Returns("listen")
          /\ UNCHANGED pc
       \/ /\ confFile = "ok"
          /\ cmd' = "serving"
          /\ UNCHANGED <<pc, running, errCh>>
    /\ UNCHANGED <<environment, watcher, loaded, confFile, errRetries, signalled, canceled>>

(* listenCmdShutdown. *)
ShutDown ==
    /\ Alive
    /\ cmd = "serving"
    /\ canceled
    /\ Returns("done")
    /\ UNCHANGED <<environment, watcher, main, signalled, canceled>>

-----------------------------------------------------------------------------
(* The surroundings. *)

(* A file is created, written, removed or renamed; an empty directory has   *)
(* no server block.                                                         *)
Change ==
    /\ Alive
    /\ changes < MaxChanges
    /\ changes' = changes + 1
    /\ \E f \in Names :
          \/ disk' = [disk EXCEPT ![f] = changes']
          \/ f \in Files /\ disk' = [disk EXCEPT ![f] = Nil]
          \/ f \in Files /\ \E g \in Names \ Files : disk' = [disk EXCEPT ![f] = Nil, ![g] = changes']
    /\ kind' \in IF \A f \in Names : disk'[f] = Nil THEN {"unloadable"} ELSE Kinds
    /\ UNCHANGED <<watcher, main, signalled, command>>

(* Both the main loop and the command's context get the signal. *)
Signal ==
    /\ Alive
    /\ ~signalled
    /\ signalled' = TRUE
    /\ canceled' = TRUE
    /\ UNCHANGED <<environment, watcher, main, cmd, running, errCh>>

WatcherRound == WatchStart \/ ListFiles \/ \E f \in Names : StatFile(f)
WatcherStep == WatcherRound \/ ListFails
MainStep    == CommandEnded \/ SignalReceived \/ WatcherClosed \/ Notify \/ Load \/ Reload \/ Restart \/ Drain
CommandStep == Execute \/ ShutDown

Next == WatcherStep \/ MainStep \/ CommandStep \/ Change \/ Signal

Spec == Init /\ [][Next]_vars

(* Goroutines are scheduled, the directory can be read sooner or later or   *)
(* the watcher gives up, and a command whose context has ended returns      *)
(* after its shutdown times.                                                *)
FairSpec ==
    /\ Spec
    /\ WF_vars(WatcherRound)
    /\ WF_vars(MainStep)
    /\ WF_vars(CommandStep)

-----------------------------------------------------------------------------
(* Properties. *)

(* A new command is started only when the last one has returned ("drain     *)
(* current error due to cancel"), whichever of its results was in errCh     *)
(* before.                                                                  *)
OneCommand == running <= 1

(* No change gets lost between the watcher and the main loop: what the      *)
(* watcher takes for known after its first look has been read by LoadFiles, *)
(* or is about to be, unless the command panics on the way.                 *)
KnownIsLoaded ==
    \A f \in Known \ unread : known[f] # Zero => known[f] <= loaded \/ pc \in {"load", "panic"}

(* "reload on modifications": a change of a file the watcher knows is       *)
(* loaded sooner or later, unless the file or Couper is gone.               *)
ModificationsAreLoaded ==
    \A f \in Names : \A r \in 2 .. MaxChanges :
        (f \in Known /\ known[f] # Zero /\ known[f] < r /\ disk[f] = r) ~> (loaded >= r \/ f \notin Files \/ ~Alive)

(* A reload that has stopped the command starts the next one, whatever      *)
(* signals and results come in between.                                     *)
RestartEnds == (pc = "drain") ~> (cmd = "spawned" /\ pc = "select")

=============================================================================
