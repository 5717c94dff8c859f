------------------------------ MODULE JsonAuth ------------------------------
(***************************************************************************)
(* auth/json.py with utils/inotify.py and utils/supervisor.py: a supervised *)
(* task watches the paths that lead to the JSON file and has it loaded,    *)
(* while another process writes, replaces or removes it.                   *)
(*                                                                         *)
(* The other process may act between any two system calls of the task.     *)
(* The file is reached in one of the following styles:                     *)
(*   plain   the path is a file, which is written in place, replaced by a  *)
(*           rename, removed or created                                    *)
(*   farm    the path leads through a symbolic link "data", as in a volume *)
(*           of Kubernetes: the link is replaced by one to a new directory *)
(*           with a new file, and old directories are removed              *)
(*   mixed   a farm in which files are changed as in the plain style, too  *)
(* inotify watches inodes: an inode is a number, 0 that of a name that is  *)
(* missing.  A text is a number that grows, 0 a text that is not valid     *)
(* JSON.  The task also watches every directory on the way, the link's     *)
(* target among them.  Directories are not among the paths here: what      *)
(* their watches do is to wake the task up, or to fail.                    *)
(***************************************************************************)
EXTENDS Naturals, FiniteSets

CONSTANTS Styles,       \* the styles to consider
          MaxChanges    \* bound: changes made by the other process

ASSUME JsonAssumption == Styles \subseteq {"plain", "farm", "mixed"} /\ MaxChanges \in Nat

VARIABLES
  style,     \* how the file is reached
  target,    \* the directory "data" leads to; it tells apart the links, too
  file,      \* the file in each directory
  changes,   \* changes made so far; the next inode and text
  pc,        \* where the supervised task is
  paths,     \* the paths that _watch_task knows
  todo,      \* paths that are still to be watched
  watches,   \* the inode that the watch of a path is on, 0 if there is none
  events,    \* paths with an event that was not taken
  db         \* self.db, by the number of its text; 0 is the empty one

fileVars == <<style, target, file, changes>>
taskVars == <<pc, paths, todo, db>>
vars == <<fileVars, taskVars, watches, events>>

Dirs  == 0 .. MaxChanges
Data  == <<"data", 0>>
File(t) == <<"file", t>>
Paths == {Data} \cup {File(t) : t \in Dirs}

TypeOK ==
  /\ style \in Styles
  /\ target \in Dirs
  /\ file \in [Dirs -> [inode : 0 .. MaxChanges + 1, text : 0 .. MaxChanges + 1]]
  /\ changes \in 0 .. MaxChanges
  /\ pc \in {"starting", "resolving", "watching", "waiting", "rewatching", "sleeping",
             "cancelled"}
  /\ paths \subseteq Paths /\ todo \subseteq Paths /\ events \subseteq Paths
  /\ watches \in [Paths -> 0 .. MaxChanges + 1]
  /\ db \in 0 .. MaxChanges + 1

Missing == [inode |-> 0, text |-> 0]

Init ==
  /\ style \in Styles
  /\ target = 0
  /\ file = [t \in Dirs |-> IF t = 0 THEN [inode |-> 1, text |-> 1] ELSE Missing]
  /\ changes = 0
  /\ pc = "starting"
  /\ paths = {} /\ todo = {} /\ events = {} /\ db = 0
  /\ watches = [p \in Paths |-> 0]

Inode(p) == IF p = Data THEN target + 1 ELSE file[p[2]].inode
-----------------------------------------------------------------------------
(* The task.  It is started by supervise(), and again when it ended. *)

\* What _resolve_paths finds, besides directories.
Resolved == {File(target)} \cup (IF style = "plain" THEN {} ELSE {Data})

\* os.path.exists(path)
Starting ==
  /\ pc = "starting"
  /\ pc' = IF file[target].inode # 0 THEN "resolving" ELSE "sleeping"
  /\ UNCHANGED <<fileVars, paths, todo, db, watches, events>>

\* A bug: old paths go on being watched.
UnwatchedNone(old) == UNCHANGED <<watches, events>>

\* unwatch() of each; an event of a watch that was removed is passed over.
Unwatched(old) ==
  /\ watches' = [p \in Paths |-> IF p \in old THEN 0 ELSE watches[p]]
  /\ events' = events \ old

\* The head of the loop: find the paths, and unwatch those that are not among
\* them any more.
Resolve ==
  /\ pc = "resolving" /\ pc' = "watching"
  /\ paths' = Resolved
  /\ todo' = Resolved \ paths
  /\ Unwatched(paths \ Resolved)
  /\ UNCHANGED <<fileVars, db>>

\* watcher.watch(p)
Watch(p) ==
  /\ p \in todo /\ Inode(p) # 0
  /\ todo' = todo \ {p}
  /\ watches' = [watches EXCEPT ![p] = Inode(p)]
  /\ UNCHANGED <<fileVars, paths, db, events>>

\* watcher.watch(p) raises since p is gone: the watcher is closed, and the
\* supervisor sleeps for a second.
WatchFails(p) ==
  /\ pc \in {"watching", "rewatching"}
  /\ p \in todo /\ Inode(p) = 0
  /\ pc' = "sleeping"
  /\ paths' = {} /\ todo' = {} /\ events' = {} /\ watches' = [q \in Paths |-> 0]
  /\ UNCHANGED <<fileVars, db>>

WatchNew(p) == pc = "watching" /\ pc' = pc /\ Watch(p)

\* A bug: a file that cannot be read empties the database.
LoadedAnything == file[target].text

\* load(), which leaves the database as it is unless all of the file is valid.
Loaded == IF file[target].text = 0 THEN db ELSE file[target].text

\* callback(), after everything is watched.
Load ==
  /\ pc = "watching" /\ todo = {}
  /\ pc' = "waiting" /\ db' = Loaded
  /\ UNCHANGED <<fileVars, paths, todo, watches, events>>

\* get_event(), and unwatch() of the path it is about.
TakeEvent(p) ==
  /\ pc = "waiting" /\ p \in events
  /\ pc' = "rewatching" /\ todo' = {p}
  /\ watches' = [watches EXCEPT ![p] = 0]
  /\ events' = events \ {p}
  /\ UNCHANGED <<fileVars, paths, db>>

\* A bug: after an event the task goes back to waiting for the next.
RewatchedWaits == "waiting"

Rewatched == "resolving"

Rewatch(p) == pc = "rewatching" /\ pc' = Rewatched /\ Watch(p)

\* An event on a directory, which the task unwatches and watches again.
DirectoryEvent ==
  /\ pc = "waiting" /\ pc' = Rewatched
  /\ UNCHANGED <<fileVars, paths, todo, db, watches, events>>

\* A watch on a directory fails: it was moved or removed, after an event, or as an
\* old one before it was first watched.
DirectoryLost ==
  /\ \/ pc = "waiting"
     \/ /\ pc = "watching"
        /\ \E t \in 0 .. target - 1 : File(t) \in paths /\ file[t].inode = 0
  /\ pc' = "sleeping"
  /\ paths' = {} /\ todo' = {} /\ events' = {} /\ watches' = [p \in Paths |-> 0]
  /\ UNCHANGED <<fileVars, db>>

\* A bug: the supervisor lets a failed task rest.
RestartNever == FALSE

\* Condition for the supervisor to start the task again.
Restart == pc = "sleeping"

Supervise ==
  /\ Restart /\ pc' = "starting"
  /\ UNCHANGED <<fileVars, paths, todo, db, watches, events>>

\* close(): the task is cancelled where it awaits.
Cancel ==
  /\ pc \in {"starting", "waiting", "sleeping"}
  /\ pc' = "cancelled"
  /\ paths' = {} /\ todo' = {} /\ events' = {} /\ watches' = [p \in Paths |-> 0]
  /\ UNCHANGED <<fileVars, db>>
-----------------------------------------------------------------------------
(* The other process, and inotify *)

Changing == changes < MaxChanges /\ changes' = changes + 1
New == changes + 2   \* an inode and a text not used before

\* An event, if p's inode is being watched.
Touched(p) == events' = IF watches[p] # 0 /\ watches[p] = Inode(p) THEN events \cup {p} ELSE events

Becomes(t, f) == file' = [file EXCEPT ![t] = f]

\* Writing in place: the file is truncated first.
Truncate ==
  /\ style # "farm" /\ file[target].inode # 0 /\ Changing
  /\ Touched(File(target)) /\ Becomes(target, [file[target] EXCEPT !.text = 0])
  /\ UNCHANGED <<style, target, taskVars, watches>>

WriteText ==
  /\ file[target].inode # 0 /\ file[target].text = 0
  /\ Touched(File(target)) /\ Becomes(target, [file[target] EXCEPT !.text = changes + 1])
  /\ UNCHANGED <<style, target, changes, taskVars, watches>>

\* Another file gets the name; the old one loses its last link, which is an
\* event.  Also: a file where there was none, which is not.
Rename ==
  /\ style # "farm" /\ Changing
  /\ Touched(File(target)) /\ Becomes(target, [inode |-> New, text |-> New])
  /\ UNCHANGED <<style, target, taskVars, watches>>

Remove ==
  /\ style # "farm" /\ file[target].inode # 0 /\ Changing
  /\ Touched(File(target)) /\ Becomes(target, Missing)
  /\ UNCHANGED <<style, target, taskVars, watches>>

\* The link is replaced by one to a directory that is ready.
Swap ==
  /\ style # "plain" /\ Changing
  /\ target' = target + 1
  /\ Touched(Data) /\ Becomes(target + 1, [inode |-> New, text |-> New])
  /\ UNCHANGED <<style, taskVars, watches>>

\* A directory that is not used any more is removed.
Purge(t) ==
  /\ t < target /\ file[t].inode # 0
  /\ Touched(File(t)) /\ Becomes(t, Missing)
  /\ UNCHANGED <<style, target, changes, taskVars, watches>>
-----------------------------------------------------------------------------
Task == \/ Starting \/ Resolve \/ Load \/ Supervise
        \/ \E p \in Paths : WatchNew(p) \/ WatchFails(p) \/ TakeEvent(p) \/ Rewatch(p)

OtherProcess == \/ Truncate \/ WriteText \/ Rename \/ Remove \/ Swap
                \/ \E t \in Dirs : Purge(t)

Next == Task \/ DirectoryEvent \/ DirectoryLost \/ Cancel \/ OtherProcess

Spec == Init /\ [][Next]_vars

\* The event loop runs the task.  Nothing need ever happen to a directory.
FairSpec == Spec /\ WF_vars(Task)
-----------------------------------------------------------------------------
(* Properties *)

\* The file is there and is valid JSON.
Valid == file[target].inode # 0 /\ file[target].text # 0

\* Watches do not pile up: only what was found last is watched, never the files of
\* two directories however often the link was swapped in between, and a task that
\* ended, or was cancelled, has left nothing behind.
WatchesOneFile ==
  /\ \A p \in Paths : watches[p] # 0 \/ p \in events => p \in paths
  /\ \A t, u \in Dirs : {File(t), File(u)} \subseteq paths => t = u
  /\ pc \in {"starting", "sleeping", "cancelled"} => paths = {}

\* No change is missed: a task that waits, without an event to wait for, has
\* loaded the present text, whenever the file was changed while the task
\* looked for paths, watched them, or was in between.
NothingMissed == pc = "waiting" /\ events = {} /\ Valid => db = file[target].text

\* The rights in use never go back to an older text, or to none.
NeverBack == [][db' >= db]_vars

\* Whatever happens, changes end in the rights being those of the file, unless
\* the file ends up missing or invalid, or the task is cancelled.
CatchesUp == <>[](Valid /\ pc # "cancelled" => db = file[target].text)
=============================================================================
