--------------------------- MODULE JsonAuthProofs ---------------------------
(***************************************************************************)
(* NothingMissed of JsonAuth, for any number of changes, as long as files  *)
(* in a farm are not changed in place; and NeverBack and the types, without *)
(* exception.                                                              *)
(***************************************************************************)
EXTENDS JsonAuth, TLAPS

\* What is watched is told apart by its name.
LEMMA PathsDiffer ==
  /\ \A t : Data # File(t)
  /\ \A t, u : File(t) = File(u) => t = u
BY DEF Data, File

\* Directories are numbered in the order of the links to them, and what was
\* resolved was one of them.  Only paths that the task knows are watched.
Numbered ==
  /\ target <= changes
  /\ style = "plain" => target = 0
  /\ paths \subseteq {Data} \cup {File(t) : t \in 0 .. target}
  /\ todo \subseteq paths /\ events \subseteq paths
  /\ \A p \in Paths \ paths : watches[p] = 0

\* A path that is known and not about to be watched has a watch on its present
\* inode, or an event that says that it lost it.
Covered ==
  \A p \in paths \ todo : watches[p] # 0 /\ (p \in events \/ watches[p] = Inode(p))

\* The path whose change leads to another text: the file, or the link to it.
Trigger == IF style = "plain" THEN File(0) ELSE Data

\* Once it has resolved the path, the task knows the one that matters; and it
\* resolves with nothing left to watch.  After an event one path is.
Knows ==
  /\ pc \in {"watching", "waiting", "rewatching"} => Trigger \in paths
  /\ pc \notin {"watching", "rewatching"} => todo = {}
  /\ pc = "rewatching" => \E p \in Paths : todo = {p}

\* In a farm there is always a valid file.
FarmValid == style = "farm" => Valid

\* Either the trigger has an event, or the present text was loaded.
Current == pc = "waiting" /\ Trigger \notin events => (Valid => db = file[target].text)

IInv == TypeOK /\ Numbered /\ Covered /\ Knows /\ FarmValid /\ Current

LEMMA Starts == Init => IInv
<1> SUFFICES ASSUME Init PROVE IInv
  OBVIOUS
<1>1. TypeOK
  BY JsonAssumption DEF Init, TypeOK, Dirs, Missing
<1>2. Numbered /\ Covered /\ Knows /\ FarmValid /\ Current
  BY JsonAssumption DEF Init, Numbered, Covered, Knows, FarmValid, Valid, Current, Dirs, Missing
<1> QED
  BY <1>1, <1>2 DEF IInv

\* A change to one file, the links staying as they are.  If the file had a name
\* that is watched there is an event.
LEMMA FileChange ==
  ASSUME IInv, style \in {"plain", "farm"},
         NEW t \in 0 .. target,
         NEW f \in [inode : 0 .. MaxChanges + 1, text : 0 .. MaxChanges + 1],
         Touched(File(t)), Becomes(t, f),
         UNCHANGED <<style, target, taskVars, watches>>,
         changes' \in changes .. MaxChanges,
         style = "farm" => t < target
  PROVE  IInv'
<1> USE DEF taskVars
<1>a. TypeOK /\ Numbered /\ Covered /\ Knows /\ FarmValid /\ Current
  BY DEF IInv
<1>b. t \in Dirs /\ target \in Dirs /\ File(t) \in Paths /\ changes \in Nat
  BY <1>a, JsonAssumption DEF TypeOK, Numbered, Dirs, Paths
<1>1. TypeOK'
  BY <1>a, <1>b DEF TypeOK, Touched, Becomes, Dirs
<1>2. Numbered'
  <2>1. target' <= changes'
    BY <1>a, <1>b, JsonAssumption DEF Numbered, TypeOK, Dirs
  <2>2. events' \subseteq paths
    BY <1>a, <1>b DEF Numbered, Touched
  <2> QED
    BY <2>1, <2>2, <1>a DEF Numbered, Paths, Dirs
<1>3. \A p \in paths : p # File(t) => Inode(p)' = Inode(p)
  <2> SUFFICES ASSUME NEW p \in paths, p # File(t) PROVE Inode(p)' = Inode(p)
    OBVIOUS
  <2>1. CASE p = Data
    BY <2>1 DEF Inode
  <2>2. CASE p # Data
    <3>1. PICK u \in 0 .. target : p = File(u)
      BY <1>a, <2>2 DEF Numbered
    <3>2. u # t /\ p[2] = u
      BY <3>1 DEF File
    <3> QED
      BY <2>2, <3>2, <1>a DEF Inode, Becomes, TypeOK
  <2> QED
    BY <2>1, <2>2
<1>4. Covered'
  <2> SUFFICES ASSUME NEW p \in paths \ todo
               PROVE  watches[p] # 0 /\ (p \in events' \/ watches[p] = Inode(p)')
    BY DEF Covered
  <2>1. watches[p] # 0 /\ (p \in events \/ watches[p] = Inode(p))
    BY <1>a DEF Covered
  <2>2. CASE p = File(t)
    BY <2>1, <2>2 DEF Touched
  <2>3. CASE p # File(t)
    BY <2>1, <2>3, <1>3 DEF Touched
  <2> QED
    BY <2>2, <2>3
<1>5. Knows'
  BY <1>a DEF Knows, Trigger
<1>6. style = "farm" => file'[target] = file[target]
  BY <1>a, <1>b DEF Becomes, TypeOK
<1>7. FarmValid'
  BY <1>a, <1>6 DEF FarmValid, Valid
<1>8. Current'
  <2>1. CASE style = "farm"
    BY <2>1, <1>a, <1>6 DEF Current, Valid, Trigger, Touched
  <2>2. CASE style = "plain"
    <3>1. t = 0 /\ target = 0 /\ Trigger = File(t)
      BY <1>a, <2>2 DEF Numbered, Trigger
    <3>2. pc = "waiting" => File(t) \in paths \ todo
      BY <1>a, <3>1 DEF Knows
    <3>3. pc = "waiting" => File(t) \in events'
      BY <3>2, <1>a DEF Covered, Touched
    <3> QED
      BY <3>1, <3>3 DEF Current, Trigger
  <2> QED
    BY <2>1, <2>2
<1> QED
  BY <1>1, <1>2, <1>4, <1>5, <1>7, <1>8 DEF IInv

\* The other process, in the two styles.
LEMMA Others ==
  ASSUME IInv, style \in {"plain", "farm"}, OtherProcess
  PROVE  IInv'
<1>a. TypeOK /\ Numbered /\ Covered /\ Knows /\ FarmValid /\ Current
  BY DEF IInv
<1>b. /\ target \in Nat /\ target \in 0 .. target /\ target \in Dirs
      /\ changes \in 0 .. MaxChanges /\ MaxChanges \in Nat
  BY <1>a, JsonAssumption DEF TypeOK, Dirs
<1>c. file[target] \in [inode : 0 .. MaxChanges + 1, text : 0 .. MaxChanges + 1]
  BY <1>a, <1>b DEF TypeOK
<1>1. CASE Truncate
  <2>1. [file[target] EXCEPT !.text = 0] \in [inode : 0 .. MaxChanges + 1, text : 0 .. MaxChanges + 1]
    BY <1>b, <1>c
  <2>2. changes' \in changes .. MaxChanges
    BY <1>1, <1>b DEF Truncate, Changing
  <2> QED
    BY <1>1, <1>b, <2>1, <2>2, FileChange DEF Truncate
<1>2. CASE WriteText
  <2>1. [file[target] EXCEPT !.text = changes + 1] \in [inode : 0 .. MaxChanges + 1, text : 0 .. MaxChanges + 1]
    BY <1>b, <1>c
  <2>2. changes' \in changes .. MaxChanges
    BY <1>2, <1>b DEF WriteText
  <2>3. style # "farm"
    BY <1>2, <1>a DEF WriteText, FarmValid, Valid
  <2> QED
    BY <1>2, <1>b, <2>1, <2>2, <2>3, FileChange DEF WriteText
<1>3. CASE Rename
  <2>1. changes' \in changes .. MaxChanges /\ New \in 0 .. MaxChanges + 1
    BY <1>3, <1>b DEF Rename, Changing, New
  <2>2. [inode |-> New, text |-> New] \in [inode : 0 .. MaxChanges + 1, text : 0 .. MaxChanges + 1]
    BY <2>1
  <2> QED
    BY <1>3, <1>b, <2>1, <2>2, FileChange DEF Rename
<1>4. CASE Remove
  <2>1. Missing \in [inode : 0 .. MaxChanges + 1, text : 0 .. MaxChanges + 1]
    BY <1>b DEF Missing
  <2>2. changes' \in changes .. MaxChanges
    BY <1>4, <1>b DEF Remove, Changing
  <2> QED
    BY <1>4, <1>b, <2>1, <2>2, FileChange DEF Remove
<1>5. ASSUME NEW t \in Dirs, Purge(t) PROVE IInv'
  <2>1. Missing \in [inode : 0 .. MaxChanges + 1, text : 0 .. MaxChanges + 1]
    BY <1>b DEF Missing
  <2>2. t \in 0 .. target /\ t < target /\ changes' \in changes .. MaxChanges
    BY <1>5, <1>b DEF Purge, Dirs
  <2> QED
    BY <1>5, <2>1, <2>2, FileChange DEF Purge
<1>6. CASE Swap
  <2> USE DEF taskVars
  <2>1. /\ style = "farm" /\ Trigger = Data /\ Trigger' = Data /\ target + 1 \in Dirs
        /\ changes' = changes + 1 /\ changes' \in 0 .. MaxChanges
        /\ New \in 1 .. MaxChanges + 1
    BY <1>6, <1>a, <1>b DEF Swap, Changing, Trigger, Numbered, Dirs, New
  <2>2. Data \in Paths
    BY DEF Paths
  <2>3. TypeOK'
    <3>1. events' \subseteq Paths
      BY <1>6, <1>a, <2>2 DEF Swap, Touched, TypeOK
    <3>2. file' \in [Dirs -> [inode : 0 .. MaxChanges + 1, text : 0 .. MaxChanges + 1]]
      BY <1>6, <1>a, <1>b, <2>1 DEF Swap, Becomes, TypeOK
    <3> QED
      BY <1>6, <1>a, <2>1, <3>1, <3>2 DEF Swap, TypeOK
  <2>4. Numbered'
    <3>1. events' \subseteq paths
      BY <1>6, <1>a, <2>2 DEF Swap, Touched, Numbered
    <3>2. target' = target + 1 /\ target' <= changes'
      BY <1>6, <1>a, <1>b, <2>1 DEF Swap, Numbered
    <3>3. \A u \in 0 .. target : u \in 0 .. target'
      BY <3>2, <1>b
    <3> QED
      BY <1>6, <1>a, <2>1, <3>1, <3>2, <3>3 DEF Swap, Numbered
  <2>5. \A p \in paths : p # Data => Inode(p)' = Inode(p)
    <3> SUFFICES ASSUME NEW p \in paths, p # Data PROVE Inode(p)' = Inode(p)
      OBVIOUS
    <3>1. PICK u \in 0 .. target : p = File(u)
      BY <1>a DEF Numbered
    <3>2. p[2] = u /\ u # target + 1
      BY <3>1, <1>b DEF File
    <3> QED
      BY <3>2, <1>6, <1>a DEF Inode, Swap, Becomes, TypeOK
  <2>6. Covered'
    <3> SUFFICES ASSUME NEW p \in paths \ todo
                 PROVE  watches[p] # 0 /\ (p \in events' \/ watches[p] = Inode(p)')
      BY <1>6 DEF Covered, Swap
    <3>1. watches[p] # 0 /\ (p \in events \/ watches[p] = Inode(p))
      BY <1>a DEF Covered
    <3>2. CASE p = Data
      BY <1>6, <3>1, <3>2 DEF Touched, Swap
    <3>3. CASE p # Data
      BY <1>6, <3>1, <3>3, <2>5 DEF Touched, Swap
    <3> QED
      BY <3>2, <3>3
  <2>7. Knows'
    BY <1>6, <1>a, <2>1 DEF Knows, Swap
  <2>8. FarmValid'
    <3>1. file'[target'].inode = New /\ file'[target'].text = New
      BY <1>6, <1>a, <2>1 DEF Swap, Becomes, TypeOK
    <3> QED
      BY <3>1, <2>1 DEF FarmValid, Valid
  <2>9. Current'
    <3>1. pc = "waiting" => Data \in paths \ todo
      BY <1>a, <2>1 DEF Knows
    <3>2. pc = "waiting" => Data \in events'
      BY <3>1, <1>6, <1>a DEF Covered, Touched, Swap
    <3> QED
      BY <3>2, <2>1, <1>6 DEF Current, Swap
  <2> QED
    BY <2>3, <2>4, <2>6, <2>7, <2>8, <2>9 DEF IInv
<1> QED
  BY <1>1, <1>2, <1>3, <1>4, <1>5, <1>6 DEF OtherProcess

\* Where the task forgets all that it watches.
LEMMA Forgets ==
  ASSUME IInv, UNCHANGED <<fileVars, db>>,
         pc' \in {"sleeping", "cancelled"}, paths' = {}, todo' = {}, events' = {},
         watches' = [p \in Paths |-> 0]
  PROVE  IInv'
<1>1. TypeOK' /\ Numbered'
  BY JsonAssumption DEF IInv, TypeOK, Numbered, fileVars, Paths, Dirs
<1>2. Covered' /\ Knows' /\ FarmValid' /\ Current'
  BY DEF IInv, Covered, Knows, FarmValid, Valid, Current, fileVars
<1> QED
  BY <1>1, <1>2 DEF IInv

\* watch(), with which a path is covered again.
LEMMA Watches ==
  ASSUME IInv, NEW p \in Paths, Watch(p), Trigger \in paths,
         pc' \in {"watching", "resolving"}, pc' = "resolving" => todo' = {}
  PROVE  IInv'
<1> USE DEF fileVars, Watch
<1>a. TypeOK /\ Numbered /\ Covered /\ FarmValid
  BY DEF IInv
<1>1. Inode(p) \in 0 .. MaxChanges + 1 /\ Inode(p) # 0
  <2>1. CASE p = Data
    BY <2>1, <1>a, JsonAssumption DEF Inode, TypeOK, Dirs, Numbered
  <2>2. CASE p # Data
    <3>1. PICK t \in Dirs : p = File(t)
      BY <2>2 DEF Paths
    <3>2. p[2] = t
      BY <3>1 DEF File
    <3> QED
      BY <2>2, <3>2, <1>a DEF Inode, TypeOK
  <2> QED
    BY <2>1, <2>2
<1>2. TypeOK'
  BY <1>1, <1>a DEF TypeOK
<1>3. Numbered'
  BY <1>a DEF Numbered, TypeOK
<1>4. Covered'
  BY <1>1, <1>a DEF Covered, TypeOK, Numbered, Inode
<1>5. Knows' /\ FarmValid' /\ Current'
  BY <1>a DEF Knows, FarmValid, Valid, Current, Trigger
<1> QED
  BY <1>2, <1>3, <1>4, <1>5 DEF IInv

\* The task.
LEMMA Tasks ==
  ASSUME IInv, style \in {"plain", "farm"}, Task
  PROVE  IInv'
<1> USE DEF fileVars
<1>a. TypeOK /\ Numbered /\ Covered /\ Knows /\ FarmValid /\ Current
  BY DEF IInv
<1>1. CASE Starting
  <2>1. TypeOK' /\ Numbered' /\ Covered'
    BY <1>1, <1>a DEF Starting, TypeOK, Numbered, Covered, Inode
  <2>2. Knows' /\ FarmValid' /\ Current'
    BY <1>1, <1>a DEF Starting, Knows, FarmValid, Valid, Current
  <2> QED
    BY <2>1, <2>2 DEF IInv
<1>2. CASE Resolve
  <2>1. Resolved \subseteq {Data} \cup {File(t) : t \in 0 .. target}
    BY <1>a DEF Resolved, TypeOK, Dirs
  <2>2. Resolved \subseteq Paths
    BY <1>a DEF Resolved, Paths, TypeOK
  <2>3. TypeOK'
    <3>1. watches' \in [Paths -> 0 .. MaxChanges + 1]
      <4>1. 0 \in 0 .. MaxChanges + 1
        BY JsonAssumption
      <4>2. \A p \in Paths : watches[p] \in 0 .. MaxChanges + 1
        BY <1>a DEF TypeOK
      <4> QED
        BY <1>2, <4>1, <4>2 DEF Resolve, Unwatched
    <3> QED
      BY <1>2, <1>a, <2>2, <3>1 DEF Resolve, Unwatched, TypeOK
  <2>n. Numbered'
    BY <1>2, <1>a, <2>1 DEF Resolve, Unwatched, Numbered
  <2>4. Covered'
    BY <1>2, <1>a, <2>2 DEF Resolve, Unwatched, Covered, Knows, Inode
  <2>5. Trigger \in Resolved
    BY <1>a DEF Trigger, Resolved, Numbered
  <2>6. Knows' /\ FarmValid' /\ Current'
    BY <1>2, <1>a, <2>5 DEF Resolve, Unwatched, Knows, FarmValid, Valid, Current, Trigger
  <2> QED
    BY <2>3, <2>n, <2>4, <2>6 DEF IInv
<1>3. CASE Load
  <2>1. Loaded \in 0 .. MaxChanges + 1
    BY <1>a DEF Loaded, TypeOK
  <2>2. TypeOK' /\ Numbered' /\ Covered'
    BY <1>3, <1>a, <2>1 DEF Load, TypeOK, Numbered, Covered, Inode
  <2>3. Knows' /\ FarmValid' /\ Current'
    BY <1>3, <1>a DEF Load, Loaded, Knows, FarmValid, Valid, Current, Trigger
  <2> QED
    BY <2>2, <2>3 DEF IInv
<1>4. CASE Supervise
  <2>1. TypeOK' /\ Numbered' /\ Covered'
    BY <1>4, <1>a DEF Supervise, TypeOK, Numbered, Covered, Inode
  <2>2. Knows' /\ FarmValid' /\ Current'
    BY <1>4, <1>a DEF Supervise, Restart, Knows, FarmValid, Valid, Current
  <2> QED
    BY <2>1, <2>2 DEF IInv
<1>5. ASSUME NEW p \in Paths, WatchNew(p) PROVE IInv'
  BY <1>5, <1>a, Watches DEF WatchNew, Knows
<1>6. ASSUME NEW p \in Paths, WatchFails(p) PROVE IInv'
  BY <1>6, Forgets DEF WatchFails
<1>7. ASSUME NEW p \in Paths, TakeEvent(p) PROVE IInv'
  <2>1. p \in paths /\ todo = {}
    BY <1>7, <1>a DEF TakeEvent, Numbered, Knows
  <2>2. TypeOK' /\ Numbered'
    BY <1>7, <1>a, <2>1, JsonAssumption DEF TakeEvent, TypeOK, Numbered
  <2>3. Covered'
    BY <1>7, <1>a, <2>1 DEF TakeEvent, Covered, TypeOK, Numbered, Inode
  <2>4. Knows' /\ FarmValid' /\ Current'
    BY <1>7, <1>a DEF TakeEvent, Knows, FarmValid, Valid, Current, Trigger
  <2> QED
    BY <2>2, <2>3, <2>4 DEF IInv
<1>8. ASSUME NEW p \in Paths, Rewatch(p) PROVE IInv'
  <2>1. Trigger \in paths /\ Watch(p) /\ pc' = "resolving"
    BY <1>8, <1>a DEF Rewatch, Rewatched, Knows
  <2>2. todo' = {}
    BY <1>8, <1>a DEF Rewatch, Watch, Knows
  <2> QED
    BY <2>1, <2>2, Watches
<1> QED
  BY <1>1, <1>2, <1>3, <1>4, <1>5, <1>6, <1>7, <1>8 DEF Task

LEMMA Inductive ==
  ASSUME Styles \subseteq {"plain", "farm"}, IInv, [Next]_vars
  PROVE  IInv'
<1>1. style \in {"plain", "farm"}
  BY DEF IInv, TypeOK
<1>2. CASE Task
  BY <1>1, <1>2, Tasks
<1>3. CASE Cancel
  BY <1>3, Forgets DEF Cancel
<1>4. CASE OtherProcess
  BY <1>1, <1>4, Others
<1>5. CASE UNCHANGED vars
  BY <1>5 DEF vars, fileVars, taskVars, IInv, TypeOK, Numbered, Covered, Knows, FarmValid,
              Valid, Current, Trigger, Inode
<1>6. CASE DirectoryEvent
  <2>1. /\ pc = "waiting" /\ pc' = "resolving"
        /\ UNCHANGED <<style, target, file, changes, paths, todo, db, watches, events>>
    BY <1>6 DEF DirectoryEvent, Rewatched, fileVars
  <2>2. TypeOK' /\ Numbered' /\ Covered'
    BY <2>1 DEF IInv, TypeOK, Numbered, Covered, Inode
  <2>3. Knows' /\ FarmValid' /\ Current'
    BY <2>1 DEF IInv, Knows, FarmValid, Valid, Current
  <2> QED
    BY <2>2, <2>3 DEF IInv
<1>7. CASE DirectoryLost
  BY <1>7, Forgets DEF DirectoryLost
<1> QED
  BY <1>2, <1>3, <1>4, <1>5, <1>6, <1>7 DEF Next

\* No change of the file is missed (_watch_task() with inotify, auth/json.py and
\* utils/inotify.py), however many there are and whenever they are made, as long
\* as a farm's files are not changed in place.
THEOREM Missed ==
  ASSUME Styles \subseteq {"plain", "farm"}
  PROVE  Spec => []NothingMissed
<1>1. IInv => NothingMissed
  BY DEF IInv, Current, NothingMissed
<1> QED
  BY <1>1, Starts, Inductive, PTL DEF Spec
-----------------------------------------------------------------------------
\* The file has the text that was written last, unless it is missing or being
\* written; what was loaded is that text or an older one.
Fresh ==
  /\ target \in Dirs /\ target <= changes /\ changes \in Nat
  /\ file \in [Dirs -> [inode : Nat, text : Nat]]
  /\ file[target].text \in {0, changes + 1}
  /\ db \in 0 .. changes + 1

LEMMA FreshInductive == Fresh /\ [Next]_vars => Fresh' /\ db' >= db
<1> SUFFICES ASSUME Fresh, [Next]_vars PROVE Fresh' /\ db' >= db
  OBVIOUS
<1> USE DEF fileVars, taskVars
<1>a. /\ target \in Dirs /\ target \in Nat /\ target <= changes /\ changes \in Nat
      /\ db \in 0 .. changes + 1
  BY DEF Fresh, Dirs
<1>1. CASE Load
  BY <1>1 DEF Load, Loaded, Fresh
<1>2. CASE \/ Starting \/ Resolve \/ Supervise \/ Cancel \/ UNCHANGED vars
           \/ DirectoryEvent \/ DirectoryLost
           \/ \E p \in Paths : WatchNew(p) \/ WatchFails(p) \/ TakeEvent(p) \/ Rewatch(p)
  <2>1. UNCHANGED <<target, file, changes, db>>
    BY <1>2 DEF Starting, Resolve, Supervise, Cancel, DirectoryEvent, DirectoryLost, vars, WatchNew, WatchFails, TakeEvent,
                Rewatch, Watch
  <2> QED
    BY <2>1, <1>a DEF Fresh
\* The other process leaves the database alone; the file is changed to one with
\* a text that suits the number of changes, in the directory that is in use.
<1>3. ASSUME NEW t \in Dirs, NEW i \in Nat, NEW x \in Nat, x \in {0, changes' + 1},
             Becomes(t, [inode |-> i, text |-> x]),
             target' = t, t <= changes', db' = db, changes' \in {changes, changes + 1}
      PROVE  Fresh' /\ db' >= db
  <2>1. [inode |-> i, text |-> x] \in [inode : Nat, text : Nat] /\ changes' \in Nat
    BY <1>3, <1>a
  <2>2. file' \in [Dirs -> [inode : Nat, text : Nat]] /\ file'[t] = [inode |-> i, text |-> x]
    BY <1>3, <2>1 DEF Fresh, Becomes
  <2>3. file'[t].text \in {0, changes' + 1}
    BY <1>3, <2>2
  <2>4. target' \in Dirs /\ target' <= changes' /\ file'[target'].text \in {0, changes' + 1}
    BY <1>3, <2>3
  <2>5. CASE changes' = changes
    BY <1>a, <1>3, <2>1, <2>2, <2>4, <2>5 DEF Fresh
  <2>6. CASE changes' = changes + 1
    <3>1. db \in 0 .. (changes + 1) + 1 /\ db >= db
      BY <1>a
    <3> QED
      BY <1>3, <2>1, <2>2, <2>4, <2>6, <3>1 DEF Fresh
  <2> QED
    BY <1>3, <2>5, <2>6
<1>4. file[target].inode \in Nat /\ file[target].text \in Nat
  BY <1>a DEF Fresh
<1>f. /\ [file[target] EXCEPT !.text = 0] = [inode |-> file[target].inode, text |-> 0]
      /\ [file[target] EXCEPT !.text = changes + 1] = [inode |-> file[target].inode, text |-> changes + 1]
  BY <1>a DEF Fresh
<1>5. CASE Truncate
  BY <1>5, <1>a, <1>4, <1>f, <1>3 DEF Truncate, Changing
<1>6. CASE WriteText
  BY <1>6, <1>a, <1>4, <1>f, <1>3 DEF WriteText
<1>7. CASE Rename
  <2>1. New \in Nat /\ New \in {0, changes' + 1}
    BY <1>7, <1>a DEF Rename, Changing, New
  <2> QED
    BY <1>7, <1>a, <2>1, <1>3 DEF Rename, Changing
<1>8. CASE Remove
  BY <1>8, <1>a, <1>3 DEF Remove, Changing, Missing
<1>9. CASE Swap
  <2>1. New \in Nat /\ New \in {0, changes' + 1} /\ target + 1 \in Dirs
    BY <1>9, <1>a, JsonAssumption DEF Swap, Changing, New, Dirs
  <2> QED
    BY <1>9, <1>a, <2>1, <1>3 DEF Swap, Changing
<1>10. ASSUME NEW t \in Dirs, Purge(t) PROVE Fresh' /\ db' >= db
  BY <1>10, <1>a DEF Purge, Becomes, Missing, Fresh, Dirs
<1> QED
  BY <1>1, <1>2, <1>5, <1>6, <1>7, <1>8, <1>9, <1>10 DEF Next, Task, OtherProcess

\* The rights in use never go back to an older text, or to none: load() keeps
\* them unless all of the new text is valid (auth/json.py).  In every style.
THEOREM Monotone == Spec => NeverBack
<1>1. Init => Fresh
  BY JsonAssumption DEF Init, Fresh, Dirs, Missing
<1>2. Fresh /\ [Next]_vars => Fresh'
  BY FreshInductive
<1> DEFINE A == db' >= db
<1>3. Fresh /\ [Next]_vars => A
  BY FreshInductive
<1> HIDE DEF A
<1>4. Spec => [][A]_vars
  BY <1>1, <1>2, <1>3, PTL DEF Spec
<1> QED
  BY <1>4 DEF NeverBack, A
-----------------------------------------------------------------------------
(* Types, in every style *)

Texts == [inode : 0 .. MaxChanges + 1, text : 0 .. MaxChanges + 1]

\* No more links than changes were made.
Typed == TypeOK /\ target <= changes

\* The task.
LEMMA TaskTypes ==
  ASSUME Typed, Task \/ Cancel \/ DirectoryEvent \/ DirectoryLost
  PROVE  Typed'
<1>a. /\ TypeOK /\ target <= changes
      /\ target \in 0 .. MaxChanges /\ MaxChanges \in Nat
      /\ \A p \in Paths : Inode(p) \in 0 .. MaxChanges + 1
  <2>1. TypeOK /\ target \in 0 .. MaxChanges /\ MaxChanges \in Nat
    BY JsonAssumption DEF Typed, TypeOK, Dirs
  <2>2. ASSUME NEW p \in Paths PROVE Inode(p) \in 0 .. MaxChanges + 1
    <3>1. CASE p = Data
      BY <2>1, <3>1 DEF Inode
    <3>2. CASE p # Data
      <4>1. PICK t \in Dirs : p = File(t)
        BY <3>2 DEF Paths
      <4>2. p[2] = t
        BY <4>1 DEF File
      <4> QED
        BY <2>1, <3>2, <4>2 DEF Inode, TypeOK
    <3> QED
      BY <3>1, <3>2
  <2> QED
    BY <2>1, <2>2 DEF Typed
<1> USE DEF fileVars
<1>1. CASE Starting \/ Supervise
  BY <1>a, <1>1 DEF Typed, Starting, Supervise, TypeOK
<1>2. CASE Resolve
  <2>1. Resolved \subseteq Paths
    BY <1>a DEF Resolved, Paths, Dirs
  <2>2. watches' \in [Paths -> 0 .. MaxChanges + 1]
    BY <1>2, <1>a DEF Resolve, Unwatched, TypeOK
  <2> QED
    BY <1>a, <1>2, <2>1, <2>2 DEF Typed, Resolve, Unwatched, TypeOK
<1>3. CASE Load
  BY <1>a, <1>3 DEF Typed, Load, Loaded, TypeOK, Dirs
<1>4. ASSUME UNCHANGED <<fileVars, db>>, watches' = [q \in Paths |-> 0],
             pc' \in {"sleeping", "cancelled"}, paths' = {}, todo' = {}, events' = {}
      PROVE  Typed'
  BY <1>a, <1>4 DEF Typed, TypeOK
<1>5. CASE Cancel
  BY <1>4, <1>5 DEF Cancel
<1>6. ASSUME NEW p \in Paths, WatchFails(p) PROVE Typed'
  BY <1>4, <1>6 DEF WatchFails
<1>7. ASSUME NEW p \in Paths, WatchNew(p) \/ Rewatch(p) PROVE Typed'
  <2>1. /\ pc' \in {pc, "resolving"} /\ todo' = todo \ {p}
        /\ watches' = [watches EXCEPT ![p] = Inode(p)]
        /\ UNCHANGED <<style, target, file, changes, paths, db, events>>
    BY <1>7 DEF WatchNew, Rewatch, Rewatched, Watch
  <2> QED
    BY <1>a, <2>1 DEF Typed, TypeOK
<1>8. ASSUME NEW p \in Paths, TakeEvent(p) PROVE Typed'
  BY <1>a, <1>8 DEF Typed, TakeEvent, TypeOK
<1>9. CASE DirectoryEvent
  BY <1>a, <1>9 DEF Typed, DirectoryEvent, Rewatched, TypeOK
<1>10. CASE DirectoryLost
  BY <1>4, <1>10 DEF DirectoryLost
<1> QED
  BY <1>1, <1>2, <1>3, <1>5, <1>6, <1>7, <1>8, <1>9, <1>10 DEF Task

\* The other process.
LEMMA OtherTypes ==
  ASSUME Typed, OtherProcess
  PROVE  Typed'
<1>a. /\ TypeOK /\ target <= changes /\ file[target] \in Texts
      /\ target \in 0 .. MaxChanges /\ MaxChanges \in Nat /\ changes \in 0 .. MaxChanges
  BY JsonAssumption DEF Typed, TypeOK, Dirs, Texts
<1>b. Missing \in Texts /\ (changes < MaxChanges => [inode |-> New, text |-> New] \in Texts)
  BY <1>a DEF Missing, New, Texts
<1>c. /\ [file[target] EXCEPT !.text = 0] \in Texts
      /\ [file[target] EXCEPT !.text = changes + 1] \in Texts
  BY <1>a DEF Texts
<1>1. ASSUME NEW t \in Dirs, NEW f \in Texts, NEW p \in Paths, Touched(p), Becomes(t, f),
             UNCHANGED <<style, taskVars, watches>>, target' \in Dirs, target' <= changes',
             changes' \in 0 .. MaxChanges
      PROVE  Typed'
  <2>1. events' \subseteq Paths
    BY <1>a, <1>1 DEF Touched, TypeOK
  <2>2. file' \in [Dirs -> Texts]
    BY <1>a, <1>1 DEF Becomes, TypeOK, Texts
  <2> QED
    BY <1>a, <1>1, <2>1, <2>2 DEF Typed, TypeOK, Texts, taskVars
<1>2. target \in Dirs /\ Data \in Paths /\ \A t \in Dirs : File(t) \in Paths
  BY <1>a DEF Dirs, Paths
<1>3. Changing => /\ changes' \in 0 .. MaxChanges /\ target <= changes'
                  /\ changes < MaxChanges /\ target + 1 \in Dirs /\ target + 1 <= changes'
  BY <1>a DEF Changing, Dirs
<1>4. CASE Truncate \/ WriteText \/ Rename \/ Remove
  <2>1. /\ \E f \in Texts : Becomes(target, f)
        /\ Touched(File(target)) /\ UNCHANGED <<style, target, taskVars, watches>>
        /\ changes' \in 0 .. MaxChanges /\ target <= changes'
    BY <1>4, <1>a, <1>b, <1>c, <1>3 DEF Truncate, WriteText, Rename, Remove
  <2> QED
    BY <1>1, <1>2, <2>1
<1>5. CASE Swap
  BY <1>5, <1>1, <1>2, <1>3, <1>b DEF Swap
<1>6. ASSUME NEW t \in Dirs, Purge(t) PROVE Typed'
  BY <1>6, <1>a, <1>1, <1>2, <1>b DEF Purge
<1> QED
  BY <1>4, <1>5, <1>6 DEF OtherProcess

\* The types of the file, the watches and the database, in every style.
THEOREM TypeCorrect == Spec => []TypeOK
<1>1. Init => Typed
  BY JsonAssumption DEF Init, Typed, TypeOK, Dirs, Missing
<1>2. Typed /\ [Next]_vars => Typed'
  <2>1. Typed /\ UNCHANGED vars => Typed'
    BY DEF Typed, TypeOK, vars, fileVars, taskVars
  <2> QED
    BY <2>1, TaskTypes, OtherTypes DEF Next
<1>3. Typed => TypeOK
  BY DEF Typed
<1> QED
  BY <1>1, <1>2, <1>3, PTL DEF Spec
-----------------------------------------------------------------------------
(* What is watched, in every style *)

\* What is still to be watched is among the paths, too.
WatchedInv == Typed /\ WatchesOneFile /\ todo \subseteq paths

LEMMA WatchedByTask ==
  ASSUME WatchedInv, Task \/ Cancel \/ DirectoryEvent \/ DirectoryLost
  PROVE  WatchesOneFile' /\ todo' \subseteq paths'
<1>a. WatchesOneFile /\ todo \subseteq paths /\ watches \in [Paths -> 0 .. MaxChanges + 1]
  BY DEF WatchedInv, Typed, TypeOK
<1>1. CASE Starting \/ Supervise \/ Load \/ DirectoryEvent
  <2>1. /\ UNCHANGED <<paths, todo, watches, events>>
        /\ pc' \in {"starting", "sleeping", "cancelled"} => pc \in {"starting", "sleeping", "cancelled"}
    BY <1>1 DEF Starting, Supervise, Restart, Load, DirectoryEvent, Rewatched
  <2> QED
    BY <1>a, <2>1 DEF WatchesOneFile
<1>2. CASE Resolve
  <2>1. /\ paths' = Resolved /\ todo' \subseteq Resolved /\ pc' = "watching"
        /\ watches' = [p \in Paths |-> IF p \in paths \ Resolved THEN 0 ELSE watches[p]]
        /\ events' = events \ (paths \ Resolved)
    BY <1>2 DEF Resolve, Unwatched
  <2>2. \A t, u : {File(t), File(u)} \subseteq Resolved => t = u
    BY PathsDiffer DEF Resolved
  <2>3. ASSUME NEW p \in Paths, watches'[p] # 0 \/ p \in events'
        PROVE  p \in Resolved
    <3>1. p \notin paths \ Resolved
      BY <2>1, <2>3
    <3>2. watches[p] # 0 \/ p \in events
      BY <2>1, <2>3
    <3>3. p \in paths
      BY <1>a, <3>2 DEF WatchesOneFile
    <3> QED
      BY <3>1, <3>3
  <2> QED
    BY <2>1, <2>2, <2>3 DEF WatchesOneFile
<1>3. ASSUME paths' = {}, todo' = {}, events' = {}, watches' = [q \in Paths |-> 0]
      PROVE  WatchesOneFile' /\ todo' \subseteq paths'
  BY <1>3 DEF WatchesOneFile
<1>4. CASE Cancel \/ DirectoryLost
  BY <1>3, <1>4 DEF Cancel, DirectoryLost
<1>5. ASSUME NEW p \in Paths, WatchFails(p)
      PROVE  WatchesOneFile' /\ todo' \subseteq paths'
  BY <1>3, <1>5 DEF WatchFails
<1>6. ASSUME NEW p \in Paths, WatchNew(p) \/ Rewatch(p)
      PROVE  WatchesOneFile' /\ todo' \subseteq paths'
  <2>1. /\ p \in todo /\ todo' = todo \ {p} /\ watches' = [watches EXCEPT ![p] = Inode(p)]
        /\ UNCHANGED <<paths, events>> /\ pc' \in {"watching", "resolving"}
    BY <1>6 DEF WatchNew, Rewatch, Rewatched, Watch
  <2>2. \A q \in Paths : q # p => watches'[q] = watches[q]
    BY <1>a, <2>1
  <2> QED
    BY <1>a, <2>1, <2>2 DEF WatchesOneFile
<1>7. ASSUME NEW p \in Paths, TakeEvent(p)
      PROVE  WatchesOneFile' /\ todo' \subseteq paths'
  <2>1. /\ p \in events /\ todo' = {p} /\ watches' = [watches EXCEPT ![p] = 0]
        /\ events' \subseteq events /\ paths' = paths /\ pc' = "rewatching"
    BY <1>7 DEF TakeEvent
  <2>2. \A q \in Paths : watches'[q] # 0 => watches[q] # 0
    BY <1>a, <2>1
  <2> QED
    BY <1>a, <2>1, <2>2 DEF WatchesOneFile
<1> QED
  BY <1>1, <1>2, <1>4, <1>5, <1>6, <1>7 DEF Task

\* The other process only adds events of what is watched.
LEMMA WatchedByOthers ==
  ASSUME WatchedInv, OtherProcess
  PROVE  WatchesOneFile' /\ todo' \subseteq paths'
<1>1. /\ UNCHANGED <<pc, paths, todo, watches>>
      /\ \A p \in events' : p \in events \/ watches[p] # 0
  BY DEF OtherProcess, Truncate, WriteText, Rename, Remove, Swap, Purge, Touched, taskVars
<1> QED
  BY <1>1 DEF WatchedInv, WatchesOneFile

\* However the file is changed, and in every style, _watch_task (inotify.py 108-158)
\* watches what it found last and nothing else: one file, and the link to it.
THEOREM OneFile == Spec => []WatchesOneFile
<1>1. Init => WatchedInv
  BY JsonAssumption DEF Init, WatchedInv, Typed, TypeOK, WatchesOneFile, Dirs, Missing
<1>2. WatchedInv /\ [Next]_vars => WatchedInv'
  <2>1. WatchedInv /\ UNCHANGED vars => WatchedInv'
    BY DEF WatchedInv, Typed, TypeOK, WatchesOneFile, vars, fileVars, taskVars
  <2>2. WatchedInv /\ Next => Typed'
    BY TaskTypes, OtherTypes DEF WatchedInv, Next
  <2>3. WatchedInv /\ Next => WatchesOneFile' /\ todo' \subseteq paths'
    BY WatchedByTask, WatchedByOthers DEF Next
  <2> QED
    BY <2>1, <2>2, <2>3 DEF WatchedInv
<1>3. WatchedInv => WatchesOneFile
  BY DEF WatchedInv
<1> QED
  BY <1>1, <1>2, <1>3, PTL DEF Spec
=============================================================================
