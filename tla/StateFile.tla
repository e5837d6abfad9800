------------------------------ MODULE StateFile ------------------------------
(***************************************************************************)
(* The durable record of a run at the grain of system calls: Store.Set     *)
(* reads the file, writes a temporary one, syncs it, renames it over the   *)
(* file and syncs the directory; Store.Clear removes the file.  A process   *)
(* holds the run lock from before its first look at the record until it    *)
(* ends, so only one of them reads and writes it.                          *)
(*                                                                         *)
(* What a power loss can do is carried along: doubt holds the contents     *)
(* that the file may turn out to have instead of the one processes read.   *)
(***************************************************************************)
CONSTANTS
    Procs,      \* the processes that are started
    Keys,       \* the fields of the record
    Started,    \* cutover_started
    Values,     \* what a field may hold
    None,       \* no line for a field
    Torn        \* a file whose data never reached the disk

ASSUME MarkerAssumption ==
    /\ Started \in Keys
    /\ None \notin Values \cup Procs
    /\ Torn \notin [Keys -> Values \cup {None}]

VARIABLES
    pos,        \* where each process is in Prepare, "run" after it
    lock,       \* who holds the run lock
    file,       \* the state file as processes read it
    doubt,      \* what a power loss may leave in its place
    op,         \* what the holder's Set does next, "none" when there is none
    key, value, \* its arguments
    temp,       \* the content of its temporary file
    synced,     \* the temporary file has been synced
    saved       \* what callers have been told is recorded, None: nothing

procs == <<pos, lock>>
call == <<op, key, value, temp, synced>>
vars == <<pos, lock, file, doubt, op, key, value, temp, synced, saved>>

Texts == [Keys -> Values \cup {None}]
NoFile == [k \in Keys |-> None]
Lines(f) == IF f = Torn THEN NoFile ELSE f

Init ==
    /\ pos = [p \in Procs |-> "out"] /\ lock = None
    /\ file = NoFile /\ doubt = {}
    /\ op = "none" /\ key \in Keys /\ value \in Values
    /\ temp = NoFile /\ synced = FALSE
    /\ saved = NoFile

-----------------------------------------------------------------------------
(* The start and the end of a process.                                     *)

\* Mutant: the lock is taken whether or not another process holds it.
AcquireBlindly(p) ==
    /\ pos[p] = "out"
    /\ lock' = p /\ pos' = [pos EXCEPT ![p] = "prepare"]
    /\ UNCHANGED <<file, doubt, call, saved>>

\* Without blocking: a second process is refused, and ends.
AcquireLock(p) ==
    /\ pos[p] = "out" /\ lock = None
    /\ lock' = p /\ pos' = [pos EXCEPT ![p] = "prepare"]
    /\ UNCHANGED <<file, doubt, call, saved>>

Resume(p) ==
    /\ pos[p] = "prepare"
    /\ pos' = [pos EXCEPT ![p] = "run"]
    /\ UNCHANGED <<lock, file, doubt, call, saved>>

\* A record of a run that has not reached the cutover, or none.
AskStartFresh(p) ==
    /\ pos[p] = "prepare" /\ Lines(file)[Started] = None
    /\ pos' = [pos EXCEPT ![p] = "ask"]
    /\ UNCHANGED <<lock, file, doubt, call, saved>>

\* The answer is yes.
StartFresh(p) ==
    /\ pos[p] = "ask"
    /\ pos' = [pos EXCEPT ![p] = "run"]
    /\ file' = NoFile /\ doubt' = doubt \cup {file} /\ saved' = NoFile
    /\ UNCHANGED <<lock, call>>

\* The lock goes with the process, and so does the Set under way.
Exit(p) ==
    /\ pos[p] # "out"
    /\ pos' = [pos EXCEPT ![p] = "out"]
    /\ lock' = None /\ op' = "none"
    /\ UNCHANGED <<file, doubt, key, value, temp, synced, saved>>

-----------------------------------------------------------------------------
\* Until a Set returns its caller may find the field as it was or as it will be.
Set(k, v) ==
    /\ (\E p \in Procs : pos[p] = "run") /\ op = "none" /\ op' = "write"
    /\ key' = k /\ value' = v
    /\ saved' = [saved EXCEPT ![k] = None]
    /\ UNCHANGED <<procs, file, doubt, temp, synced>>

\* The lines of the file, without the field's own, and the new one.
WriteTemp(lines) ==
    /\ op = "write" /\ op' = "sync"
    /\ temp' = [lines EXCEPT ![key] = value]
    /\ synced' = FALSE
    /\ UNCHANGED <<procs, file, doubt, key, value, saved>>

\* A file that cannot be read is taken for an empty one.
WriteUnread == WriteTemp(NoFile)

Write == WriteTemp(Lines(file))

\* Mutant: the temporary file is renamed without having been synced.
SyncTempForgotten ==
    /\ op = "sync" /\ op' = "rename"
    /\ UNCHANGED <<procs, file, doubt, key, value, temp, synced, saved>>

SyncTemp ==
    /\ op = "sync" /\ op' = "rename"
    /\ synced' = TRUE
    /\ UNCHANGED <<procs, file, doubt, key, value, temp, saved>>

\* Until the directory is synced the old file may come back; without a sync of
\* the temporary file the new one may have no data.
Rename ==
    /\ op = "rename" /\ op' = "syncDir"
    /\ file' = temp
    /\ doubt' = doubt \cup {file} \cup (IF synced THEN {} ELSE {Torn})
    /\ UNCHANGED <<procs, key, value, temp, synced, saved>>

SyncDir ==
    /\ op = "syncDir" /\ op' = "none"
    /\ doubt' = {}
    /\ saved' = [saved EXCEPT ![key] = value]
    /\ UNCHANGED <<procs, file, key, value, temp, synced>>

\* A call fails: the temporary file is of no account.
Abandon ==
    /\ op # "none" /\ op' = "none"
    /\ UNCHANGED <<procs, file, doubt, key, value, temp, synced, saved>>

\* The plan is refused, or the run is done.
Clear ==
    /\ (\E p \in Procs : pos[p] = "run") /\ op = "none"
    /\ file' = NoFile
    /\ doubt' = doubt \cup {file}
    /\ saved' = NoFile
    /\ UNCHANGED <<procs, call>>

PowerLoss ==
    /\ file' \in {file} \cup doubt
    /\ doubt' = {}
    /\ pos' = [p \in Procs |-> "out"] /\ lock' = None /\ op' = "none"
    /\ UNCHANGED <<key, value, temp, synced, saved>>

Next ==
    \/ \E p \in Procs :
        AcquireLock(p) \/ Resume(p) \/ AskStartFresh(p) \/ StartFresh(p) \/ Exit(p)
    \/ \E k \in Keys, v \in Values : Set(k, v)
    \/ Write \/ SyncTemp \/ Rename \/ SyncDir
    \/ Abandon \/ Clear \/ PowerLoss

Spec == Init /\ [][Next]_vars

ReadErrorSpec == Init /\ [][Next \/ WriteUnread]_vars

-----------------------------------------------------------------------------
\* Every variable holds a value the code could give it.
TypeOK ==
    /\ pos \in [Procs -> {"out", "prepare", "ask", "run"}] /\ lock \in Procs \cup {None}
    /\ file \in Texts \cup {Torn} /\ doubt \subseteq Texts \cup {Torn}
    /\ op \in {"none", "write", "sync", "rename", "syncDir"}
    /\ key \in Keys /\ value \in Values
    /\ temp \in Texts /\ synced \in BOOLEAN /\ saved \in Texts

\* A field that a Set reported as recorded stays recorded, whatever other Sets
\* do, fail or leave undone, and whenever the power goes (the two syncs of
\* Store.Set).
SavedSurvives == \A k \in Keys : saved[k] # None => Lines(file)[k] = saved[k]

\* A run starts afresh only on a record whose cutover was never reported as
\* begun, also when the question was answered long after the record was read
\* ("starting fresh is not safe now", Run.Prepare; AcquireLock).
FreshIsSafe == [][\A p \in Procs : StartFresh(p) => saved[Started] = None]_vars

\* Whatever its system calls, failures and power losses come to, the file is a
\* record whose fields change one at a time: a Set alters no other field, a
\* Set cut short leaves the record as it was or as it would have been, and a
\* power loss brings back only a record that a process could have read since
\* the last report ("Set records key=value atomically", Store.Set; Store.Clear).
Promise == INSTANCE AtomicRecord
    WITH record <- Lines(file), past <- {Lines(c) : c \in doubt}, promised <- saved

SetIsAtomic == Promise!Spec

-----------------------------------------------------------------------------
\* The content c keeps every field reported as recorded.
Keeps(c) == \A k \in Keys : saved[k] # None => Lines(c)[k] = saved[k]

\* Every content that may turn up keeps them: the file and what a power loss may
\* leave.  Only the holder of the lock is there to write, so what a fresh start
\* was told stays true, and the temporary file about to be renamed still differs
\* from the file in the one field that its Set was called for.
KeepInv ==
    /\ TypeOK
    /\ \A p \in Procs : pos[p] # "out" => lock = p
    /\ op # "none" => \E p \in Procs : pos[p] = "run"
    /\ \A p \in Procs : pos[p] = "ask" => saved[Started] = None
    /\ Keeps(file)
    /\ \A c \in doubt : Keeps(c)
    /\ Torn \notin doubt \cup {file}
    /\ op \in {"sync", "rename"} => temp = [file EXCEPT ![key] = value]
    /\ op = "syncDir" => file[key] = value
    /\ op = "rename" => synced
    /\ op # "none" => saved[key] = None

=============================================================================
