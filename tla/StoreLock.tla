----------------------------- MODULE StoreLock -----------------------------
(***************************************************************************)
(* The lock of FileTransferAuthorizationStore.  Every operation of the     *)
(* store runs under withLock: it reads the state file, and may replace it. *)
(* The lock is a file, and calls of one process, or of several, compete    *)
(* for it.  The owner of a lock file is the process its metadata names;    *)
(* a file whose owner is gone is reclaimed once it has not been renewed    *)
(* for LOCK_STALE_MS.  Whoever creates, reclaims or removes the lock file  *)
(* does so while it holds a second file, the guard.                        *)
(*                                                                         *)
(* One action is one call of the file system, as the calls of a process    *)
(* interleave wherever one waits for the file system.  A file is an        *)
(* element of Files that stands for its inode and for the token written    *)
(* in it; a file nobody remembers may be used again.                       *)
(***************************************************************************)
EXTENDS Integers, FiniteSets

CONSTANTS
  Callers,       \* calls of withLock
  Instances,     \* the callers of each process
  Files,         \* lock and guard files; bounds those that matter at a time
  MaxAbandoned,  \* bounds the files that are left to be reclaimed by others
  MaxFaults,     \* bounds the writes that fail
  MayStall,      \* may a process stall before it has written a file's metadata?
  None

ASSUME InstancesAssumption ==
  /\ UNION Instances = Callers
  /\ \A i, j \in Instances : i # j => i \cap j = {}
ASSUME FilesAssumption == None \notin Files \cup Callers
ASSUME BoundsAssumption == MaxAbandoned \in Nat /\ MaxFaults \in Nat /\ MayStall \in BOOLEAN

VARIABLES
  call,       \* where each call is, and the files it has created
  seen,       \* the file whose snapshot a call holds, while it is unchanged
  lock,       \* the file at lockPath
  guard,      \* the file at reclaimPath
  owner,      \* the caller whose process a file's metadata names, if it runs
  old,        \* the files not renewed for LOCK_STALE_MS
  current,    \* the callers that have read the state file as it is now
  abandoned,
  faults

pathVars == <<lock, guard, owner, old>>
boundVars == <<abandoned, faults>>
lockVars == <<call, seen, lock, guard, owner, old, current, abandoned, faults>>

(* Where a call waits.  From "guard" to "unlinkGuard" it tries to take the *)
(* guard, for its purpose; with the guard it goes on to the steps of that  *)
(* purpose, and drops the guard in "drop" and "unlinkOwn".                 *)
Steps ==
  {"idle", "guard", "recheck", "unlinkGuard", "sign", "check", "drop", "unlinkOwn",
   "create", "write", "inspect", "link", "confirm", "match", "unlinkStale",
   "read", "operate", "rename", "readLock", "checkAgain", "unlinkLock"}

(* What the guard is wanted for, or what follows when it is dropped.       *)
Purposes == {"acquire", "reclaim", "operate", "release", "end"}

Idle == [step |-> "idle", purpose |-> "end", lock |-> None, guard |-> None]

LockInit ==
  /\ call = [c \in Callers |-> Idle]
  /\ seen = [c \in Callers |-> None]
  /\ lock = None /\ guard = None
  /\ owner = [f \in Files |-> None]
  /\ old = {}
  /\ current = {}
  /\ abandoned = 0 /\ faults = 0

Remembered ==
  {lock, guard} \cup {seen[c] : c \in Callers}
    \cup {call[c].lock : c \in Callers} \cup {call[c].guard : c \in Callers}

NewFile == CHOOSE f \in Files : f \notin Remembered

FilesLeft == Files \ Remembered # {}

GoTo(c, step)           == call' = [call EXCEPT ![c].step = step]
GoFor(c, step, purpose) == call' = [call EXCEPT ![c].step = step, ![c].purpose = purpose]

(* Faulty variant: a call that fails keeps its handles.                    *)
EndUnclosed(c) == call' = [call EXCEPT ![c].step = "idle"]

End(c) == call' = [call EXCEPT ![c] = Idle]

(* A file that is written to or renewed has another modification time, and *)
(* is no longer what a snapshot of it says.                                *)
Touch(f) ==
  /\ old' = old \ {f}
  /\ seen' = [c \in Callers |-> IF seen[c] = f THEN None ELSE seen[c]]

(* Faulty variant: a process that has not renewed its file is taken to be  *)
(* gone.                                                                   *)
StaleByAge(f) == f \in old

(* Not renewed for LOCK_STALE_MS, and no process that runs is named in it: *)
(* a file that has no metadata yet names none.                             *)
Stale(f) == f \in old /\ owner[f] = None

OwnsGuard(c) == guard = call[c].guard

-----------------------------------------------------------------------------
(* acquireReclaimGuard.                                                    *)

Begin(c) ==
  /\ call[c].step = "idle"
  /\ GoFor(c, "guard", "acquire")
  /\ UNCHANGED <<seen, pathVars, current, boundVars>>

(* The guard is created empty, if there is none.                           *)
CreateGuard(c) ==
  /\ call[c].step = "guard"
  /\ guard = None
  /\ FilesLeft
  /\ guard' = NewFile
  /\ owner' = [owner EXCEPT ![NewFile] = None]
  /\ old' = old \ {NewFile}
  /\ call' = [call EXCEPT ![c].step = "sign", ![c].guard = NewFile]
  /\ UNCHANGED <<seen, lock, current, boundVars>>

SignGuard(c) ==
  /\ call[c].step = "sign"
  /\ owner' = [owner EXCEPT ![call[c].guard] = c]
  /\ Touch(call[c].guard)
  /\ GoTo(c, IF call[c].purpose = "reclaim" THEN "inspect" ELSE "check")
  /\ UNCHANGED <<lock, guard, current, boundVars>>

(* When the metadata cannot be written, the guard's path is cleared and    *)
(* the call fails.                                                         *)
FailToSign(c) ==
  /\ call[c].step = "sign"
  /\ faults < MaxFaults
  /\ guard' = None
  /\ faults' = faults + 1
  /\ End(c)
  /\ UNCHANGED <<seen, lock, owner, old, current, abandoned>>

(* Without the guard there is nothing to reclaim for now: the call tries   *)
(* to acquire again.                                                       *)
WithoutGuard(purpose) == IF purpose = "reclaim" THEN "acquire" ELSE purpose

InspectGuard(c) ==
  /\ call[c].step = "guard"
  /\ guard # None
  /\ Stale(guard)
  /\ seen' = [seen EXCEPT ![c] = guard]
  /\ GoTo(c, "recheck")
  /\ UNCHANGED <<pathVars, current, boundVars>>

GuardIsBusy(c) ==
  /\ call[c].step = "guard"
  /\ guard # None
  /\ ~Stale(guard)
  /\ call[c].purpose = "reclaim"
  /\ GoFor(c, "guard", "acquire")
  /\ UNCHANGED <<seen, pathVars, current, boundVars>>

(* staleReclaimGuardIsUnchanged.                                           *)
RecheckGuard(c) ==
  /\ call[c].step = "recheck"
  /\ IF guard # None /\ guard = seen[c]
     THEN GoTo(c, "unlinkGuard")
     ELSE GoFor(c, "guard", WithoutGuard(call[c].purpose))
  /\ seen' = [seen EXCEPT ![c] = None]
  /\ UNCHANGED <<pathVars, current, boundVars>>

(* Whatever is at the path by now is removed.                              *)
UnlinkStaleGuard(c) ==
  /\ call[c].step = "unlinkGuard"
  /\ guard' = None
  /\ GoFor(c, "guard", WithoutGuard(call[c].purpose))
  /\ UNCHANGED <<seen, lock, owner, old, current, boundVars>>

(* LOCK_RETRIES attempts have failed.                                      *)
GiveUp(c) ==
  /\ call[c].step = "guard"
  /\ call[c].purpose = "acquire"
  /\ End(c)
  /\ UNCHANGED <<seen, pathVars, current, boundVars>>

-----------------------------------------------------------------------------
(* releaseReclaimGuard: the guard's metadata is read, then its path is     *)
(* unlinked.                                                               *)

AfterGuard(c) ==
  call' = [call EXCEPT ![c] =
    CASE @.purpose = "end"     -> Idle
      [] @.purpose = "operate" -> [@ EXCEPT !.step = "read", !.guard = None]
      [] OTHER                 -> [@ EXCEPT !.step = "guard", !.guard = None]]

DropGuard(c) ==
  /\ call[c].step = "drop"
  /\ IF OwnsGuard(c) THEN GoTo(c, "unlinkOwn") ELSE AfterGuard(c)
  /\ UNCHANGED <<seen, pathVars, current, boundVars>>

UnlinkOwnGuard(c) ==
  /\ call[c].step = "unlinkOwn"
  /\ guard' = None
  /\ AfterGuard(c)
  /\ UNCHANGED <<seen, lock, owner, old, current, boundVars>>

-----------------------------------------------------------------------------
(* withLock, with the guard: the lock is created if there is none, else it *)
(* may have to be reclaimed.                                               *)

CheckGuard(c) ==
  /\ call[c].step = "check"
  /\ Touch(call[c].guard)
  /\ GoTo(c, IF ~OwnsGuard(c) THEN "drop"
             ELSE IF call[c].purpose = "release" THEN "readLock" ELSE "create")
  /\ UNCHANGED <<lock, guard, owner, current, boundVars>>

(* Faulty variant: the file is opened whether or not it exists.            *)
CanCreateLockAnyway == TRUE

(* open(lockPath, "wx").                                                   *)
CanCreateLock == lock = None

CreateLock(c) ==
  /\ call[c].step = "create"
  /\ CanCreateLock
  /\ FilesLeft
  /\ lock' = NewFile
  /\ owner' = [owner EXCEPT ![NewFile] = None]
  /\ old' = old \ {NewFile}
  /\ call' = [call EXCEPT ![c].step = "write", ![c].lock = NewFile]
  /\ UNCHANGED <<seen, guard, current, boundVars>>

LockExists(c) ==
  /\ call[c].step = "create"
  /\ ~CanCreateLock
  /\ GoFor(c, "drop", "reclaim")
  /\ UNCHANGED <<seen, pathVars, current, boundVars>>

WriteLock(c) ==
  /\ call[c].step = "write"
  /\ owner' = [owner EXCEPT ![call[c].lock] = c]
  /\ Touch(call[c].lock)
  /\ GoFor(c, "drop", "operate")
  /\ UNCHANGED <<lock, guard, current, boundVars>>

(* The lock is removed again, by the holder of the guard only; else an     *)
(* empty file stays behind.                                                *)
FailToWriteLock(c) ==
  /\ call[c].step = "write"
  /\ faults < MaxFaults
  /\ faults' = faults + 1
  /\ IF OwnsGuard(c)
     THEN lock' = None /\ UNCHANGED abandoned
     ELSE abandoned < MaxAbandoned /\ abandoned' = abandoned + 1 /\ UNCHANGED lock
  /\ call' = [call EXCEPT ![c].step = "drop", ![c].purpose = "end", ![c].lock = None]
  /\ UNCHANGED <<seen, guard, owner, old, current>>

-----------------------------------------------------------------------------
(* reclaimStaleLock, with the guard.  Linking the lock to a second path    *)
(* and looking at it there again only ends the attempt earlier.            *)

InspectLock(c) ==
  /\ call[c].step = "inspect"
  /\ IF lock # None /\ Stale(lock)
     THEN /\ seen' = [seen EXCEPT ![c] = lock]
          /\ GoTo(c, "link")
     ELSE /\ GoFor(c, "drop", "acquire")
          /\ UNCHANGED seen
  /\ UNCHANGED <<pathVars, current, boundVars>>

IsAsSeen(c) == lock # None /\ lock = seen[c]

LinkLock(c) ==
  /\ call[c].step = "link"
  /\ IF IsAsSeen(c)
     THEN GoTo(c, "confirm") /\ UNCHANGED seen
     ELSE GoFor(c, "drop", "acquire") /\ seen' = [seen EXCEPT ![c] = None]
  /\ UNCHANGED <<pathVars, current, boundVars>>

ConfirmGuard(c) ==
  /\ call[c].step = "confirm"
  /\ IF OwnsGuard(c) THEN GoTo(c, "match") ELSE GoFor(c, "drop", "acquire")
  /\ Touch(call[c].guard)
  /\ UNCHANGED <<lock, guard, owner, current, boundVars>>

MatchLock(c) ==
  /\ call[c].step = "match"
  /\ IF IsAsSeen(c) THEN GoTo(c, "unlinkStale") ELSE GoFor(c, "drop", "acquire")
  /\ seen' = [seen EXCEPT ![c] = None]
  /\ UNCHANGED <<pathVars, current, boundVars>>

(* Whatever is at the path by now is removed; if nothing is, the call      *)
(* fails.                                                                  *)
UnlinkStaleLock(c) ==
  /\ call[c].step = "unlinkStale"
  /\ lock' = None
  /\ GoFor(c, "drop", IF lock = None THEN "end" ELSE "acquire")
  /\ UNCHANGED <<seen, guard, owner, old, current, boundVars>>

-----------------------------------------------------------------------------
(* The operation: it reads the state, and either returns or replaces it.   *)

ReadState(c) ==
  /\ call[c].step = "read"
  /\ current' = current \cup {c}
  /\ GoTo(c, "operate")
  /\ UNCHANGED <<seen, pathVars, boundVars>>

Leave(c) ==
  /\ GoFor(c, "guard", "release")
  /\ current' = current \ {c}

Return(c) ==
  /\ call[c].step = "operate"
  /\ Leave(c)
  /\ UNCHANGED <<seen, pathVars, boundVars>>

(* ownedLockIsCurrent: a call whose lock is no longer there may not write. *)
OwnsLock(c) == lock = call[c].lock

CheckLock(c) ==
  /\ call[c].step = "operate"
  /\ IF OwnsLock(c)
     THEN GoTo(c, "rename") /\ UNCHANGED current
     ELSE Leave(c)
  /\ UNCHANGED <<seen, pathVars, boundVars>>

ReplaceState(c) ==
  /\ call[c].step = "rename"
  /\ GoFor(c, "guard", "release")
  /\ current' = {}
  /\ UNCHANGED <<seen, pathVars, boundVars>>

-----------------------------------------------------------------------------
(* releaseOwnedLock, with the guard: it is tried until the guard is held.  *)

ReadLock(c) ==
  /\ call[c].step = "readLock"
  /\ IF OwnsLock(c) THEN GoTo(c, "checkAgain") ELSE GoFor(c, "drop", "end")
  /\ UNCHANGED <<seen, pathVars, current, boundVars>>

(* Faulty variant: a release that has lost the guard leaves the lock.      *)
CheckGuardOnce(c) ==
  /\ call[c].step = "checkAgain"
  /\ IF OwnsGuard(c) THEN GoTo(c, "unlinkLock") ELSE GoFor(c, "drop", "end")
  /\ UNCHANGED <<seen, pathVars, current, boundVars>>

CheckGuardAgain(c) ==
  /\ call[c].step = "checkAgain"
  /\ GoTo(c, IF OwnsGuard(c) THEN "unlinkLock" ELSE "drop")
  /\ UNCHANGED <<seen, pathVars, current, boundVars>>

UnlinkLock(c) ==
  /\ call[c].step = "unlinkLock"
  /\ lock' = None
  /\ GoFor(c, "drop", "end")
  /\ UNCHANGED <<seen, guard, owner, old, current, boundVars>>

-----------------------------------------------------------------------------
(* The world: time, timers and crashes.                                    *)

(* The process created the file and has not written its metadata: to       *)
(* others such a file is abandoned once it is old.                         *)
Unsigned(f) == owner[f] = None /\ \E c \in Callers : f \in {call[c].guard, call[c].lock}

(* LOCK_STALE_MS passes without a renewal: nobody renews the file, or the  *)
(* process that should is stalled.                                         *)
Age(f) ==
  /\ f \in {lock, guard} \ ({None} \cup old)
  /\ Unsigned(f) => MayStall
  /\ old' = old \cup {f}
  /\ abandoned' = IF Unsigned(f) THEN abandoned + 1 ELSE abandoned
  /\ abandoned' <= MaxAbandoned
  /\ UNCHANGED <<call, seen, lock, guard, owner, current, faults>>

(* The interval timers: the guard is renewed through its handle, the lock  *)
(* through its path.                                                       *)
Heartbeat(c) ==
  /\ \/ /\ call[c].step \in Steps \ {"idle", "guard", "recheck", "unlinkGuard", "sign", "drop", "unlinkOwn"}
        /\ call[c].guard \in old
        /\ Touch(call[c].guard)
     \/ /\ call[c].step \in {"read", "operate", "rename"}
        /\ OwnsLock(c)
        /\ lock \in old
        /\ Touch(lock)
  /\ UNCHANGED <<call, lock, guard, owner, current, boundVars>>

(* A process ends, with every call it was making, and leaves its files.    *)
Crash(i) ==
  /\ \E c \in i : call[c].step # "idle"
  /\ LET left == {f \in {lock, guard} \ {None} :
                     owner[f] \in i \/ \E c \in i : f \in {call[c].guard, call[c].lock}}
     IN  /\ abandoned' = abandoned + Cardinality(left)
         /\ abandoned' <= MaxAbandoned
  /\ call' = [c \in Callers |-> IF c \in i THEN Idle ELSE call[c]]
  /\ seen' = [c \in Callers |-> IF c \in i THEN None ELSE seen[c]]
  /\ owner' = [f \in Files |-> IF owner[f] \in i THEN None ELSE owner[f]]
  /\ current' = current \ i
  /\ UNCHANGED <<lock, guard, old, faults>>

LockNext ==
  \/ \E c \in Callers :
       \/ Begin(c) \/ GiveUp(c)
       \/ CreateGuard(c) \/ SignGuard(c) \/ FailToSign(c)
       \/ InspectGuard(c) \/ GuardIsBusy(c) \/ RecheckGuard(c) \/ UnlinkStaleGuard(c)
       \/ CheckGuard(c) \/ DropGuard(c) \/ UnlinkOwnGuard(c)
       \/ CreateLock(c) \/ LockExists(c) \/ WriteLock(c) \/ FailToWriteLock(c)
       \/ InspectLock(c) \/ LinkLock(c) \/ ConfirmGuard(c) \/ MatchLock(c)
       \/ UnlinkStaleLock(c)
       \/ ReadState(c) \/ Return(c) \/ CheckLock(c) \/ ReplaceState(c)
       \/ ReadLock(c) \/ CheckGuardAgain(c) \/ UnlinkLock(c)
       \/ Heartbeat(c)
  \/ \E f \in Files : Age(f)
  \/ \E i \in Instances : Crash(i)

LockSpec == LockInit /\ [][LockNext]_lockVars

-----------------------------------------------------------------------------
(* Every variable has its type, and a call that is over holds nothing.     *)
LockTypeOK ==
  /\ call \in [Callers -> [step : Steps, purpose : Purposes,
                           lock : Files \cup {None}, guard : Files \cup {None}]]
  /\ seen \in [Callers -> Files \cup {None}]
  /\ lock \in Files \cup {None}
  /\ guard \in Files \cup {None}
  /\ owner \in [Files -> Callers \cup {None}]
  /\ old \subseteq Files
  /\ current \subseteq Callers
  /\ abandoned \in 0..MaxAbandoned
  /\ faults \in 0..MaxFaults
  /\ \A c \in Callers : call[c].step = "idle" => call[c] = Idle

Operating(c) == call[c].step \in {"read", "operate", "rename"}

(* Two operations of the store never run at the same time.                 *)
OneOwner == \A c, d \in Callers : Operating(c) /\ Operating(d) => c = d

(* A call that replaces the state file replaces the state it has read: no  *)
(* other call's change comes between, and none is lost.                    *)
NoLostUpdate ==
  [][\A c \in Callers :
       call[c].step = "rename" /\ call'[c].step = "guard" => c \in current]_lockVars

(* While a process runs, a lock file of its own belongs to one of its      *)
(* calls, which has yet to remove it: nobody else may, so a lock that is   *)
(* forgotten blocks every later operation until the process ends.  (When   *)
(* a release cannot write its guard, the lock does stay behind.)           *)
NoForgottenLock ==
  faults = 0 /\ lock # None /\ owner[lock] # None => call[owner[lock]].lock = lock
=============================================================================
