--------------------------- MODULE StoreLockProofs ---------------------------
(***************************************************************************)
(* Proofs about the store's lock, for any number of calls and processes:   *)
(* for as long as at most one file was left behind for others to reclaim,  *)
(* operations exclude each other and no update is lost; and a running      *)
(* process never forgets a lock of its own, whatever was left behind.      *)
(***************************************************************************)
EXTENDS StoreLock, TLAPS, FiniteSetTheorems

-----------------------------------------------------------------------------
(* The inductive invariant                                                 *)

(* A call holds a guard from its creation until it is dropped, and a lock  *)
(* of its own from its creation until it is unlinked.                      *)
Holds(r) ==
  r.step \notin {"idle", "guard", "recheck", "unlinkGuard", "read", "operate", "rename"}

Locks(r) == r.step = "write" \/ r.purpose \in {"operate", "release"}

Reclaiming == {"inspect", "link", "confirm", "match", "unlinkStale"}
Releasing  == {"readLock", "checkAgain", "unlinkLock"}

(* Which purposes a step may have, and which files a call then has.        *)
WellFormed(r) ==
  /\ r.guard # None <=> Holds(r)
  /\ Locks(r) => r.lock # None
  /\ r.lock # None /\ ~Locks(r) => r.purpose = "end" /\ r.step \in {"drop", "unlinkOwn"}
  /\ r.step \in {"read", "operate", "rename"} => r.purpose = "operate"
  /\ r.step \in {"create", "write"} => r.purpose = "acquire"
  /\ r.step \in Reclaiming => r.purpose = "reclaim"
  /\ r.step \in Releasing => r.purpose = "release"
  /\ r.step \in {"guard", "recheck", "unlinkGuard", "sign"} =>
       r.purpose \in {"acquire", "reclaim", "release"}
  /\ r.step = "check" => r.purpose \in {"acquire", "release"}
  /\ r.step = "idle" => r.purpose = "end"

Shape == \A c \in Callers : WellFormed(call[c])

(* No file has two uses.                                                   *)
Distinct ==
  /\ \A c, d \in Callers :
       /\ c # d /\ call[c].lock # None => call[c].lock # call[d].lock
       /\ c # d /\ call[c].guard # None => call[c].guard # call[d].guard
       /\ call[c].lock # None => call[c].lock # call[d].guard
  /\ \A c \in Callers :
       /\ call[c].lock # None => call[c].lock # guard
       /\ call[c].guard # None => call[c].guard # lock
  /\ lock # None => lock # guard

(* A lock that was written names its call, and a call that has unlinked    *)
(* its lock, or found it gone, does not find it again.                     *)
Signed ==
  \A c \in Callers :
    /\ Locks(call[c]) /\ call[c].step # "write" => owner[call[c].lock] = c
    /\ call[c].lock # None /\ ~Locks(call[c]) => lock # call[c].lock

UsesInv == Shape /\ Distinct /\ Signed /\ NoForgottenLock

FileInv == LockTypeOK /\ UsesInv

(* Nobody took the guard from its holder, and nobody can: a guard without  *)
(* an owner is one that is being written.                                  *)
GuardIntact ==
  /\ \A c \in Callers : Holds(call[c]) => guard = call[c].guard
  /\ \A c \in Callers : call[c].step \notin {"recheck", "unlinkGuard"}
  /\ guard # None /\ owner[guard] = None =>
       guard \notin old /\ \E c \in Callers : call[c].step = "sign" /\ call[c].guard = guard

(* No lock is stale, nor taken for it.                                     *)
LockIntact ==
  /\ \A c \in Callers : call[c].step \notin {"link", "confirm", "match", "unlinkStale"}
  /\ lock # None /\ owner[lock] = None =>
       lock \notin old /\ \E c \in Callers : call[c].step = "write" /\ call[c].lock = lock

LockHeld == \A c \in Callers : Locks(call[c]) => lock = call[c].lock

(* What is taken for stale is nobody's.                                    *)
Looking == {"link", "confirm", "match"}

GhostSeen ==
  \A c, d \in Callers :
    /\ call[c].step \in Looking /\ seen[c] # None => call[d].lock # seen[c]
    /\ call[c].step = "unlinkStale" /\ Locks(call[d]) => call[d].lock # lock

StateIsCurrent == \A c \in Callers : call[c].step \in {"operate", "rename"} => c \in current

Exclusive ==
  /\ LockHeld
  /\ GhostSeen
  /\ StateIsCurrent
  /\ GuardIntact \/ LockIntact
  /\ abandoned = 0 => GuardIntact /\ LockIntact

MutexInv == abandoned <= 1 => Exclusive

IInv == FileInv /\ MutexInv

-----------------------------------------------------------------------------
(* Calls as records                                                        *)

CallType == [step : Steps, purpose : Purposes,
             lock : Files \cup {None}, guard : Files \cup {None}]

Rec(s, p, l, g) == [step |-> s, purpose |-> p, lock |-> l, guard |-> g]

(* A record of singletons' fields.                                         *)
LEMMA Singles ==
  ASSUME NEW s, NEW p, NEW l, NEW g,
         NEW r \in [step : {s}, purpose : {p}, lock : {l}, guard : {g}]
  PROVE  r = Rec(s, p, l, g)
BY DEF Rec

(* How a call moves, field by field.                                       *)
LEMMA StepIs ==
  ASSUME LockTypeOK, NEW c \in Callers, NEW s
  PROVE  [call[c] EXCEPT !.step = s] = Rec(s, call[c].purpose, call[c].lock, call[c].guard)
<1> DEFINE x == call[c]
           R(sa, pa, la, ga) == [step : {sa}, purpose : {pa}, lock : {la}, guard : {ga}]
<1>1. x \in CallType
  BY DEF LockTypeOK, CallType
<1>2. x \in R(x.step, x.purpose, x.lock, x.guard)
  BY <1>1 DEF CallType
<1> HIDE DEF x
<1>3. [x EXCEPT !.step = s] \in R(s, x.purpose, x.lock, x.guard)
  BY <1>2
<1>q. QED
  BY <1>3, Singles DEF x

LEMMA PurposeIs ==
  ASSUME LockTypeOK, NEW c \in Callers, NEW s, NEW p
  PROVE  [call[c] EXCEPT !.step = s, !.purpose = p] = Rec(s, p, call[c].lock, call[c].guard)
<1> DEFINE x == call[c]
           R(sa, pa, la, ga) == [step : {sa}, purpose : {pa}, lock : {la}, guard : {ga}]
<1>1. x \in CallType
  BY DEF LockTypeOK, CallType
<1>2. x \in R(x.step, x.purpose, x.lock, x.guard)
  BY <1>1 DEF CallType
<1> HIDE DEF x
<1>3. [x EXCEPT !.step = s] \in R(s, x.purpose, x.lock, x.guard)
  BY <1>2
<1>4. [x EXCEPT !.step = s, !.purpose = p] \in R(s, p, x.lock, x.guard)
  BY <1>3
<1>q. QED
  BY <1>4, Singles DEF x

LEMMA GuardIs ==
  ASSUME LockTypeOK, NEW c \in Callers, NEW s, NEW g
  PROVE  [call[c] EXCEPT !.step = s, !.guard = g] = Rec(s, call[c].purpose, call[c].lock, g)
<1> DEFINE x == call[c]
           R(sa, pa, la, ga) == [step : {sa}, purpose : {pa}, lock : {la}, guard : {ga}]
<1>1. x \in CallType
  BY DEF LockTypeOK, CallType
<1>2. x \in R(x.step, x.purpose, x.lock, x.guard)
  BY <1>1 DEF CallType
<1> HIDE DEF x
<1>3. [x EXCEPT !.step = s] \in R(s, x.purpose, x.lock, x.guard)
  BY <1>2
<1>4. [x EXCEPT !.step = s, !.guard = g] \in R(s, x.purpose, x.lock, g)
  BY <1>3
<1>q. QED
  BY <1>4, Singles DEF x

LEMMA LockIs ==
  ASSUME LockTypeOK, NEW c \in Callers, NEW s, NEW l
  PROVE  [call[c] EXCEPT !.step = s, !.lock = l] = Rec(s, call[c].purpose, l, call[c].guard)
<1> DEFINE x == call[c]
           R(sa, pa, la, ga) == [step : {sa}, purpose : {pa}, lock : {la}, guard : {ga}]
<1>1. x \in CallType
  BY DEF LockTypeOK, CallType
<1>2. x \in R(x.step, x.purpose, x.lock, x.guard)
  BY <1>1 DEF CallType
<1> HIDE DEF x
<1>3. [x EXCEPT !.step = s] \in R(s, x.purpose, x.lock, x.guard)
  BY <1>2
<1>4. [x EXCEPT !.step = s, !.lock = l] \in R(s, x.purpose, l, x.guard)
  BY <1>3
<1>q. QED
  BY <1>4, Singles DEF x

LEMMA PurposeAndLockIs ==
  ASSUME LockTypeOK, NEW c \in Callers, NEW s, NEW p, NEW l
  PROVE  [call[c] EXCEPT !.step = s, !.purpose = p, !.lock = l] = Rec(s, p, l, call[c].guard)
<1> DEFINE x == call[c]
           R(sa, pa, la, ga) == [step : {sa}, purpose : {pa}, lock : {la}, guard : {ga}]
<1>1. x \in CallType
  BY DEF LockTypeOK, CallType
<1>2. x \in R(x.step, x.purpose, x.lock, x.guard)
  BY <1>1 DEF CallType
<1> HIDE DEF x
<1>3. [x EXCEPT !.step = s] \in R(s, x.purpose, x.lock, x.guard)
  BY <1>2
<1>4. [x EXCEPT !.step = s, !.purpose = p] \in R(s, p, x.lock, x.guard)
  BY <1>3
<1>5. [x EXCEPT !.step = s, !.purpose = p, !.lock = l] \in R(s, p, l, x.guard)
  BY <1>4
<1>q. QED
  BY <1>5, Singles DEF x

LEMMA GoToIs ==
  ASSUME LockTypeOK, NEW c \in Callers, NEW s, GoTo(c, s)
  PROVE  call' = [call EXCEPT ![c] = Rec(s, call[c].purpose, call[c].lock, call[c].guard)]
<1>1. [call[c] EXCEPT !.step = s] = Rec(s, call[c].purpose, call[c].lock, call[c].guard)
  BY StepIs
<1>2. call' = [call EXCEPT ![c] = [call[c] EXCEPT !.step = s]]
  BY DEF GoTo
<1>q. QED
  BY <1>1, <1>2

LEMMA GoForIs ==
  ASSUME LockTypeOK, NEW c \in Callers, NEW s, NEW p, GoFor(c, s, p)
  PROVE  call' = [call EXCEPT ![c] = Rec(s, p, call[c].lock, call[c].guard)]
<1>1. [call[c] EXCEPT !.step = s, !.purpose = p] = Rec(s, p, call[c].lock, call[c].guard)
  BY PurposeIs
<1>2. call' = [call EXCEPT ![c] = [call[c] EXCEPT !.step = s, !.purpose = p]]
  BY DEF GoFor
<1>q. QED
  BY <1>1, <1>2

LEMMA AfterGuardIs ==
  ASSUME LockTypeOK, NEW c \in Callers, AfterGuard(c)
  PROVE  call' = [call EXCEPT ![c] =
           IF call[c].purpose = "end" THEN Idle
           ELSE Rec(IF call[c].purpose = "operate" THEN "read" ELSE "guard",
                    call[c].purpose, call[c].lock, None)]
<1> DEFINE x == call[c]
<1>1. [x EXCEPT !.step = "read", !.guard = None] = Rec("read", x.purpose, x.lock, None)
  BY GuardIs
<1>2. [x EXCEPT !.step = "guard", !.guard = None] = Rec("guard", x.purpose, x.lock, None)
  BY GuardIs
<1>3. call' = [call EXCEPT ![c] =
        CASE x.purpose = "end"     -> Idle
          [] x.purpose = "operate" -> [x EXCEPT !.step = "read", !.guard = None]
          [] OTHER                 -> [x EXCEPT !.step = "guard", !.guard = None]]
  BY DEF AfterGuard
<1>q. QED
  BY <1>1, <1>2, <1>3

(* A new file is one nobody remembers.                                     *)
LEMMA NewFileIsNew ==
  ASSUME FilesLeft
  PROVE  NewFile \in Files /\ NewFile \notin Remembered
BY DEF FilesLeft, NewFile

(* Touching a file forgets what was seen of it.                            *)
LEMMA Touched ==
  ASSUME LockTypeOK, NEW f, Touch(f)
  PROVE  /\ old' \subseteq old
         /\ seen' \in [Callers -> Files \cup {None}]
         /\ \A c \in Callers : seen'[c] \in {seen[c], None} /\ (seen'[c] = f => f = None)
BY DEF LockTypeOK, Touch

LEMMA Replaced ==
  ASSUME LockTypeOK, NEW c \in Callers, NEW r, call' = [call EXCEPT ![c] = r]
  PROVE  call'[c] = r /\ \A d \in Callers : d # c => call'[d] = call[d]
BY DEF LockTypeOK

-----------------------------------------------------------------------------
(* Steps of one call that create no file and sign none                     *)

LEMMA UsesKept ==
  ASSUME FileInv, NEW c \in Callers, NEW r, call' = [call EXCEPT ![c] = r], WellFormed(r),
         r.lock \in {call[c].lock, None}, r.guard \in {call[c].guard, None},
         lock' \in {lock, None}, guard' \in {guard, None}, owner' = owner,
         faults' = 0 => faults = 0,
         r.lock # None /\ Locks(r) => Locks(call[c]) /\ call[c].step # "write",
         r.lock # None /\ ~Locks(r) => lock' # r.lock,
         call[c].lock # None /\ r.lock = None => lock' # call[c].lock \/ faults' # 0
  PROVE  UsesInv'
<1>1. call'[c] = r /\ \A d \in Callers : d # c => call'[d] = call[d]
  BY Replaced DEF FileInv
<1>2. Shape'
  BY <1>1 DEF FileInv, UsesInv, Shape, WellFormed, Holds, Locks
<1>3. Distinct'
  BY <1>1 DEF FileInv, UsesInv, Distinct
<1>4. Signed'
  <2>1. ASSUME NEW d \in Callers
        PROVE  /\ Locks(call'[d]) /\ call'[d].step # "write" => owner'[call'[d].lock] = d
               /\ call'[d].lock # None /\ ~Locks(call'[d]) => lock' # call'[d].lock
    <3>1. CASE d = c
      BY <1>1, <3>1 DEF FileInv, UsesInv, Shape, WellFormed, Signed, Locks
    <3>2. CASE d # c
      BY <1>1, <3>2 DEF FileInv, UsesInv, Signed, Locks
    <3>q. QED
      BY <3>1, <3>2
  <2>q. QED
    BY <2>1 DEF Signed, Locks
<1>5. NoForgottenLock'
  BY <1>1 DEF FileInv, UsesInv, LockTypeOK, NoForgottenLock
<1>q. QED
  BY <1>2, <1>3, <1>4, <1>5 DEF UsesInv

(* What such a step has to respect for operations to stay exclusive.       *)
LEMMA HeldKept ==
  ASSUME FileInv, LockHeld, NEW c \in Callers, NEW r, call' = [call EXCEPT ![c] = r],
         lock' = lock, Locks(r) => Locks(call[c]) /\ r.lock = call[c].lock
  PROVE  LockHeld'
BY Replaced DEF FileInv, LockHeld, Locks

LEMMA GuardKept ==
  ASSUME FileInv, GuardIntact, NEW c \in Callers, NEW r, call' = [call EXCEPT ![c] = r],
         guard' = guard, guard # None => owner'[guard] = owner[guard], old' \subseteq old,
         Holds(r) => Holds(call[c]) /\ r.guard = call[c].guard,
         r.step \notin {"recheck", "unlinkGuard"}, call[c].step # "sign"
  PROVE  GuardIntact'
<1>1. call'[c] = r /\ \A d \in Callers : d # c => call'[d] = call[d]
  BY Replaced DEF FileInv
<1>2. \A d \in Callers : Holds(call'[d]) => guard' = call'[d].guard
  BY <1>1 DEF GuardIntact, Holds
<1>3. \A d \in Callers : call'[d].step \notin {"recheck", "unlinkGuard"}
  BY <1>1 DEF GuardIntact
<1>4. guard' # None /\ owner'[guard'] = None =>
        /\ guard' \notin old'
        /\ \E d \in Callers : call'[d].step = "sign" /\ call'[d].guard = guard'
  BY <1>1 DEF GuardIntact
<1>q. QED
  BY <1>2, <1>3, <1>4 DEF GuardIntact, Holds

LEMMA LockKept ==
  ASSUME FileInv, LockIntact, NEW c \in Callers, NEW r, call' = [call EXCEPT ![c] = r],
         lock' \in {lock, None}, lock # None => owner'[lock] = owner[lock], old' \subseteq old,
         r.step \notin {"link", "confirm", "match", "unlinkStale"},
         call[c].step = "write" => lock' = None
  PROVE  LockIntact'
<1>1. call'[c] = r /\ \A d \in Callers : d # c => call'[d] = call[d]
  BY Replaced DEF FileInv
<1>q. QED
  BY <1>1 DEF LockIntact

LEMMA GhostKept ==
  ASSUME FileInv, GhostSeen, NEW c \in Callers, NEW r, call' = [call EXCEPT ![c] = r],
         WellFormed(r), lock' \in {lock, None}, r.lock \in {call[c].lock, None},
         \A d \in Callers : seen'[d] \in {seen[d], None} \/ d = c,
         r.step \in Looking /\ seen'[c] # None => \A d \in Callers : call[d].lock # seen'[c],
         r.step = "unlinkStale" => \A d \in Callers : Locks(call[d]) => call[d].lock # lock,
         Locks(r) => Locks(call[c]) /\ r.lock = call[c].lock
  PROVE  GhostSeen'
<1>1. call'[c] = r /\ \A d \in Callers : d # c => call'[d] = call[d]
  BY Replaced DEF FileInv
<1>2. \A d \in Callers : call'[d].lock \in {call[d].lock, None}
  BY <1>1
<1>3. \A d \in Callers : Locks(call'[d]) => Locks(call[d]) /\ call'[d].lock = call[d].lock
                                           /\ call'[d].lock # None
  BY <1>1 DEF FileInv, UsesInv, Shape, WellFormed, Locks
<1>4. \A e, d \in Callers :
        call'[e].step \in Looking /\ seen'[e] # None => call'[d].lock # seen'[e]
  BY <1>1, <1>2 DEF GhostSeen
<1>5. \A e, d \in Callers :
        call'[e].step = "unlinkStale" /\ Locks(call'[d]) => call'[d].lock # lock'
  BY <1>1, <1>3 DEF GhostSeen
<1>q. QED
  BY <1>4, <1>5 DEF GhostSeen, Locks

LEMMA CurrentKept ==
  ASSUME FileInv, StateIsCurrent, NEW c \in Callers, NEW r, call' = [call EXCEPT ![c] = r],
         r.step \in {"operate", "rename"} => c \in current',
         \A d \in Callers : d # c /\ d \in current => d \in current'
  PROVE  StateIsCurrent'
BY Replaced DEF FileInv, StateIsCurrent

(* A step that moves a call to r and leaves every path and signature: what *)
(* it has to respect, whatever was left behind ...                         *)
Moves(c, r) ==
  /\ call' = [call EXCEPT ![c] = r]
  /\ r \in CallType /\ (r.step = "idle" => r = Idle)
  /\ WellFormed(r)
  /\ call[c].step \notin {"sign", "write"}
  /\ r.lock = call[c].lock \/ (r.lock = None /\ ~Locks(call[c]))
  /\ r.guard \in {call[c].guard, None}
  /\ Locks(r) => Locks(call[c]) /\ r.lock = call[c].lock
  /\ Holds(r) => Holds(call[c]) /\ r.guard = call[c].guard
  /\ r.lock # None /\ ~Locks(r) => lock # r.lock
  /\ old' \subseteq old
  /\ seen' \in [Callers -> Files \cup {None}]
  /\ \A d \in Callers : seen'[d] \in {seen[d], None} \/ d = c
  /\ current' \subseteq Callers

(* ... and for operations to stay exclusive.                               *)
Respects(c, r) ==
  /\ GuardIntact => r.step \notin {"recheck", "unlinkGuard"}
  /\ LockIntact => r.step \notin {"link", "confirm", "match", "unlinkStale"}
  /\ r.step \in Looking /\ seen'[c] # None => \A d \in Callers : call[d].lock # seen'[c]
  /\ r.step = "unlinkStale" => \A d \in Callers : Locks(call[d]) => call[d].lock # lock
  /\ StateIsCurrent'

LEMMA MoveKeeps ==
  ASSUME IInv, NEW c \in Callers, NEW r, Moves(c, r),
         UNCHANGED <<lock, guard, owner, boundVars>>,
         abandoned <= 1 /\ Exclusive => Respects(c, r)
  PROVE  IInv'
<1> USE DEF IInv
<1>0. FileInv /\ LockTypeOK
  BY DEF FileInv
<1>1. LockTypeOK'
  BY <1>0 DEF LockTypeOK, Moves, CallType, boundVars
<1>2. /\ call[c].lock # None /\ r.lock = None => lock # call[c].lock
      /\ r.lock # None /\ Locks(r) => call[c].step # "write"
  BY DEF Moves, FileInv, UsesInv, Shape, WellFormed, Signed, Locks
<1>3. UsesInv'
  BY <1>0, <1>2, UsesKept DEF Moves, boundVars
<1>4. ASSUME abandoned <= 1, Exclusive
      PROVE  Exclusive'
  <2>1. LockHeld' /\ GhostSeen' /\ StateIsCurrent'
    BY <1>0, <1>4, HeldKept, GhostKept DEF Moves, Respects, Exclusive
  <2>2. GuardIntact => GuardIntact'
    BY <1>0, <1>4, GuardKept DEF Moves, Respects
  <2>3. LockIntact => LockIntact'
    BY <1>0, <1>4, LockKept DEF Moves, Respects
  <2>q. QED
    BY <1>4, <2>1, <2>2, <2>3 DEF Exclusive, boundVars
<1>q. QED
  BY <1>1, <1>3, <1>4 DEF FileInv, MutexInv, boundVars

-----------------------------------------------------------------------------
(* One lemma per action: trying to take the guard                          *)

LEMMA BeginKeeps ==
  ASSUME IInv, NEW c \in Callers, Begin(c)
  PROVE  IInv'
<1> DEFINE r == Rec("guard", "acquire", call[c].lock, call[c].guard)
<1>0. LockTypeOK /\ WellFormed(call[c])
  BY DEF IInv, FileInv, UsesInv, Shape
<1>1. call' = [call EXCEPT ![c] = r] /\ call[c] = Idle
  BY <1>0, GoForIs DEF Begin, LockTypeOK
<1>2. /\ UNCHANGED <<lock, guard, owner, boundVars>>
      /\ UNCHANGED <<seen, old, current>>
  BY DEF Begin, pathVars
<1>3. Moves(c, r)
  BY <1>0, <1>1, <1>2
     DEF Moves, LockTypeOK, CallType, Rec, Idle, Steps, Purposes, WellFormed, Holds, Locks,
         Reclaiming, Releasing
<1>4. Exclusive => Respects(c, r)
  BY <1>0, <1>1, <1>2, CurrentKept DEF Respects, Exclusive, Rec, Looking, IInv
<1>q. QED
  BY <1>1, <1>2, <1>3, <1>4, MoveKeeps

LEMMA InspectGuardKeeps ==
  ASSUME IInv, NEW c \in Callers, InspectGuard(c)
  PROVE  IInv'
<1> DEFINE r == Rec("recheck", call[c].purpose, call[c].lock, call[c].guard)
<1>0. LockTypeOK /\ WellFormed(call[c])
  BY DEF IInv, FileInv, UsesInv, Shape
<1>1. call' = [call EXCEPT ![c] = r] /\ call[c].step = "guard"
  BY <1>0, GoToIs DEF InspectGuard
<1>2. /\ UNCHANGED <<lock, guard, owner, boundVars>>
      /\ UNCHANGED <<old, current>>
      /\ seen' = [seen EXCEPT ![c] = guard]
  BY DEF InspectGuard, pathVars
<1>3. Moves(c, r)
  BY <1>0, <1>1, <1>2
     DEF Moves, LockTypeOK, CallType, Rec, Steps, WellFormed, Holds, Locks, Reclaiming, Releasing
<1>4. Exclusive => Respects(c, r)
  <2>1. ~GuardIntact
    BY DEF InspectGuard, Stale, GuardIntact
  <2>q. QED
    BY <1>0, <1>1, <1>2, <2>1, CurrentKept DEF Respects, Exclusive, Rec, Looking, IInv
<1>q. QED
  BY <1>1, <1>2, <1>3, <1>4, MoveKeeps

LEMMA GuardIsBusyKeeps ==
  ASSUME IInv, NEW c \in Callers, GuardIsBusy(c)
  PROVE  IInv'
<1> DEFINE r == Rec("guard", "acquire", call[c].lock, call[c].guard)
<1>0. LockTypeOK /\ WellFormed(call[c])
  BY DEF IInv, FileInv, UsesInv, Shape
<1>1. call' = [call EXCEPT ![c] = r] /\ call[c].step = "guard" /\ call[c].purpose = "reclaim"
  BY <1>0, GoForIs DEF GuardIsBusy
<1>2. /\ UNCHANGED <<lock, guard, owner, boundVars>>
      /\ UNCHANGED <<seen, old, current>>
  BY DEF GuardIsBusy, pathVars
<1>3. Moves(c, r)
  BY <1>0, <1>1, <1>2
     DEF Moves, LockTypeOK, CallType, Rec, Steps, Purposes, WellFormed, Holds, Locks,
         Reclaiming, Releasing
<1>4. Exclusive => Respects(c, r)
  BY <1>0, <1>1, <1>2, CurrentKept DEF Respects, Exclusive, Rec, Looking, IInv
<1>q. QED
  BY <1>1, <1>2, <1>3, <1>4, MoveKeeps

LEMMA RecheckGuardKeeps ==
  ASSUME IInv, NEW c \in Callers, RecheckGuard(c)
  PROVE  IInv'
<1> DEFINE unchanged == guard # None /\ guard = seen[c]
           r == IF unchanged
                THEN Rec("unlinkGuard", call[c].purpose, call[c].lock, call[c].guard)
                ELSE Rec("guard", WithoutGuard(call[c].purpose), call[c].lock, call[c].guard)
<1>0. LockTypeOK /\ WellFormed(call[c])
  BY DEF IInv, FileInv, UsesInv, Shape
<1>1. call' = [call EXCEPT ![c] = r] /\ call[c].step = "recheck"
  BY <1>0, GoToIs, GoForIs DEF RecheckGuard
<1>2. /\ UNCHANGED <<lock, guard, owner, boundVars>>
      /\ UNCHANGED <<old, current>>
      /\ seen' = [seen EXCEPT ![c] = None]
  BY DEF RecheckGuard, pathVars
<1>3. Moves(c, r)
  BY <1>0, <1>1, <1>2
     DEF Moves, LockTypeOK, CallType, Rec, Steps, Purposes, WithoutGuard, WellFormed, Holds, Locks,
         Reclaiming, Releasing
<1>4. Exclusive => Respects(c, r)
  <2>1. ~GuardIntact
    BY <1>1 DEF GuardIntact
  <2>q. QED
    BY <1>0, <1>1, <1>2, <2>1, CurrentKept DEF Respects, Exclusive, Rec, Looking, IInv
<1>q. QED
  BY <1>1, <1>2, <1>3, <1>4, MoveKeeps

LEMMA GiveUpKeeps ==
  ASSUME IInv, NEW c \in Callers, GiveUp(c)
  PROVE  IInv'
<1>0. LockTypeOK /\ WellFormed(call[c])
  BY DEF IInv, FileInv, UsesInv, Shape
<1>1. call' = [call EXCEPT ![c] = Idle] /\ call[c].step = "guard" /\ call[c].purpose = "acquire"
  BY DEF GiveUp, End
<1>2. /\ UNCHANGED <<lock, guard, owner, boundVars>>
      /\ UNCHANGED <<seen, old, current>>
  BY DEF GiveUp, pathVars
<1>3. Moves(c, Idle)
  BY <1>0, <1>1, <1>2
     DEF Moves, LockTypeOK, CallType, Idle, Steps, Purposes, WellFormed, Holds, Locks,
         Reclaiming, Releasing
<1>4. Exclusive => Respects(c, Idle)
  BY <1>0, <1>1, <1>2, CurrentKept DEF Respects, Exclusive, Idle, Looking, IInv
<1>q. QED
  BY <1>1, <1>2, <1>3, <1>4, MoveKeeps

LEMMA DropGuardKeeps ==
  ASSUME IInv, NEW c \in Callers, DropGuard(c)
  PROVE  IInv'
<1> DEFINE p == call[c].purpose
           r == IF OwnsGuard(c) THEN Rec("unlinkOwn", p, call[c].lock, call[c].guard)
                ELSE IF p = "end" THEN Idle
                ELSE Rec(IF p = "operate" THEN "read" ELSE "guard", p, call[c].lock, None)
<1>0. LockTypeOK /\ WellFormed(call[c])
  BY DEF IInv, FileInv, UsesInv, Shape
<1>1. call' = [call EXCEPT ![c] = r] /\ call[c].step = "drop"
  BY <1>0, GoToIs, AfterGuardIs DEF DropGuard
<1>2. /\ UNCHANGED <<lock, guard, owner, boundVars>>
      /\ UNCHANGED <<seen, old, current>>
  BY DEF DropGuard, pathVars
<1>3. Moves(c, r)
  <2>1. r \in CallType /\ (r.step = "idle" => r = Idle)
    BY <1>0 DEF LockTypeOK, CallType, Rec, Idle, Steps, Purposes
  <2>2. call[c].lock # None /\ ~Locks(call[c]) => lock # call[c].lock
    BY DEF IInv, FileInv, UsesInv, Signed
  <2>3. WellFormed(r)
    BY <1>0, <1>1 DEF LockTypeOK, Rec, Idle, Purposes, WellFormed, Holds, Locks, Reclaiming, Releasing
  <2>q. QED
    BY <1>0, <1>1, <1>2, <2>1, <2>2, <2>3
       DEF Moves, LockTypeOK, Rec, Idle, WellFormed, Holds, Locks
<1>4. Exclusive => Respects(c, r)
  BY <1>0, <1>1, <1>2, CurrentKept DEF Respects, Exclusive, Rec, Idle, Looking, IInv
<1>q. QED
  BY <1>1, <1>2, <1>3, <1>4, MoveKeeps

LEMMA CheckGuardKeeps ==
  ASSUME IInv, NEW c \in Callers, CheckGuard(c)
  PROVE  IInv'
<1> DEFINE s == IF ~OwnsGuard(c) THEN "drop"
                ELSE IF call[c].purpose = "release" THEN "readLock" ELSE "create"
           r == Rec(s, call[c].purpose, call[c].lock, call[c].guard)
<1>0. LockTypeOK /\ WellFormed(call[c])
  BY DEF IInv, FileInv, UsesInv, Shape
<1>1. call' = [call EXCEPT ![c] = r] /\ call[c].step = "check"
  BY <1>0, GoToIs DEF CheckGuard
<1>2. /\ UNCHANGED <<lock, guard, owner, boundVars>>
      /\ UNCHANGED current
      /\ old' \subseteq old
      /\ seen' \in [Callers -> Files \cup {None}]
      /\ \A d \in Callers : seen'[d] \in {seen[d], None}
  BY <1>0, Touched DEF CheckGuard
<1>3. Moves(c, r)
  BY <1>0, <1>1, <1>2
     DEF Moves, LockTypeOK, CallType, Rec, Steps, WellFormed, Holds, Locks, Reclaiming, Releasing
<1>4. Exclusive => Respects(c, r)
  BY <1>0, <1>1, <1>2, CurrentKept DEF Respects, Exclusive, Rec, Looking, IInv
<1>q. QED
  BY <1>1, <1>2, <1>3, <1>4, MoveKeeps

LEMMA LockExistsKeeps ==
  ASSUME IInv, NEW c \in Callers, LockExists(c)
  PROVE  IInv'
<1> DEFINE r == Rec("drop", "reclaim", call[c].lock, call[c].guard)
<1>0. LockTypeOK /\ WellFormed(call[c])
  BY DEF IInv, FileInv, UsesInv, Shape
<1>1. call' = [call EXCEPT ![c] = r] /\ call[c].step = "create"
  BY <1>0, GoForIs DEF LockExists
<1>2. /\ UNCHANGED <<lock, guard, owner, boundVars>>
      /\ UNCHANGED <<seen, old, current>>
  BY DEF LockExists, pathVars
<1>3. Moves(c, r)
  BY <1>0, <1>1, <1>2
     DEF Moves, LockTypeOK, CallType, Rec, Steps, Purposes, WellFormed, Holds, Locks,
         Reclaiming, Releasing
<1>4. Exclusive => Respects(c, r)
  BY <1>0, <1>1, <1>2, CurrentKept DEF Respects, Exclusive, Rec, Looking, IInv
<1>q. QED
  BY <1>1, <1>2, <1>3, <1>4, MoveKeeps

-----------------------------------------------------------------------------
(* Reclaiming the lock                                                     *)

LEMMA InspectLockKeeps ==
  ASSUME IInv, NEW c \in Callers, InspectLock(c)
  PROVE  IInv'
<1> DEFINE stale == lock # None /\ Stale(lock)
           r == IF stale THEN Rec("link", call[c].purpose, call[c].lock, call[c].guard)
                ELSE Rec("drop", "acquire", call[c].lock, call[c].guard)
<1>0. LockTypeOK /\ WellFormed(call[c])
  BY DEF IInv, FileInv, UsesInv, Shape
<1>1. call' = [call EXCEPT ![c] = r] /\ call[c].step = "inspect"
  BY <1>0, GoToIs, GoForIs DEF InspectLock
<1>2. /\ UNCHANGED <<lock, guard, owner, boundVars>>
      /\ UNCHANGED <<old, current>>
      /\ seen' = IF stale THEN [seen EXCEPT ![c] = lock] ELSE seen
  BY DEF InspectLock, pathVars
<1>3. Moves(c, r)
  BY <1>0, <1>1, <1>2
     DEF Moves, LockTypeOK, CallType, Rec, Steps, Purposes, WellFormed, Holds, Locks,
         Reclaiming, Releasing
<1>4. ASSUME Exclusive PROVE Respects(c, r)
  <2>1. StateIsCurrent'
    BY <1>1, <1>2, <1>4, CurrentKept DEF Exclusive, Rec, IInv
  <2>2. stale => ~LockIntact
    BY DEF Stale, LockIntact
  (* With the guard intact no other call is about to write a lock's metadata. *)
  <2>3. ASSUME stale, GuardIntact, NEW d \in Callers, call[d].lock = lock
        PROVE  FALSE
    <3>1. Locks(call[d]) => call[d].step = "write"
      BY <2>3, FilesAssumption DEF IInv, FileInv, UsesInv, Signed, Stale
    <3>2. Locks(call[d])
      BY <2>3 DEF IInv, FileInv, UsesInv, Signed
    <3>3. Holds(call[c]) /\ Holds(call[d])
      BY <1>1, <3>1, <3>2 DEF Holds
    <3>4. call[c].guard # None /\ call[c].guard = call[d].guard
      BY <1>0, <2>3, <3>3 DEF WellFormed, GuardIntact
    <3>5. c = d
      BY <3>4 DEF IInv, FileInv, UsesInv, Distinct
    <3>q. QED
      BY <1>1, <3>1, <3>2, <3>5
  <2>q. QED
    BY <1>0, <1>2, <1>4, <2>1, <2>2, <2>3 DEF Respects, Exclusive, Rec, Looking, LockTypeOK
<1>q. QED
  BY <1>1, <1>2, <1>3, <1>4, MoveKeeps

LEMMA LinkLockKeeps ==
  ASSUME IInv, NEW c \in Callers, LinkLock(c)
  PROVE  IInv'
<1> DEFINE r == IF IsAsSeen(c) THEN Rec("confirm", call[c].purpose, call[c].lock, call[c].guard)
                ELSE Rec("drop", "acquire", call[c].lock, call[c].guard)
<1>0. LockTypeOK /\ WellFormed(call[c])
  BY DEF IInv, FileInv, UsesInv, Shape
<1>1. call' = [call EXCEPT ![c] = r] /\ call[c].step = "link"
  BY <1>0, GoToIs, GoForIs DEF LinkLock
<1>2. /\ UNCHANGED <<lock, guard, owner, boundVars>>
      /\ UNCHANGED <<old, current>>
      /\ seen' = IF IsAsSeen(c) THEN seen ELSE [seen EXCEPT ![c] = None]
  BY DEF LinkLock, pathVars
<1>3. Moves(c, r)
  BY <1>0, <1>1, <1>2
     DEF Moves, LockTypeOK, CallType, Rec, Steps, Purposes, WellFormed, Holds, Locks,
         Reclaiming, Releasing
<1>4. ASSUME Exclusive PROVE Respects(c, r)
  <2>1. StateIsCurrent'
    BY <1>1, <1>2, <1>4, CurrentKept DEF Exclusive, Rec, IInv
  <2>2. ~LockIntact
    BY <1>1 DEF LockIntact
  <2>q. QED
    BY <1>0, <1>1, <1>2, <1>4, <2>1, <2>2 DEF Respects, Exclusive, GhostSeen, Rec, Looking
<1>q. QED
  BY <1>1, <1>2, <1>3, <1>4, MoveKeeps

LEMMA ConfirmGuardKeeps ==
  ASSUME IInv, NEW c \in Callers, ConfirmGuard(c)
  PROVE  IInv'
<1> DEFINE r == IF OwnsGuard(c) THEN Rec("match", call[c].purpose, call[c].lock, call[c].guard)
                ELSE Rec("drop", "acquire", call[c].lock, call[c].guard)
<1>0. LockTypeOK /\ WellFormed(call[c])
  BY DEF IInv, FileInv, UsesInv, Shape
<1>1. call' = [call EXCEPT ![c] = r] /\ call[c].step = "confirm"
  BY <1>0, GoToIs, GoForIs DEF ConfirmGuard
<1>2. /\ UNCHANGED <<lock, guard, owner, boundVars>>
      /\ UNCHANGED current
      /\ old' \subseteq old
      /\ seen' \in [Callers -> Files \cup {None}]
      /\ \A d \in Callers : seen'[d] \in {seen[d], None}
  BY <1>0, Touched DEF ConfirmGuard
<1>3. Moves(c, r)
  BY <1>0, <1>1, <1>2
     DEF Moves, LockTypeOK, CallType, Rec, Steps, Purposes, WellFormed, Holds, Locks,
         Reclaiming, Releasing
<1>4. ASSUME Exclusive PROVE Respects(c, r)
  <2>1. StateIsCurrent'
    BY <1>1, <1>2, <1>4, CurrentKept DEF Exclusive, Rec, IInv
  <2>2. ~LockIntact
    BY <1>1 DEF LockIntact
  <2>q. QED
    BY <1>0, <1>1, <1>2, <1>4, <2>1, <2>2 DEF Respects, Exclusive, GhostSeen, Rec, Looking
<1>q. QED
  BY <1>1, <1>2, <1>3, <1>4, MoveKeeps

LEMMA MatchLockKeeps ==
  ASSUME IInv, NEW c \in Callers, MatchLock(c)
  PROVE  IInv'
<1> DEFINE r == IF IsAsSeen(c) THEN Rec("unlinkStale", call[c].purpose, call[c].lock, call[c].guard)
                ELSE Rec("drop", "acquire", call[c].lock, call[c].guard)
<1>0. LockTypeOK /\ WellFormed(call[c])
  BY DEF IInv, FileInv, UsesInv, Shape
<1>1. call' = [call EXCEPT ![c] = r] /\ call[c].step = "match"
  BY <1>0, GoToIs, GoForIs DEF MatchLock
<1>2. /\ UNCHANGED <<lock, guard, owner, boundVars>>
      /\ UNCHANGED <<old, current>>
      /\ seen' = [seen EXCEPT ![c] = None]
  BY DEF MatchLock, pathVars
<1>3. Moves(c, r)
  BY <1>0, <1>1, <1>2
     DEF Moves, LockTypeOK, CallType, Rec, Steps, Purposes, WellFormed, Holds, Locks,
         Reclaiming, Releasing
<1>4. ASSUME Exclusive PROVE Respects(c, r)
  <2>1. StateIsCurrent'
    BY <1>1, <1>2, <1>4, CurrentKept DEF Exclusive, Rec, IInv
  <2>2. ~LockIntact
    BY <1>1 DEF LockIntact
  <2>q. QED
    BY <1>0, <1>1, <1>2, <1>4, <2>1, <2>2
       DEF Respects, Exclusive, GhostSeen, IsAsSeen, Rec, Looking, LockTypeOK
<1>q. QED
  BY <1>1, <1>2, <1>3, <1>4, MoveKeeps

-----------------------------------------------------------------------------
(* The operation, and giving the lock back                                 *)

LEMMA ReadStateKeeps ==
  ASSUME IInv, NEW c \in Callers, ReadState(c)
  PROVE  IInv'
<1> DEFINE r == Rec("operate", call[c].purpose, call[c].lock, call[c].guard)
<1>0. LockTypeOK /\ WellFormed(call[c])
  BY DEF IInv, FileInv, UsesInv, Shape
<1>1. call' = [call EXCEPT ![c] = r] /\ call[c].step = "read"
  BY <1>0, GoToIs DEF ReadState
<1>2. /\ UNCHANGED <<lock, guard, owner, boundVars>>
      /\ UNCHANGED <<seen, old>>
      /\ current' = current \cup {c}
  BY DEF ReadState, pathVars
<1>3. Moves(c, r)
  BY <1>0, <1>1, <1>2
     DEF Moves, LockTypeOK, CallType, Rec, Steps, Purposes, WellFormed, Holds, Locks,
         Reclaiming, Releasing
<1>4. Exclusive => Respects(c, r)
  BY <1>0, <1>1, <1>2, CurrentKept DEF Respects, Exclusive, Rec, Looking, IInv
<1>q. QED
  BY <1>1, <1>2, <1>3, <1>4, MoveKeeps

LEMMA ReturnKeeps ==
  ASSUME IInv, NEW c \in Callers, Return(c)
  PROVE  IInv'
<1> DEFINE r == Rec("guard", "release", call[c].lock, call[c].guard)
<1>0. LockTypeOK /\ WellFormed(call[c])
  BY DEF IInv, FileInv, UsesInv, Shape
<1>1. call' = [call EXCEPT ![c] = r] /\ call[c].step = "operate"
  BY <1>0, GoForIs DEF Return, Leave
<1>2. /\ UNCHANGED <<lock, guard, owner, boundVars>>
      /\ UNCHANGED <<seen, old>>
      /\ current' = current \ {c}
  BY DEF Return, Leave, pathVars
<1>3. Moves(c, r)
  BY <1>0, <1>1, <1>2
     DEF Moves, LockTypeOK, CallType, Rec, Steps, Purposes, WellFormed, Holds, Locks,
         Reclaiming, Releasing
<1>4. Exclusive => Respects(c, r)
  BY <1>0, <1>1, <1>2, CurrentKept DEF Respects, Exclusive, Rec, Looking, IInv
<1>q. QED
  BY <1>1, <1>2, <1>3, <1>4, MoveKeeps

LEMMA CheckLockKeeps ==
  ASSUME IInv, NEW c \in Callers, CheckLock(c)
  PROVE  IInv'
<1> DEFINE r == IF OwnsLock(c) THEN Rec("rename", call[c].purpose, call[c].lock, call[c].guard)
                ELSE Rec("guard", "release", call[c].lock, call[c].guard)
<1>0. LockTypeOK /\ WellFormed(call[c])
  BY DEF IInv, FileInv, UsesInv, Shape
<1>1. call' = [call EXCEPT ![c] = r] /\ call[c].step = "operate"
  BY <1>0, GoToIs, GoForIs DEF CheckLock, Leave
<1>2. /\ UNCHANGED <<lock, guard, owner, boundVars>>
      /\ UNCHANGED <<seen, old>>
      /\ current' = IF OwnsLock(c) THEN current ELSE current \ {c}
  BY DEF CheckLock, Leave, pathVars
<1>3. Moves(c, r)
  BY <1>0, <1>1, <1>2
     DEF Moves, LockTypeOK, CallType, Rec, Steps, Purposes, WellFormed, Holds, Locks,
         Reclaiming, Releasing
<1>4. ASSUME Exclusive PROVE Respects(c, r)
  <2>1. c \in current
    BY <1>1, <1>4 DEF Exclusive, StateIsCurrent
  <2>q. QED
    BY <1>0, <1>1, <1>2, <1>4, <2>1, CurrentKept DEF Respects, Exclusive, Rec, Looking, IInv
<1>q. QED
  BY <1>1, <1>2, <1>3, <1>4, MoveKeeps

(* Two calls that both have the lock are the same.                         *)
LEMMA OneHolds ==
  ASSUME FileInv, LockHeld, NEW c \in Callers, NEW d \in Callers,
         Locks(call[c]), Locks(call[d])
  PROVE  c = d
BY DEF FileInv, UsesInv, Shape, WellFormed, Distinct, LockHeld

LEMMA OperatingLocks ==
  ASSUME FileInv, NEW c \in Callers, Operating(c)
  PROVE  Locks(call[c])
BY DEF FileInv, UsesInv, Shape, WellFormed, Operating, Locks

LEMMA ReplaceStateKeeps ==
  ASSUME IInv, NEW c \in Callers, ReplaceState(c)
  PROVE  IInv'
<1> DEFINE r == Rec("guard", "release", call[c].lock, call[c].guard)
<1>0. LockTypeOK /\ WellFormed(call[c])
  BY DEF IInv, FileInv, UsesInv, Shape
<1>1. call' = [call EXCEPT ![c] = r] /\ call[c].step = "rename"
  BY <1>0, GoForIs DEF ReplaceState
<1>2. /\ UNCHANGED <<lock, guard, owner, boundVars>>
      /\ UNCHANGED <<seen, old>>
      /\ current' = {}
  BY DEF ReplaceState, pathVars
<1>3. Moves(c, r)
  BY <1>0, <1>1, <1>2
     DEF Moves, LockTypeOK, CallType, Rec, Steps, Purposes, WellFormed, Holds, Locks,
         Reclaiming, Releasing
<1>4. ASSUME Exclusive PROVE Respects(c, r)
  <2>1. ASSUME NEW d \in Callers, call[d].step \in {"operate", "rename"}
        PROVE  d = c
    <3>1. Locks(call[c]) /\ Locks(call[d])
      BY <1>1, <2>1, OperatingLocks DEF Operating, IInv
    <3>q. QED
      BY <1>4, <3>1, OneHolds DEF Exclusive, IInv
  <2>2. r.step = "guard" /\ call'[c] = r /\ \A d \in Callers : d # c => call'[d] = call[d]
    BY <1>0, <1>1, Replaced DEF Rec
  <2>3. \A d \in Callers : call'[d].step \notin {"operate", "rename"}
    BY <2>1, <2>2
  <2>4. StateIsCurrent'
    BY <2>3 DEF StateIsCurrent
  <2>q. QED
    BY <1>0, <1>1, <1>2, <1>4, <2>4 DEF Respects, Rec, Looking
<1>q. QED
  BY <1>1, <1>2, <1>3, <1>4, MoveKeeps

LEMMA ReadLockKeeps ==
  ASSUME IInv, NEW c \in Callers, ReadLock(c)
  PROVE  IInv'
<1> DEFINE r == IF OwnsLock(c) THEN Rec("checkAgain", call[c].purpose, call[c].lock, call[c].guard)
                ELSE Rec("drop", "end", call[c].lock, call[c].guard)
<1>0. LockTypeOK /\ WellFormed(call[c])
  BY DEF IInv, FileInv, UsesInv, Shape
<1>1. call' = [call EXCEPT ![c] = r] /\ call[c].step = "readLock"
  BY <1>0, GoToIs, GoForIs DEF ReadLock
<1>2. /\ UNCHANGED <<lock, guard, owner, boundVars>>
      /\ UNCHANGED <<seen, old, current>>
  BY DEF ReadLock, pathVars
<1>3. Moves(c, r)
  BY <1>0, <1>1, <1>2
     DEF OwnsLock, Moves, LockTypeOK, CallType, Rec, Steps, Purposes, WellFormed, Holds, Locks,
         Reclaiming, Releasing
<1>4. Exclusive => Respects(c, r)
  BY <1>0, <1>1, <1>2, CurrentKept DEF Respects, Exclusive, Rec, Looking, IInv
<1>q. QED
  BY <1>1, <1>2, <1>3, <1>4, MoveKeeps

LEMMA CheckGuardAgainKeeps ==
  ASSUME IInv, NEW c \in Callers, CheckGuardAgain(c)
  PROVE  IInv'
<1> DEFINE r == Rec(IF OwnsGuard(c) THEN "unlinkLock" ELSE "drop",
                    call[c].purpose, call[c].lock, call[c].guard)
<1>0. LockTypeOK /\ WellFormed(call[c])
  BY DEF IInv, FileInv, UsesInv, Shape
<1>1. call' = [call EXCEPT ![c] = r] /\ call[c].step = "checkAgain"
  BY <1>0, GoToIs DEF CheckGuardAgain
<1>2. /\ UNCHANGED <<lock, guard, owner, boundVars>>
      /\ UNCHANGED <<seen, old, current>>
  BY DEF CheckGuardAgain, pathVars
<1>3. Moves(c, r)
  BY <1>0, <1>1, <1>2
     DEF Moves, LockTypeOK, CallType, Rec, Steps, Purposes, WellFormed, Holds, Locks,
         Reclaiming, Releasing
<1>4. Exclusive => Respects(c, r)
  BY <1>0, <1>1, <1>2, CurrentKept DEF Respects, Exclusive, Rec, Looking, IInv
<1>q. QED
  BY <1>1, <1>2, <1>3, <1>4, MoveKeeps

-----------------------------------------------------------------------------
(* Renewing a file                                                         *)

LEMMA HeartbeatKeeps ==
  ASSUME IInv, NEW c \in Callers, Heartbeat(c)
  PROVE  IInv'
<1>0. LockTypeOK /\ FileInv
  BY DEF IInv, FileInv
<1>1. UNCHANGED <<call, lock, guard, owner, current, abandoned, faults>>
  BY DEF Heartbeat, boundVars
<1>2. /\ old' \subseteq old
      /\ seen' \in [Callers -> Files \cup {None}]
      /\ \A d \in Callers : seen'[d] \in {seen[d], None}
  BY <1>0, Touched DEF Heartbeat
<1>3. LockTypeOK'
  BY <1>0, <1>1, <1>2 DEF LockTypeOK
<1>4. UsesInv'
  BY <1>0, <1>1 DEF FileInv, UsesInv, Shape, Distinct, Signed, NoForgottenLock
<1>5. ASSUME Exclusive PROVE Exclusive'
  <2>1. LockHeld' /\ StateIsCurrent'
    BY <1>1, <1>5 DEF Exclusive, LockHeld, StateIsCurrent
  <2>2. GhostSeen'
    BY <1>1, <1>2, <1>5 DEF Exclusive, GhostSeen
  <2>3. (GuardIntact => GuardIntact') /\ (LockIntact => LockIntact')
    BY <1>1, <1>2 DEF GuardIntact, LockIntact
  <2>q. QED
    BY <1>1, <1>5, <2>1, <2>2, <2>3 DEF Exclusive
<1>q. QED
  BY <1>1, <1>3, <1>4, <1>5 DEF IInv, FileInv, MutexInv

-----------------------------------------------------------------------------
(* The guard is created, signed and removed                                *)

LEMMA CreateGuardKeeps ==
  ASSUME IInv, NEW c \in Callers, CreateGuard(c)
  PROVE  IInv'
<1> DEFINE r == Rec("sign", call[c].purpose, call[c].lock, NewFile)
<1>0. LockTypeOK /\ FileInv /\ WellFormed(call[c])
  BY DEF IInv, FileInv, UsesInv, Shape
<1>a. [call[c] EXCEPT !.step = "sign", !.guard = NewFile] = r
  BY <1>0, GuardIs
<1>b. call' = [call EXCEPT ![c] = [call[c] EXCEPT !.step = "sign", !.guard = NewFile]]
  BY DEF CreateGuard
<1>1. call' = [call EXCEPT ![c] = r] /\ call[c].step = "guard"
  BY <1>a, <1>b DEF CreateGuard
<1>2. call'[c] = r /\ \A d \in Callers : d # c => call'[d] = call[d]
  BY <1>0, <1>1, Replaced
<1>3. /\ guard = None /\ guard' = NewFile
      /\ owner' = [owner EXCEPT ![NewFile] = None]
      /\ old' = old \ {NewFile}
      /\ UNCHANGED <<seen, lock, current, abandoned, faults>>
  BY DEF CreateGuard, boundVars
<1>4. /\ NewFile \in Files /\ NewFile # None /\ NewFile # lock
      /\ \A d \in Callers : call[d].lock # NewFile /\ call[d].guard # NewFile
  BY NewFileIsNew, FilesAssumption DEF CreateGuard, Remembered
<1>5. r \in CallType /\ WellFormed(r)
  BY <1>0, <1>1, <1>4
     DEF LockTypeOK, CallType, Rec, Idle, Steps, Purposes, WellFormed, Holds, Locks,
             Reclaiming, Releasing
<1>6. LockTypeOK'
  BY <1>0, <1>1, <1>3, <1>4, <1>5 DEF LockTypeOK, CallType, Rec
<1>7. UsesInv'
  <2>1. Shape'
    BY <1>0, <1>2, <1>5 DEF FileInv, UsesInv, Shape, WellFormed, Holds, Locks
  <2>2. Distinct'
    BY <1>0, <1>2, <1>3, <1>4 DEF FileInv, UsesInv, Distinct, Rec
  <2>3. Signed'
    BY <1>0, <1>1, <1>2, <1>3, <1>4 DEF FileInv, UsesInv, Signed, LockTypeOK, Locks, Rec
  <2>4. NoForgottenLock'
    BY <1>0, <1>2, <1>3, <1>4 DEF FileInv, UsesInv, NoForgottenLock, LockTypeOK, Rec
  <2>q. QED
    BY <2>1, <2>2, <2>3, <2>4 DEF UsesInv
<1>8. ASSUME Exclusive PROVE Exclusive'
  <2>1. Locks(r) <=> Locks(call[c])
    BY <1>1 DEF Locks, Rec
  <2>2. LockHeld' /\ StateIsCurrent'
    BY <1>2, <1>3, <1>8, <2>1 DEF Exclusive, LockHeld, StateIsCurrent, Locks, Rec
  <2>3. GhostSeen'
    BY <1>2, <1>3, <1>8, <2>1 DEF Exclusive, GhostSeen, Locks, Looking, Rec
  <2>4. ASSUME GuardIntact PROVE GuardIntact'
    <3>1. \A d \in Callers : ~Holds(call[d])
      BY <1>0, <1>3, <2>4 DEF GuardIntact, FileInv, UsesInv, Shape, WellFormed
    <3>2. \A d \in Callers : Holds(call'[d]) => guard' = call'[d].guard
      BY <1>2, <1>3, <3>1 DEF Rec
    <3>3. \A d \in Callers : call'[d].step \notin {"recheck", "unlinkGuard"}
      BY <1>2, <2>4 DEF GuardIntact, Rec
    <3>4. guard' \notin old' /\ call'[c].step = "sign" /\ call'[c].guard = guard'
      BY <1>2, <1>3 DEF Rec
    <3>q. QED
      BY <3>2, <3>3, <3>4 DEF GuardIntact, Holds
  <2>5. ASSUME LockIntact PROVE LockIntact'
    <3>1. owner'[lock] = owner[lock] \/ lock = None
      BY <1>0, <1>3, <1>4 DEF LockTypeOK
    <3>q. QED
      BY <1>0, <1>1, <1>3, <2>5, <3>1, LockKept DEF Rec
  <2>q. QED
    BY <1>3, <1>8, <2>2, <2>3, <2>4, <2>5 DEF Exclusive
<1>q. QED
  BY <1>3, <1>6, <1>7, <1>8 DEF IInv, FileInv, MutexInv

LEMMA SignGuardKeeps ==
  ASSUME IInv, NEW c \in Callers, SignGuard(c)
  PROVE  IInv'
<1> DEFINE f == call[c].guard
           s == IF call[c].purpose = "reclaim" THEN "inspect" ELSE "check"
           r == Rec(s, call[c].purpose, call[c].lock, f)
<1>0. LockTypeOK /\ FileInv /\ WellFormed(call[c])
  BY DEF IInv, FileInv, UsesInv, Shape
<1>a. GoTo(c, s)
  BY DEF SignGuard
<1>b. call' = [call EXCEPT ![c] = Rec(s, call[c].purpose, call[c].lock, call[c].guard)]
  <2> HIDE DEF s
  <2>q. QED
    BY <1>0, <1>a, GoToIs
<1>1. call' = [call EXCEPT ![c] = r] /\ call[c].step = "sign"
  BY <1>b DEF SignGuard
<1>2. call'[c] = r /\ \A d \in Callers : d # c => call'[d] = call[d]
  <2> HIDE DEF r
  <2>q. QED
    BY <1>0, <1>1, Replaced
<1>3. /\ owner' = [owner EXCEPT ![f] = c]
      /\ UNCHANGED <<lock, guard, current, abandoned, faults>>
      /\ old' \subseteq old
      /\ seen' \in [Callers -> Files \cup {None}]
      /\ \A d \in Callers : seen'[d] \in {seen[d], None}
  BY <1>0, Touched DEF SignGuard, boundVars
<1>4. f \in Files /\ f # None
  BY <1>0, <1>1 DEF LockTypeOK, WellFormed, Holds
<1>5. f # lock /\ \A d \in Callers : call[d].lock # f
  BY <1>0, <1>4 DEF FileInv, UsesInv, Distinct
<1>6. r \in CallType /\ WellFormed(r)
  BY <1>0, <1>1, <1>4
     DEF LockTypeOK, CallType, Rec, Idle, Steps, Purposes, WellFormed, Holds, Locks,
             Reclaiming, Releasing
<1>7. LockTypeOK'
  BY <1>0, <1>1, <1>3, <1>4, <1>6 DEF LockTypeOK, CallType, Rec
<1>8. UsesInv'
  <2>1. Shape'
    BY <1>0, <1>2, <1>6 DEF FileInv, UsesInv, Shape, WellFormed, Holds, Locks
  <2>2. Distinct'
    BY <1>0, <1>2, <1>3 DEF FileInv, UsesInv, Distinct, Rec
  <2>3. Signed'
    BY <1>0, <1>1, <1>2, <1>3, <1>5 DEF FileInv, UsesInv, Signed, LockTypeOK, Locks, Rec
  <2>4. NoForgottenLock'
    BY <1>0, <1>2, <1>3, <1>5 DEF FileInv, UsesInv, NoForgottenLock, LockTypeOK, Rec
  <2>q. QED
    BY <2>1, <2>2, <2>3, <2>4 DEF UsesInv
<1>9. ASSUME Exclusive PROVE Exclusive'
  <2>1. Locks(r) <=> Locks(call[c])
    BY <1>1 DEF Locks, Rec
  <2>2. LockHeld' /\ StateIsCurrent'
    BY <1>2, <1>3, <1>9, <2>1 DEF Exclusive, LockHeld, StateIsCurrent, Locks, Rec
  <2>3. GhostSeen'
    BY <1>2, <1>3, <1>9, <2>1 DEF Exclusive, GhostSeen, Locks, Looking, Rec
  <2>4. ASSUME GuardIntact PROVE GuardIntact'
    <3>1. \A d \in Callers : Holds(call'[d]) => guard' = call'[d].guard
      BY <1>1, <1>2, <1>3, <2>4 DEF GuardIntact, Holds, Rec
    <3>2. \A d \in Callers : call'[d].step \notin {"recheck", "unlinkGuard"}
      BY <1>2, <2>4 DEF GuardIntact, Rec
    <3>3. owner'[guard'] # None
      BY <1>0, <1>1, <1>3, <1>4, <2>4, FilesAssumption DEF GuardIntact, Holds, LockTypeOK
    <3>q. QED
      BY <3>1, <3>2, <3>3 DEF GuardIntact, Holds
  <2>5. ASSUME LockIntact PROVE LockIntact'
    <3>1. owner'[lock] = owner[lock] \/ lock = None
      BY <1>0, <1>3, <1>5 DEF LockTypeOK
    <3>q. QED
      BY <1>0, <1>1, <1>3, <2>5, <3>1, LockKept DEF Rec
  <2>q. QED
    BY <1>3, <1>9, <2>2, <2>3, <2>4, <2>5 DEF Exclusive
<1>q. QED
  BY <1>3, <1>7, <1>8, <1>9 DEF IInv, FileInv, MutexInv

(* The guard's holder may remove it: nobody else relies on it.             *)
LEMMA GuardCleared ==
  ASSUME FileInv, GuardIntact, NEW c \in Callers, NEW r, call' = [call EXCEPT ![c] = r],
         Holds(call[c]), ~Holds(r), r.step \notin {"recheck", "unlinkGuard"}, guard' = None
  PROVE  GuardIntact'
<1>1. call'[c] = r /\ \A d \in Callers : d # c => call'[d] = call[d]
  BY Replaced DEF FileInv
<1>2. \A d \in Callers : Holds(call[d]) => d = c
  BY DEF FileInv, UsesInv, Shape, WellFormed, Distinct, GuardIntact
<1>3. \A d \in Callers : ~Holds(call'[d])
  BY <1>1, <1>2
<1>4. \A d \in Callers : call'[d].step \notin {"recheck", "unlinkGuard"}
  BY <1>1 DEF GuardIntact
<1>q. QED
  BY <1>3, <1>4 DEF GuardIntact, Holds

LEMMA FailToSignKeeps ==
  ASSUME IInv, NEW c \in Callers, FailToSign(c)
  PROVE  IInv'
<1>0. LockTypeOK /\ FileInv /\ WellFormed(call[c])
  BY DEF IInv, FileInv, UsesInv, Shape
<1>1. call' = [call EXCEPT ![c] = Idle] /\ call[c].step = "sign"
  BY DEF FailToSign, End
<1>2. /\ guard' = None /\ faults' = faults + 1 /\ faults < MaxFaults
      /\ UNCHANGED <<seen, lock, owner, old, current, abandoned>>
  BY DEF FailToSign
<1>3. Idle \in CallType /\ WellFormed(Idle) /\ ~Locks(Idle) /\ ~Holds(Idle)
  BY DEF LockTypeOK, CallType, Rec, Idle, Steps, Purposes, WellFormed, Holds, Locks,
             Reclaiming, Releasing
<1>4. faults' \in 0..MaxFaults /\ faults' # 0
  BY <1>0, <1>2, BoundsAssumption DEF LockTypeOK
<1>5. LockTypeOK'
  BY <1>0, <1>1, <1>2, <1>3, <1>4 DEF LockTypeOK, CallType
<1>6. UsesInv'
  BY <1>0, <1>1, <1>2, <1>3, <1>4, UsesKept DEF Idle
<1>7. ASSUME Exclusive PROVE Exclusive'
  <2>1. LockHeld' /\ StateIsCurrent'
    BY <1>0, <1>1, <1>2, <1>3, <1>7, HeldKept, CurrentKept DEF Exclusive, Idle
  <2>2. GhostSeen'
    BY <1>0, <1>1, <1>2, <1>3, <1>7, GhostKept DEF Exclusive, Idle, Looking
  <2>3. GuardIntact => GuardIntact'
    BY <1>0, <1>1, <1>2, <1>3, GuardCleared DEF Idle, Holds
  <2>4. LockIntact => LockIntact'
    BY <1>0, <1>1, <1>2, LockKept DEF Idle
  <2>q. QED
    BY <1>2, <1>7, <2>1, <2>2, <2>3, <2>4 DEF Exclusive
<1>q. QED
  BY <1>2, <1>5, <1>6, <1>7 DEF IInv, FileInv, MutexInv

LEMMA UnlinkStaleGuardKeeps ==
  ASSUME IInv, NEW c \in Callers, UnlinkStaleGuard(c)
  PROVE  IInv'
<1> DEFINE r == Rec("guard", WithoutGuard(call[c].purpose), call[c].lock, call[c].guard)
<1>0. LockTypeOK /\ FileInv /\ WellFormed(call[c])
  BY DEF IInv, FileInv, UsesInv, Shape
<1>1. call' = [call EXCEPT ![c] = r] /\ call[c].step = "unlinkGuard"
  BY <1>0, GoForIs DEF UnlinkStaleGuard
<1>2. guard' = None /\ UNCHANGED <<seen, lock, owner, old, current, abandoned, faults>>
  BY DEF UnlinkStaleGuard, boundVars
<1>3. r \in CallType /\ WellFormed(r) /\ (Locks(r) => Locks(call[c]))
  BY <1>0, <1>1
     DEF LockTypeOK, CallType, Rec, Steps, Purposes, WithoutGuard, WellFormed, Holds, Locks,
         Reclaiming, Releasing
<1>4. LockTypeOK'
  BY <1>0, <1>1, <1>2, <1>3 DEF LockTypeOK, CallType, Rec
<1>5. UsesInv'
  BY <1>0, <1>1, <1>2, <1>3, UsesKept DEF Rec, WellFormed
<1>6. ASSUME Exclusive PROVE Exclusive'
  <2>1. LockHeld' /\ StateIsCurrent'
    BY <1>0, <1>1, <1>2, <1>3, <1>6, HeldKept, CurrentKept DEF Exclusive, Rec
  <2>2. GhostSeen'
    BY <1>0, <1>1, <1>2, <1>3, <1>6, GhostKept DEF Exclusive, Rec, Looking
  <2>3. ~GuardIntact
    BY <1>1 DEF GuardIntact
  <2>4. LockIntact => LockIntact'
    BY <1>0, <1>1, <1>2, LockKept DEF Rec
  <2>q. QED
    BY <1>2, <1>6, <2>1, <2>2, <2>3, <2>4 DEF Exclusive
<1>q. QED
  BY <1>2, <1>4, <1>5, <1>6 DEF IInv, FileInv, MutexInv

LEMMA UnlinkOwnGuardKeeps ==
  ASSUME IInv, NEW c \in Callers, UnlinkOwnGuard(c)
  PROVE  IInv'
<1> DEFINE p == call[c].purpose
           r == IF p = "end" THEN Idle
                ELSE Rec(IF p = "operate" THEN "read" ELSE "guard", p, call[c].lock, None)
<1>0. LockTypeOK /\ FileInv /\ WellFormed(call[c])
  BY DEF IInv, FileInv, UsesInv, Shape
<1>1. call' = [call EXCEPT ![c] = r] /\ call[c].step = "unlinkOwn"
  BY <1>0, AfterGuardIs DEF UnlinkOwnGuard
<1>2. guard' = None /\ UNCHANGED <<seen, lock, owner, old, current, abandoned, faults>>
  BY DEF UnlinkOwnGuard, boundVars
<1>3. /\ r \in CallType /\ WellFormed(r) /\ (r.step = "idle" => r = Idle)
      /\ (Locks(r) => Locks(call[c]) /\ r.lock = call[c].lock) /\ ~Holds(r) /\ Holds(call[c])
      /\ r.lock \in {call[c].lock, None} /\ (Locks(call[c]) => r.lock = call[c].lock)
      /\ r.guard = None /\ r.step \in {"idle", "guard", "read"}
  BY <1>0, <1>1
     DEF LockTypeOK, CallType, Rec, Idle, Steps, Purposes, WellFormed, Holds, Locks,
             Reclaiming, Releasing
<1>4. LockTypeOK'
  BY <1>0, <1>1, <1>2, <1>3 DEF LockTypeOK, CallType
<1>5. UsesInv'
  <2>1. call[c].lock # None /\ ~Locks(call[c]) => lock # call[c].lock
    BY <1>0 DEF FileInv, UsesInv, Signed
  <2>2. call[c].lock # None /\ r.lock = None => lock' # call[c].lock
    BY <1>2, <1>3, <2>1
  <2>3. r.lock # None /\ ~Locks(r) => lock' # r.lock
    BY <1>0, <1>2, <1>3, <2>1 DEF WellFormed
  <2>q. QED
    BY <1>0, <1>1, <1>2, <1>3, <2>2, <2>3, UsesKept
<1>6. ASSUME Exclusive PROVE Exclusive'
  <2>1. LockHeld' /\ StateIsCurrent'
    BY <1>0, <1>1, <1>2, <1>3, <1>6, HeldKept, CurrentKept DEF Exclusive
  <2>2. GhostSeen'
    BY <1>0, <1>1, <1>2, <1>3, <1>6, GhostKept DEF Exclusive, Looking
  <2>3. GuardIntact => GuardIntact'
    BY <1>0, <1>1, <1>2, <1>3, GuardCleared
  <2>4. LockIntact => LockIntact'
    BY <1>0, <1>1, <1>2, <1>3, LockKept
  <2>q. QED
    BY <1>2, <1>6, <2>1, <2>2, <2>3, <2>4 DEF Exclusive
<1>q. QED
  BY <1>2, <1>4, <1>5, <1>6 DEF IInv, FileInv, MutexInv

-----------------------------------------------------------------------------
(* The lock is created, signed and removed                                 *)

LEMMA CreateLockKeeps ==
  ASSUME IInv, NEW c \in Callers, CreateLock(c)
  PROVE  IInv'
<1> DEFINE r == Rec("write", call[c].purpose, NewFile, call[c].guard)
<1>0. LockTypeOK /\ FileInv /\ WellFormed(call[c])
  BY DEF IInv, FileInv, UsesInv, Shape
<1>a. [call[c] EXCEPT !.step = "write", !.lock = NewFile] = r
  BY <1>0, LockIs
<1>b. call' = [call EXCEPT ![c] = [call[c] EXCEPT !.step = "write", !.lock = NewFile]]
  BY DEF CreateLock
<1>1. call' = [call EXCEPT ![c] = r] /\ call[c].step = "create"
  BY <1>a, <1>b DEF CreateLock
<1>2. call'[c] = r /\ \A d \in Callers : d # c => call'[d] = call[d]
  BY <1>0, <1>1, Replaced
<1>3. /\ lock = None /\ lock' = NewFile
      /\ owner' = [owner EXCEPT ![NewFile] = None]
      /\ old' = old \ {NewFile}
      /\ UNCHANGED <<seen, guard, current, abandoned, faults>>
  BY DEF CreateLock, CanCreateLock, boundVars
<1>4. /\ NewFile \in Files /\ NewFile # None /\ NewFile # guard
      /\ \A d \in Callers : call[d].lock # NewFile /\ call[d].guard # NewFile /\ seen[d] # NewFile
  BY NewFileIsNew, FilesAssumption DEF CreateLock, Remembered
<1>5. r \in CallType /\ WellFormed(r)
  BY <1>0, <1>1, <1>4
     DEF LockTypeOK, CallType, Rec, Idle, Steps, Purposes, WellFormed, Holds, Locks,
             Reclaiming, Releasing
<1>6. LockTypeOK'
  BY <1>0, <1>1, <1>3, <1>4, <1>5 DEF LockTypeOK, CallType, Rec
<1>7. UsesInv'
  <2>1. Shape'
    BY <1>0, <1>2, <1>5 DEF FileInv, UsesInv, Shape, WellFormed, Holds, Locks
  <2>2. Distinct'
    BY <1>0, <1>2, <1>3, <1>4 DEF FileInv, UsesInv, Distinct, Rec
  <2>3. Signed'
    BY <1>0, <1>1, <1>2, <1>3, <1>4 DEF FileInv, UsesInv, Signed, LockTypeOK, Locks, Rec
  <2>4. NoForgottenLock'
    BY <1>0, <1>3, <1>4 DEF NoForgottenLock, LockTypeOK
  <2>q. QED
    BY <2>1, <2>2, <2>3, <2>4 DEF UsesInv
<1>8. ASSUME Exclusive PROVE Exclusive'
  <2>1. \A d \in Callers : ~Locks(call[d])
    BY <1>0, <1>3, <1>8 DEF Exclusive, LockHeld, FileInv, UsesInv, Shape, WellFormed
  <2>2. \A d \in Callers : Locks(call'[d]) => d = c
    BY <1>2, <2>1
  <2>3. LockHeld' /\ StateIsCurrent'
    BY <1>2, <1>3, <1>8, <2>2 DEF Exclusive, LockHeld, StateIsCurrent, Locks, Rec
  <2>4. GuardIntact => GuardIntact'
    BY <1>0, <1>1, <1>3, <1>4, GuardKept DEF Holds, Rec, LockTypeOK
  <2>5. ASSUME LockIntact PROVE LockIntact'
    <3>1. \A d \in Callers : call'[d].step \notin {"link", "confirm", "match", "unlinkStale"}
      BY <1>2, <2>5 DEF LockIntact, Rec
    <3>2. lock' \notin old' /\ call'[c].step = "write" /\ call'[c].lock = lock'
      BY <1>2, <1>3 DEF Rec
    <3>q. QED
      BY <3>1, <3>2 DEF LockIntact
  (* The guard's holder is creating the lock: nobody is reclaiming one.    *)
  <2>6. \A d \in Callers : call[d].step # "unlinkStale"
    <3>1. ASSUME GuardIntact, NEW d \in Callers, call[d].step = "unlinkStale"
          PROVE  FALSE
      <4>1. Holds(call[c]) /\ Holds(call[d])
        BY <1>1, <3>1 DEF Holds
      <4>2. call[c].guard # None /\ call[c].guard = call[d].guard
        BY <1>0, <3>1, <4>1 DEF WellFormed, GuardIntact
      <4>q. QED
        BY <1>0, <1>1, <3>1, <4>2 DEF FileInv, UsesInv, Distinct
    <3>q. QED
      BY <1>8, <3>1 DEF Exclusive, LockIntact
  <2>7. GhostSeen'
    <3>1. ASSUME NEW e \in Callers, NEW d \in Callers, call'[e].step \in Looking, seen'[e] # None
          PROVE  call'[d].lock # seen'[e]
      BY <1>2, <1>3, <1>4, <1>8, <3>1 DEF Exclusive, GhostSeen, Looking, Rec
    <3>2. \A e \in Callers : call'[e].step # "unlinkStale"
      BY <1>2, <2>6 DEF Rec
    <3>q. QED
      BY <3>1, <3>2 DEF GhostSeen
  <2>q. QED
    BY <1>3, <1>8, <2>3, <2>4, <2>5, <2>7 DEF Exclusive
<1>q. QED
  BY <1>3, <1>6, <1>7, <1>8 DEF IInv, FileInv, MutexInv

LEMMA WriteLockKeeps ==
  ASSUME IInv, NEW c \in Callers, WriteLock(c)
  PROVE  IInv'
<1> DEFINE r == Rec("drop", "operate", call[c].lock, call[c].guard)
<1>0. LockTypeOK /\ FileInv /\ WellFormed(call[c])
  BY DEF IInv, FileInv, UsesInv, Shape
<1>1. call' = [call EXCEPT ![c] = r] /\ call[c].step = "write" /\ Locks(call[c])
  BY <1>0, GoForIs DEF WriteLock, Locks
<1>2. call'[c] = r /\ \A d \in Callers : d # c => call'[d] = call[d]
  BY <1>0, <1>1, Replaced
<1>3. /\ owner' = [owner EXCEPT ![call[c].lock] = c]
      /\ UNCHANGED <<lock, guard, current, abandoned, faults>>
      /\ old' \subseteq old
      /\ seen' \in [Callers -> Files \cup {None}]
      /\ \A d \in Callers : seen'[d] \in {seen[d], None}
  BY <1>0, Touched DEF WriteLock, boundVars
<1>4. call[c].lock \in Files /\ call[c].lock # None
  BY <1>0, <1>1 DEF LockTypeOK, WellFormed
<1>5. call[c].lock # guard /\ \A d \in Callers : d # c => call[d].lock # call[c].lock
  BY <1>0, <1>4 DEF FileInv, UsesInv, Distinct
<1>6. r \in CallType /\ WellFormed(r)
  BY <1>0, <1>1, <1>4
     DEF LockTypeOK, CallType, Rec, Idle, Steps, Purposes, WellFormed, Holds, Locks,
             Reclaiming, Releasing
<1>7. LockTypeOK'
  BY <1>0, <1>1, <1>3, <1>4, <1>6 DEF LockTypeOK, CallType, Rec
<1>8. UsesInv'
  <2>1. Shape'
    BY <1>0, <1>2, <1>6 DEF FileInv, UsesInv, Shape, WellFormed, Holds, Locks
  <2>2. Distinct'
    BY <1>0, <1>2, <1>3 DEF FileInv, UsesInv, Distinct, Rec
  <2>3. Signed'
    <3>1. \A d \in Callers : d # c => owner'[call[d].lock] = owner[call[d].lock]
      BY <1>0, <1>3, <1>5 DEF LockTypeOK
    <3>2. owner'[call[c].lock] = c
      BY <1>0, <1>3, <1>4 DEF LockTypeOK
    <3>q. QED
      BY <1>0, <1>2, <1>3, <3>1, <3>2 DEF FileInv, UsesInv, Signed, Locks, Rec
  <2>4. NoForgottenLock'
    BY <1>0, <1>2, <1>3, <1>4, <1>5 DEF FileInv, UsesInv, NoForgottenLock, LockTypeOK, Rec
  <2>q. QED
    BY <2>1, <2>2, <2>3, <2>4 DEF UsesInv
<1>9. ASSUME Exclusive PROVE Exclusive'
  <2>1. LockHeld' /\ StateIsCurrent'
    BY <1>0, <1>1, <1>3, <1>9, HeldKept, CurrentKept DEF Exclusive, Rec
  <2>2. GhostSeen'
    BY <1>0, <1>1, <1>3, <1>6, <1>9, GhostKept DEF Exclusive, Looking, Rec
  <2>3. GuardIntact => GuardIntact'
    <3>1. guard # None => owner'[guard] = owner[guard]
      BY <1>0, <1>3, <1>5 DEF LockTypeOK
    <3>q. QED
      BY <1>0, <1>1, <1>3, <3>1, GuardKept DEF Holds, Rec
  <2>4. ASSUME LockIntact PROVE LockIntact'
    <3>1. \A d \in Callers : call'[d].step \notin {"link", "confirm", "match", "unlinkStale"}
      BY <1>2, <2>4 DEF LockIntact, Rec
    <3>2. owner'[lock'] # None
      BY <1>0, <1>1, <1>3, <1>4, <1>9, FilesAssumption DEF Exclusive, LockHeld, LockTypeOK
    <3>q. QED
      BY <3>1, <3>2 DEF LockIntact
  <2>q. QED
    BY <1>3, <1>9, <2>1, <2>2, <2>3, <2>4 DEF Exclusive
<1>q. QED
  BY <1>3, <1>7, <1>8, <1>9 DEF IInv, FileInv, MutexInv

LEMMA FailToWriteLockKeeps ==
  ASSUME IInv, NEW c \in Callers, FailToWriteLock(c)
  PROVE  IInv'
<1> DEFINE r == Rec("drop", "end", None, call[c].guard)
<1>0. LockTypeOK /\ FileInv /\ WellFormed(call[c])
  BY DEF IInv, FileInv, UsesInv, Shape
<1>a. [call[c] EXCEPT !.step = "drop", !.purpose = "end", !.lock = None] = r
  BY <1>0, PurposeAndLockIs
<1>b. call' = [call EXCEPT ![c] =
        [call[c] EXCEPT !.step = "drop", !.purpose = "end", !.lock = None]]
  BY DEF FailToWriteLock
<1>1. call' = [call EXCEPT ![c] = r] /\ call[c].step = "write" /\ Locks(call[c])
  BY <1>a, <1>b DEF FailToWriteLock, Locks
<1>2. /\ lock' = (IF OwnsGuard(c) THEN None ELSE lock)
      /\ abandoned' = (IF OwnsGuard(c) THEN abandoned ELSE abandoned + 1)
      /\ ~OwnsGuard(c) => abandoned < MaxAbandoned
      /\ faults' = faults + 1 /\ faults < MaxFaults
      /\ UNCHANGED <<seen, guard, owner, old, current>>
  BY DEF FailToWriteLock
<1>3. r \in CallType /\ WellFormed(r) /\ ~Locks(r) /\ (Holds(call[c]) /\ r.guard = call[c].guard)
  BY <1>0, <1>1
     DEF LockTypeOK, CallType, Rec, Idle, Steps, Purposes, WellFormed, Holds, Locks,
             Reclaiming, Releasing
<1>4. faults' \in 0..MaxFaults /\ faults' # 0 /\ abandoned' \in 0..MaxAbandoned
  BY <1>0, <1>2, BoundsAssumption DEF LockTypeOK
<1>5. LockTypeOK'
  BY <1>0, <1>1, <1>2, <1>3, <1>4 DEF LockTypeOK, CallType, Rec
<1>6. UsesInv'
  BY <1>0, <1>1, <1>2, <1>3, <1>4, UsesKept DEF Rec
(* Without its guard it leaves the lock to be reclaimed, and had lost the  *)
(* guard because another file was left before.                             *)
<1>7. ASSUME Exclusive, abandoned = 0 \/ OwnsGuard(c)
      PROVE  OwnsGuard(c)
  BY <1>3, <1>7 DEF Exclusive, GuardIntact, OwnsGuard
<1>8. ASSUME Exclusive, OwnsGuard(c) PROVE Exclusive'
  <2>1. \A d \in Callers : Locks(call[d]) => d = c
    BY <1>0, <1>1, <1>8, OneHolds DEF Exclusive
  <2>2. call'[c] = r /\ \A d \in Callers : d # c => call'[d] = call[d]
    BY <1>0, <1>1, Replaced
  <2>3. LockHeld'
    BY <1>3, <2>1, <2>2 DEF LockHeld, Locks
  <2>4. StateIsCurrent'
    BY <1>0, <1>1, <1>2, <1>8, CurrentKept DEF Exclusive, Rec
  <2>5. GhostSeen'
    BY <1>0, <1>1, <1>2, <1>3, <1>8, GhostKept DEF Exclusive, Looking, Rec
  <2>6. GuardIntact => GuardIntact'
    BY <1>0, <1>1, <1>2, <1>3, GuardKept DEF Rec
  <2>7. LockIntact => LockIntact'
    BY <1>0, <1>1, <1>2, <1>8, LockKept DEF Rec
  <2>q. QED
    BY <1>2, <1>8, <2>3, <2>4, <2>5, <2>6, <2>7 DEF Exclusive
<1>9. MutexInv'
  BY <1>0, <1>2, <1>7, <1>8 DEF IInv, MutexInv, LockTypeOK
<1>q. QED
  BY <1>5, <1>6, <1>9 DEF IInv, FileInv

LEMMA UnlinkStaleLockKeeps ==
  ASSUME IInv, NEW c \in Callers, UnlinkStaleLock(c)
  PROVE  IInv'
<1> DEFINE p == IF lock = None THEN "end" ELSE "acquire"
           r == Rec("drop", p, call[c].lock, call[c].guard)
<1>0. LockTypeOK /\ FileInv /\ WellFormed(call[c])
  BY DEF IInv, FileInv, UsesInv, Shape
<1>a. call' = [call EXCEPT ![c] = r]
  <2> HIDE DEF p
  <2>1. GoFor(c, "drop", p)
    BY DEF UnlinkStaleLock, p
  <2>q. QED
    BY <1>0, <2>1, GoForIs
<1>1. call' = [call EXCEPT ![c] = r] /\ call[c].step = "unlinkStale"
  BY <1>a DEF UnlinkStaleLock
<1>2. lock' = None /\ UNCHANGED <<seen, guard, owner, old, current, abandoned, faults>>
  BY DEF UnlinkStaleLock, boundVars
<1>3. r \in CallType /\ WellFormed(r) /\ ~Locks(r) /\ Holds(call[c]) /\ r.step = "drop"
      /\ r.lock = call[c].lock /\ r.guard = call[c].guard
  BY <1>0, <1>1
     DEF LockTypeOK, CallType, Rec, Idle, Steps, Purposes, WellFormed, Holds, Locks,
             Reclaiming, Releasing
<1> HIDE DEF r
<1>4. LockTypeOK'
  BY <1>0, <1>1, <1>2, <1>3 DEF LockTypeOK, CallType
<1>5. UsesInv'
  BY <1>0, <1>1, <1>2, <1>3, UsesKept
<1>6. ASSUME Exclusive PROVE Exclusive'
  <2>1. \A d \in Callers : ~Locks(call[d])
    BY <1>1, <1>6 DEF Exclusive, GhostSeen, LockHeld
  <2>2. call'[c] = r /\ \A d \in Callers : d # c => call'[d] = call[d]
    BY <1>0, <1>1, Replaced
  <2>3. LockHeld'
    BY <1>3, <2>1, <2>2 DEF LockHeld, Locks
  <2>4. StateIsCurrent'
    BY <1>0, <1>1, <1>2, <1>3, <1>6, CurrentKept DEF Exclusive
  <2>5. GhostSeen'
    BY <1>0, <1>1, <1>2, <1>3, <1>6, GhostKept DEF Exclusive, Looking
  <2>6. ~LockIntact
    BY <1>1 DEF LockIntact
  <2>7. GuardIntact => GuardIntact'
    BY <1>0, <1>1, <1>2, <1>3, GuardKept
  <2>q. QED
    BY <1>2, <1>6, <2>3, <2>4, <2>5, <2>6, <2>7 DEF Exclusive
<1>q. QED
  BY <1>2, <1>4, <1>5, <1>6 DEF IInv, FileInv, MutexInv

LEMMA UnlinkLockKeeps ==
  ASSUME IInv, NEW c \in Callers, UnlinkLock(c)
  PROVE  IInv'
<1> DEFINE r == Rec("drop", "end", call[c].lock, call[c].guard)
<1>0. LockTypeOK /\ FileInv /\ WellFormed(call[c])
  BY DEF IInv, FileInv, UsesInv, Shape
<1>1. call' = [call EXCEPT ![c] = r] /\ call[c].step = "unlinkLock"
  BY <1>0, GoForIs DEF UnlinkLock
<1>2. lock' = None /\ UNCHANGED <<seen, guard, owner, old, current, abandoned, faults>>
  BY DEF UnlinkLock, boundVars
<1>3. r \in CallType /\ WellFormed(r) /\ ~Locks(r) /\ Holds(call[c]) /\ r.step = "drop"
      /\ r.lock = call[c].lock /\ r.guard = call[c].guard /\ Locks(call[c])
  BY <1>0, <1>1
     DEF LockTypeOK, CallType, Rec, Idle, Steps, Purposes, WellFormed, Holds, Locks,
             Reclaiming, Releasing
<1> HIDE DEF r
<1>4. LockTypeOK'
  BY <1>0, <1>1, <1>2, <1>3 DEF LockTypeOK, CallType
<1>5. UsesInv'
  BY <1>0, <1>1, <1>2, <1>3, UsesKept
<1>6. ASSUME Exclusive PROVE Exclusive'
  <2>1. \A d \in Callers : Locks(call[d]) => d = c
    BY <1>0, <1>3, <1>6, OneHolds DEF Exclusive
  <2>2. call'[c] = r /\ \A d \in Callers : d # c => call'[d] = call[d]
    BY <1>0, <1>1, Replaced
  <2>3. LockHeld'
    BY <1>3, <2>1, <2>2 DEF LockHeld, Locks
  <2>4. StateIsCurrent'
    BY <1>0, <1>1, <1>2, <1>3, <1>6, CurrentKept DEF Exclusive
  <2>5. GhostSeen'
    BY <1>0, <1>1, <1>2, <1>3, <1>6, GhostKept DEF Exclusive, Looking
  <2>6. GuardIntact => GuardIntact'
    BY <1>0, <1>1, <1>2, <1>3, GuardKept
  <2>7. LockIntact => LockIntact'
    BY <1>0, <1>1, <1>2, <1>3, LockKept
  <2>q. QED
    BY <1>2, <1>6, <2>3, <2>4, <2>5, <2>6, <2>7 DEF Exclusive
<1>q. QED
  BY <1>2, <1>4, <1>5, <1>6 DEF IInv, FileInv, MutexInv

-----------------------------------------------------------------------------
(* Time passes, and processes end                                          *)

LEMMA AgeKeeps ==
  ASSUME IInv, NEW f \in Files, Age(f)
  PROVE  IInv'
<1>0. LockTypeOK /\ FileInv
  BY DEF IInv, FileInv
<1>1. /\ UNCHANGED <<call, seen, lock, guard, owner, current, faults>>
      /\ old' = old \cup {f} /\ f \in {lock, guard} /\ f # None
      /\ abandoned' = (IF Unsigned(f) THEN abandoned + 1 ELSE abandoned)
      /\ abandoned' <= MaxAbandoned
  BY DEF Age
<1>2. abandoned' \in 0..MaxAbandoned /\ abandoned <= abandoned'
  BY <1>0, <1>1, BoundsAssumption DEF LockTypeOK
<1>3. LockTypeOK'
  BY <1>0, <1>1, <1>2 DEF LockTypeOK
<1>4. UsesInv'
  BY <1>0, <1>1 DEF FileInv, UsesInv, Shape, Distinct, Signed, NoForgottenLock
<1>5. ASSUME Exclusive, abandoned' <= 1 PROVE Exclusive'
  <2>1. LockHeld' /\ StateIsCurrent' /\ GhostSeen'
    BY <1>1, <1>5 DEF Exclusive, LockHeld, StateIsCurrent, GhostSeen
  <2>2. ASSUME GuardIntact, guard # f \/ ~Unsigned(f) PROVE GuardIntact'
    BY <1>1, <2>2 DEF GuardIntact, Unsigned
  <2>3. ASSUME LockIntact, lock # f \/ ~Unsigned(f) PROVE LockIntact'
    BY <1>1, <2>3 DEF LockIntact, Unsigned
  <2>4. lock # f \/ guard # f
    BY <1>0, <1>1 DEF FileInv, UsesInv, Distinct
  <2>5. Unsigned(f) => abandoned = 0 /\ abandoned' # 0
    BY <1>0, <1>1, <1>5 DEF LockTypeOK
  <2>q. QED
    BY <1>1, <1>5, <2>1, <2>2, <2>3, <2>4, <2>5 DEF Exclusive
<1>6. MutexInv'
  BY <1>0, <1>2, <1>5 DEF IInv, MutexInv, LockTypeOK
<1>q. QED
  BY <1>3, <1>4, <1>6 DEF IInv, FileInv

(* How many files a crash leaves behind.                                   *)
LEMMA Leftovers ==
  ASSUME NEW x, NEW y, NEW S \in SUBSET {x, y}
  PROVE  /\ Cardinality(S) \in Nat
         /\ Cardinality(S) = 0 => S = {}
         /\ Cardinality(S) <= 1 /\ x \in S /\ y \in S => x = y
<1>1. IsFiniteSet({x, y})
  <2>1. IsFiniteSet({x}) /\ {x, y} = {x} \cup {y}
    BY FS_Singleton
  <2>q. QED
    BY <2>1, FS_AddElement
<1>2. IsFiniteSet(S)
  BY <1>1, FS_Subset
<1>3. Cardinality(S) \in Nat /\ (Cardinality(S) = 0 => S = {})
  BY <1>2, FS_CardinalityType, FS_EmptySet
<1>4. ASSUME Cardinality(S) <= 1, x \in S, y \in S PROVE x = y
  <2>1. Cardinality(S) = 1
    BY <1>3, <1>4
  <2>2. PICK z : S = {z}
    BY <1>2, <2>1, FS_Singleton
  <2>q. QED
    BY <1>4, <2>2
<1>q. QED
  BY <1>3, <1>4

LEMMA CrashKeeps ==
  ASSUME IInv, NEW i \in Instances, Crash(i)
  PROVE  IInv'
<1> DEFINE left == {f \in {lock, guard} \ {None} :
                      owner[f] \in i \/ \E c \in i : f \in {call[c].guard, call[c].lock}}
           n == Cardinality(left)
<1>0. LockTypeOK /\ FileInv
  BY DEF IInv, FileInv
<1>i. i \subseteq Callers
  BY InstancesAssumption
<1>1. /\ call' = [c \in Callers |-> IF c \in i THEN Idle ELSE call[c]]
      /\ seen' = [c \in Callers |-> IF c \in i THEN None ELSE seen[c]]
      /\ owner' = [f \in Files |-> IF owner[f] \in i THEN None ELSE owner[f]]
      /\ current' = current \ i
      /\ abandoned' = abandoned + n /\ abandoned' <= MaxAbandoned
      /\ UNCHANGED <<lock, guard, old, faults>>
  BY DEF Crash
<1>2. /\ n \in Nat /\ (n = 0 => left = {})
      /\ n <= 1 /\ lock \in left /\ guard \in left => lock = guard
  <2>1. left \in SUBSET {lock, guard}
    OBVIOUS
  <2> HIDE DEF left
  <2>q. QED
    BY <2>1, Leftovers
<1> HIDE DEF n
<1>3. abandoned' \in 0..MaxAbandoned
  BY <1>0, <1>1, <1>2, BoundsAssumption DEF LockTypeOK
<1>4. LockTypeOK'
  BY <1>0, <1>1, <1>3 DEF LockTypeOK, Idle, Steps, Purposes
<1>5. /\ Idle.lock = None /\ Idle.guard = None /\ Idle.step = "idle"
      /\ WellFormed(Idle) /\ ~Locks(Idle) /\ ~Holds(Idle)
  BY DEF Idle, WellFormed, Locks, Holds, Reclaiming, Releasing
<1>6. UsesInv'
  <2>1. Shape'
    BY <1>0, <1>1, <1>5 DEF FileInv, UsesInv, Shape, WellFormed, Holds, Locks
  <2>2. Distinct'
    BY <1>0, <1>1, <1>5 DEF FileInv, UsesInv, Distinct
  <2>3. Signed'
    <3>1. ASSUME NEW c \in Callers
          PROVE  /\ Locks(call'[c]) /\ call'[c].step # "write" => owner'[call'[c].lock] = c
                 /\ call'[c].lock # None /\ ~Locks(call'[c]) => lock' # call'[c].lock
      <4>1. CASE c \in i
        BY <1>1, <1>5, <4>1
      <4>2. CASE c \notin i
        <5>1. call'[c] = call[c] /\ WellFormed(call[c])
          BY <1>0, <1>1, <4>2 DEF FileInv, UsesInv, Shape
        <5>2. Locks(call[c]) => call[c].lock \in Files
          BY <1>0, <5>1 DEF WellFormed, LockTypeOK
        <5>q. QED
          BY <1>0, <1>1, <4>2, <5>1, <5>2 DEF FileInv, UsesInv, Signed
      <4>q. QED
        BY <4>1, <4>2
    <3>q. QED
      BY <3>1 DEF Signed, Locks
  <2>4. NoForgottenLock'
    BY <1>0, <1>1 DEF FileInv, UsesInv, NoForgottenLock, LockTypeOK
  <2>q. QED
    BY <2>1, <2>2, <2>3, <2>4 DEF UsesInv
<1>7. ASSUME Exclusive, abandoned' <= 1 PROVE Exclusive'
  <2>1. LockHeld' /\ StateIsCurrent'
    BY <1>1, <1>5, <1>7 DEF Exclusive, LockHeld, StateIsCurrent, Locks
  <2>2. GhostSeen'
    <3>1. ASSUME NEW c \in Callers, NEW d \in Callers, call'[c].step \in Looking, seen'[c] # None
          PROVE  call'[d].lock # seen'[c]
      BY <1>1, <1>5, <1>7, <3>1 DEF Exclusive, GhostSeen, Looking
    <3>2. ASSUME NEW c \in Callers, NEW d \in Callers, call'[c].step = "unlinkStale", Locks(call'[d])
          PROVE  call'[d].lock # lock'
      BY <1>1, <1>5, <1>7, <3>2 DEF Exclusive, GhostSeen
    <3>q. QED
      BY <3>1, <3>2 DEF GhostSeen, Locks
  <2>3. ASSUME GuardIntact, guard \notin left PROVE GuardIntact'
    <3>1. \A c \in Callers : Holds(call'[c]) => guard' = call'[c].guard
      BY <1>1, <1>5, <2>3 DEF GuardIntact
    <3>2. \A c \in Callers : call'[c].step \notin {"recheck", "unlinkGuard"}
      BY <1>1, <1>5, <2>3 DEF GuardIntact
    <3>3. ASSUME guard' # None, owner'[guard'] = None
          PROVE  /\ guard' \notin old'
                 /\ \E c \in Callers : call'[c].step = "sign" /\ call'[c].guard = guard'
      <4>1. owner[guard] = None
        BY <1>0, <1>1, <2>3, <3>3 DEF LockTypeOK
      <4>2. PICK c \in Callers : call[c].step = "sign" /\ call[c].guard = guard
        BY <1>1, <2>3, <3>3, <4>1 DEF GuardIntact
      <4>3. c \notin i
        BY <1>1, <2>3, <3>3, <4>2
      <4>q. QED
        BY <1>1, <2>3, <3>3, <4>1, <4>2, <4>3 DEF GuardIntact
    <3>q. QED
      BY <3>1, <3>2, <3>3 DEF GuardIntact, Holds
  <2>4. ASSUME LockIntact, lock \notin left PROVE LockIntact'
    <3>1. \A c \in Callers : call'[c].step \notin {"link", "confirm", "match", "unlinkStale"}
      BY <1>1, <1>5, <2>4 DEF LockIntact
    <3>2. ASSUME lock' # None, owner'[lock'] = None
          PROVE  /\ lock' \notin old'
                 /\ \E c \in Callers : call'[c].step = "write" /\ call'[c].lock = lock'
      <4>1. owner[lock] = None
        BY <1>0, <1>1, <2>4, <3>2 DEF LockTypeOK
      <4>2. PICK c \in Callers : call[c].step = "write" /\ call[c].lock = lock
        BY <1>1, <2>4, <3>2, <4>1 DEF LockIntact
      <4>3. c \notin i
        BY <1>1, <2>4, <3>2, <4>2
      <4>q. QED
        BY <1>1, <2>4, <3>2, <4>1, <4>2, <4>3 DEF LockIntact
    <3>q. QED
      BY <3>1, <3>2 DEF LockIntact
  <2>5. lock \in left /\ guard \in left /\ n <= 1 => FALSE
    BY <1>0, <1>2 DEF FileInv, UsesInv, Distinct
  <2>6. n <= 1 /\ abandoned \in Nat /\ (n # 0 => abandoned = 0 /\ abandoned' # 0)
    BY <1>0, <1>1, <1>2, <1>7 DEF LockTypeOK
  <2>7. abandoned' = 0 => n = 0 /\ abandoned = 0
    BY <1>1, <1>2, <2>6
  <2>q. QED
    BY <1>2, <1>7, <2>1, <2>2, <2>3, <2>4, <2>5, <2>6, <2>7 DEF Exclusive
<1>8. MutexInv'
  BY <1>0, <1>1, <1>2, <1>7 DEF IInv, MutexInv, LockTypeOK
<1>q. QED
  BY <1>4, <1>6, <1>8 DEF IInv, FileInv

-----------------------------------------------------------------------------
(* The invariant holds of every state.                                     *)

LEMMA InitHolds ==
  ASSUME LockInit
  PROVE  IInv
<1>1. LockTypeOK
  BY BoundsAssumption DEF LockInit, LockTypeOK, Idle, Steps, Purposes
<1>2. \A c \in Callers : call[c] = Idle
  BY DEF LockInit
<1>3. UsesInv
  <2>1. Shape /\ Distinct /\ Signed
    BY <1>2 DEF LockInit, Shape, Distinct, Signed, WellFormed, Holds, Locks, Idle,
                Reclaiming, Releasing
  <2>2. NoForgottenLock
    BY DEF LockInit, NoForgottenLock
  <2>q. QED
    BY <2>1, <2>2 DEF UsesInv
<1>4. Exclusive
  BY <1>2 DEF LockInit, Exclusive, LockHeld, GhostSeen, StateIsCurrent, GuardIntact, LockIntact,
              Idle, Holds, Locks, Looking
<1>q. QED
  BY <1>1, <1>3, <1>4 DEF IInv, FileInv, MutexInv

LEMMA StepHolds ==
  ASSUME IInv, [LockNext]_lockVars
  PROVE  IInv'
<1>1. CASE UNCHANGED lockVars
  BY <1>1 DEF lockVars, IInv, FileInv, LockTypeOK, UsesInv, Shape, Distinct, Signed,
              NoForgottenLock, MutexInv, Exclusive, LockHeld, GhostSeen, StateIsCurrent,
              GuardIntact, LockIntact, Holds, Locks, WellFormed
<1>2. ASSUME NEW c \in Callers,
             \/ Begin(c) \/ GiveUp(c)
             \/ CreateGuard(c) \/ SignGuard(c) \/ FailToSign(c)
             \/ InspectGuard(c) \/ GuardIsBusy(c) \/ RecheckGuard(c) \/ UnlinkStaleGuard(c)
             \/ CheckGuard(c) \/ DropGuard(c) \/ UnlinkOwnGuard(c)
      PROVE  IInv'
  BY <1>2, BeginKeeps, GiveUpKeeps, CreateGuardKeeps, SignGuardKeeps, FailToSignKeeps,
     InspectGuardKeeps, GuardIsBusyKeeps, RecheckGuardKeeps, UnlinkStaleGuardKeeps,
     CheckGuardKeeps, DropGuardKeeps, UnlinkOwnGuardKeeps
<1>3. ASSUME NEW c \in Callers,
             \/ CreateLock(c) \/ LockExists(c) \/ WriteLock(c) \/ FailToWriteLock(c)
             \/ InspectLock(c) \/ LinkLock(c) \/ ConfirmGuard(c) \/ MatchLock(c)
             \/ UnlinkStaleLock(c)
             \/ ReadState(c) \/ Return(c) \/ CheckLock(c) \/ ReplaceState(c)
             \/ ReadLock(c) \/ CheckGuardAgain(c) \/ UnlinkLock(c)
             \/ Heartbeat(c)
      PROVE  IInv'
  BY <1>3, CreateLockKeeps, LockExistsKeeps, WriteLockKeeps, FailToWriteLockKeeps,
     InspectLockKeeps, LinkLockKeeps, ConfirmGuardKeeps, MatchLockKeeps, UnlinkStaleLockKeeps,
     ReadStateKeeps, ReturnKeeps, CheckLockKeeps, ReplaceStateKeeps, ReadLockKeeps,
     CheckGuardAgainKeeps, UnlinkLockKeeps, HeartbeatKeeps
<1>4. ASSUME NEW f \in Files, Age(f) PROVE IInv'
  BY <1>4, AgeKeeps
<1>5. ASSUME NEW i \in Instances, Crash(i) PROVE IInv'
  BY <1>5, CrashKeeps
<1>q. QED
  BY <1>1, <1>2, <1>3, <1>4, <1>5 DEF LockNext

(* The inductive invariant holds of every state the lock can reach.        *)
THEOREM Invariance == LockSpec => []IInv
<1>1. LockInit => IInv
  BY InitHolds
<1>2. IInv /\ [LockNext]_lockVars => IInv'
  BY StepHolds
<1>q. QED
  BY <1>1, <1>2, PTL DEF LockSpec

(* Every variable of the lock's model has its type.                        *)
THEOREM LockTyped == LockSpec => []LockTypeOK
<1>1. IInv => LockTypeOK
  BY DEF IInv, FileInv
<1>q. QED
  BY <1>1, Invariance, PTL

(* While a process runs, a lock file that names it belongs to one of its   *)
(* calls, which has yet to remove it: withLock never leaves a lock of its  *)
(* own behind that nobody may reclaim, however many files were abandoned.  *)
THEOREM LockIsRemembered == LockSpec => []NoForgottenLock
<1>1. IInv => NoForgottenLock
  BY DEF IInv, FileInv, UsesInv
<1>q. QED
  BY <1>1, Invariance, PTL

LEMMA OneOwnerFollows ==
  ASSUME IInv, abandoned <= 1
  PROVE  OneOwner
<1>1. FileInv /\ LockHeld
  BY DEF IInv, MutexInv, Exclusive
<1>q. QED
  BY <1>1, OneHolds, OperatingLocks DEF OneOwner

(* Two operations of the store never run at the same time, as long as at   *)
(* most one lock or guard file has been left behind for others to reclaim. *)
THEOREM OperationsExclude == LockSpec => [](abandoned <= 1 => OneOwner)
<1>1. IInv => (abandoned <= 1 => OneOwner)
  BY OneOwnerFollows
<1>q. QED
  BY <1>1, Invariance, PTL

(* The same, where no more than one file is ever left behind.              *)
COROLLARY OperationsExcludeBounded ==
  ASSUME MaxAbandoned <= 1
  PROVE  LockSpec => []OneOwner
<1>1. IInv => OneOwner
  BY BoundsAssumption, OneOwnerFollows DEF IInv, FileInv, LockTypeOK
<1>q. QED
  BY <1>1, Invariance, PTL

(* A call that replaces the state file replaces the state it has read, as  *)
(* long as at most one file has been left behind: no other call's change   *)
(* comes between the read and the rename, and none is lost.                *)
THEOREM NothingIsOverwritten ==
  LockSpec =>
    [][abandoned <= 1 =>
         \A c \in Callers :
           call[c].step = "rename" /\ call'[c].step = "guard" => c \in current]_lockVars
<1>1. IInv => (abandoned <= 1 => \A c \in Callers : call[c].step = "rename" => c \in current)
  BY DEF IInv, MutexInv, Exclusive, StateIsCurrent
<1>2. IInv /\ [LockNext]_lockVars =>
        [abandoned <= 1 =>
           \A c \in Callers :
             call[c].step = "rename" /\ call'[c].step = "guard" => c \in current]_lockVars
  BY <1>1
<1>q. QED
  BY <1>2, Invariance, PTL DEF LockSpec

(* The same, where no more than one file is ever left behind.              *)
COROLLARY NothingIsOverwrittenBounded ==
  ASSUME MaxAbandoned <= 1
  PROVE  LockSpec => NoLostUpdate
<1>1. IInv => \A c \in Callers : call[c].step = "rename" => c \in current
  BY BoundsAssumption DEF IInv, FileInv, LockTypeOK, MutexInv, Exclusive, StateIsCurrent
<1>2. IInv /\ [LockNext]_lockVars =>
        [\A c \in Callers :
           call[c].step = "rename" /\ call'[c].step = "guard" => c \in current]_lockVars
  BY <1>1
<1>q. QED
  BY <1>2, Invariance, PTL DEF LockSpec, NoLostUpdate

=============================================================================
