---------------------------- MODULE AgentAccess ----------------------------
(***************************************************************************)
(* Who may start a run of the agent when the agent calls a model that is   *)
(* paid for (access.ts).  A request names an invocation key; a key is used *)
(* once while it is remembered, and an actor has a fixed window of         *)
(* admissions.  There is one actor, the seeded founder, so the map of      *)
(* windows holds at most one.                                              *)
(***************************************************************************)
EXTENDS Integers, FiniteSets

CONSTANTS
  Runners,          \* requests that ask for a run
  InvocationKeys,
  RateLimit,        \* LIVE_RATE_LIMIT
  RateWindow,       \* LIVE_RATE_WINDOW_MS
  KeyTtl,           \* INVOCATION_KEY_TTL_MS
  None

(* How many were admitted, and since when.                                 *)
Window == [count : Nat, startedAt : Nat]

ASSUME NoneAssumption == None \notin InvocationKeys \cup Window
ASSUME RateAssumption ==
  RateLimit \in Nat /\ RateWindow \in Nat \ {0} /\ KeyTtl \in Nat

VARIABLES
  clock,                   \* Date.now()
  invocationWindow,        \* the window of the actor, or None
  consumedInvocationKeys,  \* the remembered keys, with their expiry
  admissions               \* history: who was admitted, with which key, when,
                           \* and the start of the window that counted it

accessVars == <<invocationWindow, consumedInvocationKeys, admissions>>

AccessInit ==
  /\ clock = 0
  /\ invocationWindow = None
  /\ consumedInvocationKeys = <<>>
  /\ admissions = {}

(* What is left when a request has discarded what has expired.             *)
Remembered == {k \in DOMAIN consumedInvocationKeys : consumedInvocationKeys[k] > clock}

(* Faulty variant: a window ends one unit early.                           *)
WindowIsOverEarly(w) == clock - w.startedAt >= RateWindow - 1

WindowIsOver(w) == clock - w.startedAt >= RateWindow

OpenWindow ==
  IF invocationWindow = None THEN None
  ELSE IF WindowIsOver(invocationWindow) THEN None ELSE invocationWindow

CurrentWindow ==
  IF OpenWindow = None THEN [count |-> 0, startedAt |-> clock] ELSE OpenWindow

MayInvoke(key) ==
  /\ key \in InvocationKeys \ Remembered
  /\ CurrentWindow.count < RateLimit

Invoke(r, key) ==
  /\ MayInvoke(key)
  /\ invocationWindow' = [CurrentWindow EXCEPT !.count = @ + 1]
  /\ consumedInvocationKeys' =
       [k \in Remembered \cup {key} |->
          IF k = key THEN clock + KeyTtl ELSE consumedInvocationKeys[k]]
  /\ admissions' = admissions \cup
       {[runner |-> r, key |-> key, at |-> clock, window |-> CurrentWindow.startedAt]}

(* A request without a well-formed key names None.                         *)
RefuseInvocation(key) ==
  /\ ~MayInvoke(key)
  /\ invocationWindow' = OpenWindow
  /\ consumedInvocationKeys' = [k \in Remembered |-> consumedInvocationKeys[k]]
  /\ UNCHANGED admissions

-----------------------------------------------------------------------------
AccessTypeOK ==
  /\ clock \in Nat
  /\ invocationWindow \in Window \cup {None}
  /\ DOMAIN consumedInvocationKeys \subseteq InvocationKeys
  /\ \A k \in DOMAIN consumedInvocationKeys : consumedInvocationKeys[k] \in Nat
  /\ admissions \subseteq
       [runner : Runners, key : InvocationKeys, at : Nat, window : Nat]

(* No two requests are admitted with one key until the key is forgotten.   *)
(* access.ts:82 refuses a replay; what it looks up is discarded by every   *)
(* other request that comes by.                                            *)
KeyAdmittedOnce ==
  \A a, b \in admissions :
    a # b /\ a.key = b.key => a.at - b.at >= KeyTtl \/ b.at - a.at >= KeyTtl

(* Windows are fixed, so around the end of one more than RateLimit         *)
(* requests may pass, but in no period as long as a window as many as      *)
(* twice the limit: the admission that opened the first window is out of   *)
(* it by the time the second opens.                                        *)
RateIsBounded ==
  \A first \in admissions :
    Cardinality({a \in admissions : first.at <= a.at /\ a.at < first.at + RateWindow})
      < 2 * RateLimit

(* The two limits on the requests that reach the agent's API.              *)
AdmissionsAreBounded == KeyAdmittedOnce /\ RateIsBounded
=============================================================================
