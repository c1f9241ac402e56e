----------------------- MODULE VerificationRunsProofs -----------------------
(***************************************************************************)
(* Proofs about the runs of the verification agent, for any number of      *)
(* requests, corrections and handoffs in progress, and any limits.         *)
(***************************************************************************)
EXTENDS VerificationRuns, FiniteSetTheorems, TLAPS

-----------------------------------------------------------------------------
(* Admissions                                                              *)

InWindow(s) == {b \in admissions : b.window = s}

(* A key is remembered for as long as its admission counts.                *)
KeysRemembered ==
  \A a \in admissions :
    /\ a.at <= clock
    /\ a.at + KeyTtl > clock =>
         a.key \in DOMAIN consumedInvocationKeys
           /\ consumedInvocationKeys[a.key] >= a.at + KeyTtl

(* The windows so far: each begins with an admission, admits no more than  *)
(* the limit, and is over when the next begins.                            *)
Apart(s, t) == s + RateWindow <= t \/ t + RateWindow <= s

WindowsApart ==
  \A a \in admissions :
    /\ a.window <= a.at /\ a.at < a.window + RateWindow
    /\ \E o \in admissions : o.window = a.window /\ o.at = a.window
    /\ \A b \in admissions : b.window = a.window \/ Apart(a.window, b.window)
    /\ Cardinality(InWindow(a.window)) <= RateLimit

(* The window that is open counts every admission in it.                   *)
WindowCounts ==
  IF invocationWindow = None
  THEN \A a \in admissions : a.window + RateWindow <= clock
  ELSE LET s == invocationWindow.startedAt
       IN  /\ s <= clock
           /\ Cardinality(InWindow(s)) <= invocationWindow.count
           /\ \E o \in admissions : o.window = s /\ o.at = s
           /\ \A a \in admissions : a.window = s \/ a.window + RateWindow <= s

AccessInv ==
  /\ AccessTypeOK
  /\ IsFiniteSet(admissions)
  /\ KeysRemembered
  /\ WindowsApart
  /\ WindowCounts
  /\ KeyAdmittedOnce

LEMMA AccessInitInv == ASSUME AccessInit PROVE AccessInv
  <1>1. IsFiniteSet(admissions)
    BY FS_EmptySet DEF AccessInit
  <1>2. AccessTypeOK
    BY DEF AccessInit, AccessTypeOK
  <1>3. KeysRemembered /\ WindowsApart /\ WindowCounts /\ KeyAdmittedOnce
    BY DEF AccessInit, KeysRemembered, WindowsApart, WindowCounts, KeyAdmittedOnce
  <1>4. QED
    BY <1>1, <1>2, <1>3 DEF AccessInv

(* Time passes.                                                            *)
LEMMA AccessTick ==
  ASSUME AccessInv, UNCHANGED accessVars, clock' \in {clock, clock + 1}
  PROVE  AccessInv'
  <1>1. /\ invocationWindow' = invocationWindow
        /\ consumedInvocationKeys' = consumedInvocationKeys
        /\ admissions' = admissions
        /\ clock \in Nat /\ clock' \in Nat /\ clock <= clock'
    BY DEF accessVars, AccessInv, AccessTypeOK
  <1>2. AccessTypeOK' /\ IsFiniteSet(admissions)'
    BY <1>1 DEF AccessInv, AccessTypeOK
  <1>3. \A a \in admissions : a.at \in Nat /\ a.window \in Nat
    BY DEF AccessInv, AccessTypeOK
  <1>4. KeysRemembered'
    <2>1. \A a \in admissions :
            /\ a.at <= clock'
            /\ a.at + KeyTtl > clock' => a.at + KeyTtl > clock
      BY <1>1, <1>3, RateAssumption DEF AccessInv, KeysRemembered
    <2>2. QED
      BY <1>1, <2>1 DEF AccessInv, KeysRemembered
  <1>5. WindowsApart' /\ KeyAdmittedOnce'
    BY <1>1 DEF AccessInv, WindowsApart, InWindow, KeyAdmittedOnce
  <1>6. WindowCounts'
    <2>1. CASE invocationWindow = None
      <3>1. \A a \in admissions : a.window + RateWindow <= clock'
        BY <2>1, <1>1, <1>3, RateAssumption DEF AccessInv, WindowCounts
      <3>2. QED
        BY <2>1, <3>1, <1>1 DEF WindowCounts
    <2>2. CASE invocationWindow # None
      <3>1. invocationWindow.startedAt \in Nat
        BY <2>2 DEF AccessInv, AccessTypeOK, Window
      <3>2. invocationWindow.startedAt <= clock'
        BY <2>2, <3>1, <1>1 DEF AccessInv, WindowCounts
      <3>3. QED
        BY <2>2, <3>2, <1>1 DEF AccessInv, WindowCounts, InWindow
    <2>3. QED
      BY <2>1, <2>2
  <1>7. QED
    BY <1>2, <1>4, <1>5, <1>6 DEF AccessInv

(* What is discarded is over.                                              *)
LEMMA OpenWindowFacts ==
  ASSUME AccessInv
  PROVE  IF OpenWindow = None
         THEN \A a \in admissions : a.window + RateWindow <= clock
         ELSE /\ OpenWindow = invocationWindow /\ invocationWindow # None
              /\ clock - invocationWindow.startedAt < RateWindow
  <1>1. CASE invocationWindow = None
    BY <1>1 DEF OpenWindow, AccessInv, WindowCounts
  <1>2. CASE invocationWindow # None
    <2> DEFINE s == invocationWindow.startedAt
    <2>1. s \in Nat /\ clock \in Nat /\ RateWindow \in Nat
          /\ \A a \in admissions : a.window \in Nat
      BY <1>2, RateAssumption DEF AccessInv, AccessTypeOK, Window
    <2>2. \A a \in admissions : a.window = s \/ a.window + RateWindow <= s
      BY <1>2 DEF AccessInv, WindowCounts
    <2>3. s <= clock
      BY <1>2 DEF AccessInv, WindowCounts
    <2> HIDE DEF s
    <2>4. CASE WindowIsOver(invocationWindow)
      <3>1. clock - s >= RateWindow
        BY <2>4 DEF WindowIsOver, s
      <3>2. \A a \in admissions : a.window + RateWindow <= clock
        BY <3>1, <2>1, <2>2, <2>3
      <3>3. OpenWindow = None
        BY <1>2, <2>4 DEF OpenWindow
      <3>4. QED
        BY <3>2, <3>3
    <2>5. CASE ~WindowIsOver(invocationWindow)
      <3>1. OpenWindow = invocationWindow
        BY <1>2, <2>5 DEF OpenWindow
      <3>2. ~(clock - s >= RateWindow)
        BY <2>5 DEF WindowIsOver, s
      <3>3. clock - s < RateWindow
        BY <3>2, <2>1
      <3>4. QED
        BY <1>2, <3>1, <3>3 DEF s
    <2>6. QED
      BY <2>4, <2>5
  <1>3. QED
    BY <1>1, <1>2

LEMMA RememberedKeys ==
  ASSUME AccessInv, NEW a \in admissions, a.at + KeyTtl > clock
  PROVE  a.key \in Remembered /\ consumedInvocationKeys[a.key] >= a.at + KeyTtl
  <1>1. /\ a.key \in DOMAIN consumedInvocationKeys
        /\ consumedInvocationKeys[a.key] >= a.at + KeyTtl
    BY DEF AccessInv, KeysRemembered
  <1>2. /\ consumedInvocationKeys[a.key] \in Nat /\ a.at \in Nat /\ clock \in Nat
        /\ KeyTtl \in Nat
    BY <1>1, RateAssumption DEF AccessInv, AccessTypeOK
  <1> DEFINE e == consumedInvocationKeys[a.key]
  <1> HIDE DEF e
  <1>3. e > clock
    BY <1>1, <1>2 DEF e
  <1>4. QED
    BY <1>1, <1>3 DEF Remembered, e

LEMMA AccessRefuse ==
  ASSUME AccessInv, NEW key, RefuseInvocation(key), clock' = clock
  PROVE  AccessInv'
  <1>1. /\ invocationWindow' = OpenWindow
        /\ consumedInvocationKeys' = [k \in Remembered |-> consumedInvocationKeys[k]]
        /\ admissions' = admissions
    BY DEF RefuseInvocation
  <1>2. Remembered \subseteq DOMAIN consumedInvocationKeys
    BY DEF Remembered
  <1>3. OpenWindow \in Window \cup {None}
    BY DEF AccessInv, AccessTypeOK, OpenWindow
  <1>4. AccessTypeOK' /\ IsFiniteSet(admissions)'
    BY <1>1, <1>2, <1>3 DEF AccessInv, AccessTypeOK
  <1>5. KeysRemembered'
    <2>1. \A a \in admissions : a.at <= clock
      BY DEF AccessInv, KeysRemembered
    <2>2. \A a \in admissions : a.at + KeyTtl > clock =>
            a.key \in Remembered /\ consumedInvocationKeys[a.key] >= a.at + KeyTtl
      BY RememberedKeys
    <2>3. QED
      BY <1>1, <2>1, <2>2 DEF KeysRemembered
  <1>6. WindowsApart' /\ KeyAdmittedOnce'
    BY <1>1 DEF AccessInv, WindowsApart, InWindow, KeyAdmittedOnce
  <1>7. WindowCounts'
    <2>1. CASE OpenWindow = None
      BY <2>1, <1>1, OpenWindowFacts DEF WindowCounts
    <2>2. CASE OpenWindow # None
      <3>1. invocationWindow' = invocationWindow /\ invocationWindow # None
        BY <2>2, <1>1, OpenWindowFacts
      <3>2. QED
        BY <3>1, <1>1 DEF AccessInv, WindowCounts, InWindow
    <2>3. QED
      BY <2>1, <2>2
  <1>8. QED
    BY <1>4, <1>5, <1>6, <1>7 DEF AccessInv

(* The window that an admission counts in.                                 *)
LEMMA CurrentWindowFacts ==
  ASSUME AccessInv
  PROVE  LET s == CurrentWindow.startedAt
         IN  /\ CurrentWindow \in Window
             /\ s \in Nat /\ s <= clock /\ clock < s + RateWindow
             /\ \A a \in admissions : a.window = s \/ a.window + RateWindow <= s
             /\ IsFiniteSet(InWindow(s))
             /\ Cardinality(InWindow(s)) <= CurrentWindow.count
             /\ s = clock \/ \E o \in admissions : o.window = s /\ o.at = s
  <1> DEFINE s == CurrentWindow.startedAt
  <1>1. /\ clock \in Nat /\ RateWindow \in Nat \ {0}
        /\ \A a \in admissions : a.window \in Nat /\ a.at \in Nat
    BY RateAssumption DEF AccessInv, AccessTypeOK
  <1>2. IsFiniteSet(InWindow(s))
    <2>1. InWindow(s) \in SUBSET admissions
      BY DEF InWindow
    <2> HIDE DEF s
    <2>2. QED
      BY <2>1, FS_Subset DEF AccessInv
  <1>3. CASE OpenWindow = None
    <2>1. CurrentWindow = [count |-> 0, startedAt |-> clock]
      BY <1>3 DEF CurrentWindow
    <2>2. \A a \in admissions : a.window + RateWindow <= clock
      BY <1>3, OpenWindowFacts
    <2>3. InWindow(clock) = {}
      BY <1>1, <2>2 DEF InWindow
    <2>4. Cardinality(InWindow(clock)) = 0
      BY <2>3, FS_EmptySet
    <2>5. QED
      BY <1>1, <1>2, <2>1, <2>2, <2>4 DEF Window
  <1>4. CASE OpenWindow # None
    <2>1. /\ CurrentWindow = invocationWindow /\ invocationWindow # None
          /\ clock - invocationWindow.startedAt < RateWindow
      BY <1>4, OpenWindowFacts DEF CurrentWindow
    <2>2. CurrentWindow \in Window
      BY <2>1 DEF AccessInv, AccessTypeOK
    <2>3. /\ s <= clock
          /\ Cardinality(InWindow(s)) <= CurrentWindow.count
          /\ \E o \in admissions : o.window = s /\ o.at = s
          /\ \A a \in admissions : a.window = s \/ a.window + RateWindow <= s
      BY <2>1 DEF AccessInv, WindowCounts
    <2>4. s \in Nat
      BY <2>2 DEF Window
    <2>5. clock - s < RateWindow
      BY <2>1
    <2> HIDE DEF s
    <2>6. clock < s + RateWindow
      BY <1>1, <2>4, <2>5
    <2>7. QED
      BY <1>2, <2>2, <2>3, <2>4, <2>6 DEF s
  <1>5. QED
    BY <1>3, <1>4

LEMMA AccessInvoke ==
  ASSUME AccessInv, NEW r \in Runners, NEW key \in InvocationKeys,
         Invoke(r, key), clock' = clock
  PROVE  AccessInv'
  <1> DEFINE w == [count |-> CurrentWindow.count + 1,
                   startedAt |-> CurrentWindow.startedAt]
  <1>0. PICK s, c, n :
          /\ s = CurrentWindow.startedAt
          /\ c = CurrentWindow.count
          /\ n = [runner |-> r, key |-> key, at |-> clock, window |-> s]
    OBVIOUS
  <1>1. /\ key \notin Remembered
        /\ c < RateLimit
        /\ admissions' = admissions \cup {n}
        /\ invocationWindow' = [CurrentWindow EXCEPT !.count = @ + 1]
        /\ consumedInvocationKeys' =
             [k \in Remembered \cup {key} |->
                IF k = key THEN clock + KeyTtl ELSE consumedInvocationKeys[k]]
    BY <1>0 DEF Invoke, MayInvoke
  <1>2. /\ clock \in Nat /\ RateWindow \in Nat \ {0} /\ KeyTtl \in Nat /\ RateLimit \in Nat
        /\ \A a \in admissions :
             /\ a.window \in Nat /\ a.at \in Nat /\ a.key \in InvocationKeys
             /\ a.at <= clock
    BY RateAssumption DEF AccessInv, AccessTypeOK, KeysRemembered
  <1>3. /\ CurrentWindow \in Window /\ c \in Nat
        /\ s \in Nat /\ s <= clock /\ clock < s + RateWindow
        /\ \A a \in admissions : a.window = s \/ a.window + RateWindow <= s
        /\ IsFiniteSet(InWindow(s))
        /\ Cardinality(InWindow(s)) <= c
        /\ s = clock \/ \E o \in admissions : o.window = s /\ o.at = s
    BY <1>0, CurrentWindowFacts DEF Window
  <1>4. invocationWindow' = w
    BY <1>0, <1>1, <1>3 DEF Window
  <1>5. w \in Window /\ w # None /\ w.startedAt = s /\ w.count = c + 1
    <2>1. w \in Window
      BY <1>0, <1>3 DEF Window
    <2>2. QED
      BY <1>0, <2>1, NoneAssumption
  <1>6. n.key = key /\ n.at = clock /\ n.window = s
        /\ n \in [runner : Runners, key : InvocationKeys, at : Nat, window : Nat]
    BY <1>0, <1>2, <1>3
  <1> HIDE DEF w
  <1>7. IsFiniteSet(admissions)'
    BY <1>1, FS_AddElement DEF AccessInv
  <1>8. AccessTypeOK'
    <2>1. /\ DOMAIN consumedInvocationKeys' \subseteq InvocationKeys
          /\ \A k \in DOMAIN consumedInvocationKeys' : consumedInvocationKeys'[k] \in Nat
      BY <1>1, <1>2 DEF AccessInv, AccessTypeOK, Remembered
    <2>2. QED
      BY <2>1, <1>1, <1>2, <1>4, <1>5, <1>6 DEF AccessInv, AccessTypeOK
  <1>9. KeysRemembered'
    <2>1. ASSUME NEW a \in admissions, a.at + KeyTtl > clock
          PROVE  /\ a.key \in DOMAIN consumedInvocationKeys'
                 /\ consumedInvocationKeys'[a.key] >= a.at + KeyTtl
      <3>1. a.key \in Remembered /\ consumedInvocationKeys[a.key] >= a.at + KeyTtl
        BY <2>1, RememberedKeys
      <3>2. a.key # key
        BY <3>1, <1>1
      <3>3. QED
        BY <3>1, <3>2, <1>1
    <2>2. /\ key \in DOMAIN consumedInvocationKeys'
          /\ consumedInvocationKeys'[key] = clock + KeyTtl
      BY <1>1
    <2>3. clock + KeyTtl >= clock + KeyTtl
      BY <1>2
    <2>4. \A a \in admissions' :
            /\ a.at <= clock
            /\ a.at + KeyTtl > clock =>
                 /\ a.key \in DOMAIN consumedInvocationKeys'
                 /\ consumedInvocationKeys'[a.key] >= a.at + KeyTtl
      <3>1. n.at <= clock
        BY <1>2, <1>6
      <3>2. /\ n.key \in DOMAIN consumedInvocationKeys'
            /\ consumedInvocationKeys'[n.key] >= n.at + KeyTtl
        BY <2>2, <2>3, <1>6
      <3>3. QED
        BY <2>1, <3>1, <3>2, <1>1, <1>2
    <2>5. QED
      BY <2>4 DEF KeysRemembered
  <1>10. KeyAdmittedOnce'
    <2>1. ASSUME NEW a \in admissions, a.key = key
          PROVE  clock - a.at >= KeyTtl
      <3>1. ~(a.at + KeyTtl > clock)
        BY <2>1, <1>1, RememberedKeys
      <3>2. QED
        BY <3>1, <1>2
    <2>2. QED
      BY <2>1, <1>1, <1>6 DEF AccessInv, KeyAdmittedOnce
  <1>11. InWindow(s)' = InWindow(s) \cup {n}
    BY <1>1, <1>6 DEF InWindow
  <1>12. /\ Cardinality(InWindow(s)') <= c + 1
         /\ Cardinality(InWindow(s)') \in Nat
    <2>1. /\ IsFiniteSet(InWindow(s) \cup {n})
          /\ Cardinality(InWindow(s) \cup {n}) =
               IF n \in InWindow(s) THEN Cardinality(InWindow(s))
               ELSE Cardinality(InWindow(s)) + 1
      BY <1>3, FS_AddElement
    <2>2. Cardinality(InWindow(s)) \in Nat
      BY <1>3, FS_CardinalityType
    <2>3. QED
      BY <2>1, <2>2, <1>3, <1>11
  <1>13. \E o \in admissions' : o.window = s /\ o.at = s
    BY <1>1, <1>3, <1>6
  <1>14. WindowCounts'
    <2>1. invocationWindow' # None /\ invocationWindow'.startedAt = s
          /\ invocationWindow'.count = c + 1
      BY <1>4, <1>5
    <2>2. \A a \in admissions' : a.window = s \/ a.window + RateWindow <= s
      BY <1>1, <1>3, <1>6
    <2>3. /\ s <= clock'
          /\ Cardinality(InWindow(s)') <= invocationWindow'.count
      BY <2>1, <1>3, <1>12
    <2>4. QED
      BY <2>1, <2>2, <2>3, <1>13 DEF WindowCounts, InWindow
  <1>15. WindowsApart'
    <2>1. ASSUME NEW a \in admissions'
          PROVE  /\ a.window <= a.at /\ a.at < a.window + RateWindow
                 /\ \E o \in admissions' : o.window = a.window /\ o.at = a.window
                 /\ \A b \in admissions' : b.window = a.window \/ Apart(a.window, b.window)
                 /\ Cardinality({b \in admissions' : b.window = a.window}) <= RateLimit
      <3>1. CASE a.window = s
        <4>1. a.window <= a.at /\ a.at < a.window + RateWindow
          <5>1. CASE a \in admissions
            BY <5>1 DEF AccessInv, WindowsApart
          <5>2. CASE a = n
            BY <5>2, <1>3, <1>6
          <5>3. QED
            BY <5>1, <5>2, <1>1
        <4>2. \A b \in admissions' : b.window = s \/ Apart(s, b.window)
          BY <1>1, <1>3, <1>6 DEF Apart
        <4>3. Cardinality({b \in admissions' : b.window = s}) <= RateLimit
          <5>1. {b \in admissions' : b.window = s} = InWindow(s)'
            BY DEF InWindow
          <5>2. Cardinality(InWindow(s)') <= RateLimit
            BY <1>1, <1>2, <1>3, <1>12
          <5>3. QED
            BY <5>1, <5>2
        <4>4. QED
          BY <3>1, <4>1, <4>2, <4>3, <1>13
      <3>2. CASE a.window # s
        <4>1. a \in admissions
          BY <3>2, <1>1, <1>6
        <4>2. {b \in admissions' : b.window = a.window} = InWindow(a.window)
          BY <3>2, <1>1, <1>6 DEF InWindow
        <4>3. a.window + RateWindow <= s
          BY <3>2, <4>1, <1>3
        <4>4. \A b \in admissions' : b.window = a.window \/ Apart(a.window, b.window)
          BY <4>1, <4>3, <1>1, <1>6 DEF AccessInv, WindowsApart, Apart
        <4>5. QED
          BY <4>1, <4>2, <4>4, <1>1 DEF AccessInv, WindowsApart
      <3>3. QED
        BY <3>1, <3>2
    <2>2. QED
      BY <2>1 DEF WindowsApart, InWindow, Apart
  <1>16. QED
    BY <1>7, <1>8, <1>9, <1>10, <1>14, <1>15 DEF AccessInv

(* A period as long as a window meets two windows at most, and the first   *)
(* of them without the admission it began with.                            *)
LEMMA RateIsBoundedHolds == ASSUME AccessInv PROVE RateIsBounded
  <1> SUFFICES ASSUME NEW f \in admissions
               PROVE  Cardinality({a \in admissions :
                        f.at <= a.at /\ a.at < f.at + RateWindow}) < 2 * RateLimit
    BY DEF RateIsBounded
  <1> DEFINE P == {a \in admissions : f.at <= a.at /\ a.at < f.at + RateWindow}
             A == InWindow(f.window)
  <1>1. /\ RateWindow \in Nat \ {0} /\ RateLimit \in Nat
        /\ IsFiniteSet(admissions)
        /\ \A a \in admissions : a.window \in Nat /\ a.at \in Nat
    BY RateAssumption DEF AccessInv, AccessTypeOK
  <1>2. \A a \in admissions :
          /\ a.window <= a.at /\ a.at < a.window + RateWindow
          /\ \E o \in admissions : o.window = a.window /\ o.at = a.window
          /\ \A b \in admissions : b.window = a.window \/ Apart(a.window, b.window)
          /\ Cardinality(InWindow(a.window)) <= RateLimit
    BY DEF AccessInv, WindowsApart
  <1>3. \A x : IsFiniteSet(InWindow(x)) /\ Cardinality(InWindow(x)) \in Nat
    <2> TAKE x
    <2>1. InWindow(x) \in SUBSET admissions
      BY DEF InWindow
    <2>2. IsFiniteSet(InWindow(x))
      BY <2>1, <1>1, FS_Subset
    <2>3. QED
      BY <2>2, FS_CardinalityType
  <1>4. PICK o \in admissions : o.window = f.window /\ o.at = f.window
    BY <1>2
  <1>5. \A x \in P : x.window = f.window \/ f.window + RateWindow <= x.window
    BY <1>1, <1>2 DEF Apart
  <1>6. CASE \A x \in P : x.window = f.window
    <2>1. P \in SUBSET A
      BY <1>6 DEF InWindow
    <2>2. Cardinality(P) <= Cardinality(A) /\ IsFiniteSet(P)
      BY <2>1, <1>3, FS_Subset
    <2>3. A # {}
      BY DEF InWindow
    <2>4. Cardinality(A) # 0 /\ Cardinality(A) \in Nat /\ Cardinality(A) <= RateLimit
      BY <2>3, <1>2, <1>3, FS_EmptySet
    <2>5. Cardinality(P) \in Nat
      BY <2>2, FS_CardinalityType
    <2> HIDE DEF P, A
    <2>6. Cardinality(P) < 2 * RateLimit
      BY <1>1, <2>2, <2>4, <2>5
    <2>7. QED
      BY <2>6 DEF P
  <1>7. CASE \E g \in P : g.window # f.window
    <2>1. PICK g \in P : g.window # f.window
      BY <1>7
    <2> DEFINE B == InWindow(g.window)
    <2>2. g \in admissions /\ f.window + RateWindow <= g.window
          /\ g.window <= g.at /\ g.at < f.at + RateWindow
      BY <2>1, <1>2, <1>5
    <2>3. o \notin P
      BY <2>2, <1>1, <1>4
    <2>4. \A x \in P : x.window = f.window \/ x.window = g.window
      <3> SUFFICES ASSUME NEW x \in P, x.window # f.window, x.window # g.window
                   PROVE  FALSE
        OBVIOUS
      <3>1. x \in admissions /\ f.window + RateWindow <= x.window
            /\ x.window <= x.at /\ x.at < f.at + RateWindow
        BY <1>2, <1>5
      <3>2. Apart(x.window, g.window)
        BY <3>1, <2>2, <1>2
      <3>3. f.at < f.window + RateWindow
        BY <1>2
      <3>4. QED
        BY <3>1, <3>2, <3>3, <2>2, <1>1 DEF Apart
    <2>5. P \in SUBSET ((A \ {o}) \cup B)
      BY <2>3, <2>4 DEF InWindow
    <2>6. o \in A
      BY <1>4 DEF InWindow
    <2> HIDE DEF P, A, B
    <2>7. /\ IsFiniteSet(A) /\ IsFiniteSet(B)
          /\ Cardinality(A) \in Nat /\ Cardinality(B) \in Nat
          /\ Cardinality(A) <= RateLimit /\ Cardinality(B) <= RateLimit
      BY <1>2, <1>3, <2>2 DEF A, B
    <2>8. IsFiniteSet(A \ {o}) /\ Cardinality(A \ {o}) = Cardinality(A) - 1
      BY <2>6, <2>7, FS_RemoveElement
    <2>9. /\ IsFiniteSet((A \ {o}) \cup B)
          /\ Cardinality((A \ {o}) \cup B) =
               Cardinality(A \ {o}) + Cardinality(B) - Cardinality((A \ {o}) \cap B)
      BY <2>7, <2>8, FS_Union
    <2>10. Cardinality((A \ {o}) \cap B) \in Nat
      <3>1. IsFiniteSet((A \ {o}) \cap B)
        BY <2>8, FS_Intersection
      <3>2. QED
        BY <3>1, FS_CardinalityType
    <2>11. Cardinality(P) <= Cardinality((A \ {o}) \cup B) /\ IsFiniteSet(P)
      BY <2>5, <2>9, FS_Subset
    <2>12. Cardinality(P) \in Nat
      BY <2>11, FS_CardinalityType
    <2>13. Cardinality(P) < 2 * RateLimit
      BY <1>1, <2>7, <2>8, <2>9, <2>10, <2>11, <2>12
    <2>14. QED
      BY <2>13 DEF P
  <1>8. QED
    BY <1>6, <1>7

LEMMA AdmissionsAreBoundedHold == ASSUME AccessInv PROVE AdmissionsAreBounded
  BY RateIsBoundedHolds DEF AccessInv, AdmissionsAreBounded

(* What a step of the routes does to the admissions.                       *)
LEMMA AccessNextInv ==
  ASSUME AccessInv, [Next]_vars
  PROVE  AccessInv'
  <1>1. CASE \E r \in Runners : RequestRun(r)
    <2>1. PICK r \in Runners : RequestRun(r)
      BY <1>1
    <2>2. clock' = clock
      BY <2>1 DEF RequestRun
    <2>3. \/ UNCHANGED accessVars
          \/ \E key \in InvocationKeys : Invoke(r, key)
          \/ \E key : RefuseInvocation(key)
      BY <2>1 DEF RequestRun
    <2>4. QED
      BY <2>2, <2>3, AccessTick, AccessInvoke, AccessRefuse
  <1>2. CASE Tick
    BY <1>2, AccessTick DEF Tick
  <1>3. CASE UNCHANGED vars
    BY <1>3, AccessTick DEF vars, accessVars
  <1>4. CASE \/ \E r \in Runners : SaveRun(r) \/ ModelFails(r)
             \/ \E k \in Correctors : BeginCorrection(k) \/ FinishCorrection(k)
             \/ RefuseHandoff \/ RejectHandoff \/ MockHandoff
             \/ \E h \in Handlers :
                  \/ BeginHandoff(h) \/ AuthorizeTransfer(h) \/ FinishHandoff(h)
                  \/ HandoffFails(h) \/ RecoverHandoff(h) \/ FinishRecovery(h)
    <2>1. clock' = clock /\ UNCHANGED accessVars
      BY <1>4 DEF SaveRun, ModelFails, BeginCorrection, FinishCorrection, RefuseHandoff,
        RejectHandoff, MockHandoff, BeginHandoff, AuthorizeTransfer, FinishHandoff,
        HandoffFails, RecoverHandoff, FinishRecovery
    <2>2. QED
      BY <2>1, AccessTick
  <1>5. QED
    BY <1>1, <1>2, <1>3, <1>4 DEF Next

(* No invocation key is used twice while it is remembered, and the rate    *)
(* limit holds up to the factor that fixed windows allow, for any limit,   *)
(* window, and number of requests and keys.                                *)
THEOREM AdmissionsStayBounded == Spec => []AdmissionsAreBounded
  <1>1. Init => AccessInv
    BY AccessInitInv DEF Init
  <1>2. QED
    BY <1>1, AccessNextInv, AdmissionsAreBoundedHold, PTL DEF Spec

-----------------------------------------------------------------------------
(* Runs                                                                    *)

RunsTyped ==
  /\ mode \in Modes
  /\ runs \in [Runners -> StoredRun \cup {None}]
  /\ consumedProposalKeys \subseteq Runners
  /\ runner \in [Runners -> {"idle", "thinking", "done"}]
  /\ correction \in [Correctors -> [run : Runners, now : Nat] \cup {None}]
  /\ execution \in [Handlers -> Execution \cup {None}]

(* The run is reserved for an approval whose outcome may be stored.        *)
Held(q, a) ==
  /\ Kept[q].preparedAt # None
  /\ Kept[q].reservation = a
  /\ IF Kept[q].handoff # None THEN IsRecoverable(Kept[q].handoff, a)
     ELSE q \notin consumedProposalKeys

(* A run is saved once, is executed by one handler at a time (of those     *)
(* that did not recover it), and while it is stored it is held for the     *)
(* approval that is executed.                                              *)
RunOK(q) ==
  /\ runs[q] # None => runner[q] = "done"
  /\ \A h1, h2 \in Handlers : Executes(h1, q) /\ Executes(h2, q) => h1 = h2
  /\ \A h \in Handlers : Executes(h, q) =>
       /\ mode = "live"
       /\ runner[q] = "done"
       /\ Kept[q] # None => Held(q, execution[h].approval)
  /\ Kept[q] # None =>
       \/ Kept[q].reservation = None
       \/ \E h \in Handlers :
            Executes(h, q) /\ execution[h].approval = Kept[q].reservation

RunsInv == RunsTyped /\ \A q \in Runners : RunOK(q)

(* What is recovered has left memory for good, and is executed for the     *)
(* approval that stays authorized.                                         *)
RecoveryInv ==
  /\ authorized \in [Runners -> Approvals \cup {None}]
  /\ \A q \in Runners : authorized[q] # None => runner[q] = "done"
  /\ \A h \in Handlers : execution[h] # None /\ execution[h].recovers =>
       LET q == execution[h].run
       IN  /\ runs[q] = None
           /\ runner[q] = "done"
           /\ authorized[q] # None
           /\ execution[h].approval = authorized[q]

(* What HandoffStays asks of a step for a run.                             *)
Stays(q) ==
  runs[q] # None /\ runs'[q] # None /\ runs[q].handoff # None =>
    /\ runs'[q].handoff # None
    /\ runs'[q].handoff.approval = runs[q].handoff.approval
    /\ runs[q].handoff.status \notin Recoverable =>
         runs'[q].handoff.status = runs[q].handoff.status

LEMMA KeptTyped ==
  ASSUME RunsTyped
  PROVE  /\ Kept \in [Runners -> StoredRun \cup {None}]
         /\ \A q \in Runners : Kept[q] # None => Kept[q] = runs[q]
  BY DEF RunsTyped, Kept

LEMMA OneExecutionHolds == ASSUME RunsInv, RecoveryInv PROVE OneExecution
  <1>1. \A q \in Runners : q \in StoredRuns =>
          Kept[q] # None /\ Kept[q] = runs[q] /\ runs[q] # None
    BY KeptTyped DEF RunsInv, StoredRuns
  <1>2. \A h \in Handlers, q \in Runners : Recovers(h, q) =>
          q \notin StoredRuns /\ execution[h].approval = authorized[q]
    BY <1>1 DEF RecoveryInv, Recovers
  <1>3. QED
    BY <1>1, <1>2 DEF RunsInv, RunOK, OneExecution

LEMMA OutcomeCanBeStoredHolds == ASSUME RunsInv PROVE OutcomeCanBeStored
  <1> SUFFICES ASSUME NEW h \in Handlers, NEW q \in Runners, Executes(h, q),
                      q \in StoredRuns, NEW status \in LiveResults
               PROVE  CanPersist(q, execution[h].approval, status)
    BY DEF OutcomeCanBeStored
  <1>1. PICK a : a = execution[h].approval
    OBVIOUS
  <1>2. Kept[q] # None
    BY DEF StoredRuns
  <1>3. Held(q, a)
    BY <1>1, <1>2 DEF RunsInv, RunOK
  <1>4. CanPersist(q, a, status)
    BY <1>2, <1>3 DEF CanPersist, Held
  <1>5. QED
    BY <1>1, <1>4

(* What the store has after a step.                                        *)
LEMMA KeptAsStored ==
  ASSUME RunsTyped, clock' = clock, runs' = Kept
  PROVE  Kept' = Kept /\ \A q \in Runners : Stays(q)
  <1>1. Kept' = Kept
    BY DEF Kept
  <1>2. \A q \in Runners : runs'[q] # None => runs'[q] = runs[q]
    BY KeptTyped
  <1>3. QED
    BY <1>1, <1>2 DEF Stays

LEMMA KeptReplaced ==
  ASSUME RunsTyped, clock' = clock, NEW r \in Runners, NEW k \in StoredRun,
         runs' = [Kept EXCEPT ![r] = k]
  PROVE  /\ runs' \in [Runners -> StoredRun \cup {None}]
         /\ runs'[r] = k
         /\ Kept'[r] # None => Kept'[r] = k
         /\ \A q \in Runners \ {r} :
              /\ Kept'[q] = Kept[q]
              /\ runs'[q] # None => runs[q] # None
              /\ Stays(q)
  <1>1. /\ Kept \in [Runners -> StoredRun \cup {None}]
        /\ \A q \in Runners : Kept[q] # None => Kept[q] = runs[q]
    BY KeptTyped
  <1>2. /\ runs' \in [Runners -> StoredRun \cup {None}]
        /\ runs'[r] = k
        /\ \A q \in Runners \ {r} : runs'[q] = Kept[q]
    BY <1>1
  <1>3. Kept'[r] # None => Kept'[r] = k
    BY <1>2 DEF Kept
  <1>4. ASSUME NEW q \in Runners \ {r}
        PROVE  Kept'[q] = Kept[q]
    <2>1. Kept'[q] = IF runs'[q] = None THEN None
                     ELSE IF runs'[q].expiresAt <= clock THEN None ELSE runs'[q]
      BY DEF Kept
    <2>2. Kept[q] = IF runs[q] = None THEN None
                    ELSE IF runs[q].expiresAt <= clock THEN None ELSE runs[q]
      BY DEF Kept
    <2>3. QED
      BY <2>1, <2>2, <1>2
  <1>5. ASSUME NEW q \in Runners \ {r}
        PROVE  (runs'[q] # None => runs[q] # None) /\ Stays(q)
    BY <1>1, <1>2 DEF Stays
  <1>6. QED
    BY <1>2, <1>3, <1>4, <1>5

(* A run that a step does not concern.                                     *)
LEMMA RunUntouched ==
  ASSUME NEW q \in Runners, RunOK(q),
         Kept'[q] \in {Kept[q], None},
         runs'[q] # None => runs[q] # None,
         runner[q] = "done" => runner'[q] = "done",
         mode' = mode,
         q \in consumedProposalKeys' <=> q \in consumedProposalKeys,
         \A h \in Handlers : Executes(h, q)' <=> Executes(h, q),
         \A h \in Handlers : Executes(h, q) => execution'[h] = execution[h]
  PROVE  RunOK(q)'
  <1>1. ASSUME NEW a, Held(q, a), Kept'[q] # None
        PROVE  Held(q, a)'
    BY <1>1 DEF Held, IsRecoverable
  <1>2. \A h \in Handlers : Executes(h, q)' =>
          /\ mode' = "live"
          /\ runner'[q] = "done"
          /\ Kept'[q] # None => Held(q, execution[h].approval)'
    <2> SUFFICES ASSUME NEW h \in Handlers, Executes(h, q)'
                 PROVE  /\ mode' = "live"
                        /\ runner'[q] = "done"
                        /\ Kept'[q] # None => Held(q, execution[h].approval)'
      OBVIOUS
    <2>1. PICK a : a = execution[h].approval
      OBVIOUS
    <2>2. /\ mode = "live" /\ runner[q] = "done" /\ execution'[h] = execution[h]
          /\ Kept[q] # None => Held(q, a)
      BY <2>1 DEF RunOK
    <2>3. Kept'[q] # None => Held(q, a)'
      BY <2>2, <1>1
    <2>4. QED
      BY <2>1, <2>2, <2>3 DEF Held
  <1>3. Kept'[q] # None =>
          \/ Kept'[q].reservation = None
          \/ \E h \in Handlers :
               Executes(h, q)' /\ execution'[h].approval = Kept'[q].reservation
    BY DEF RunOK
  <1>4. QED
    BY <1>2, <1>3 DEF RunOK

(* Steps on which nobody starts or stops executing.                        *)
LEMMA SameExecutions ==
  ASSUME execution' = execution
  PROVE  \A h \in Handlers, q \in Runners :
           /\ Executes(h, q)' <=> Executes(h, q)
           /\ execution'[h] = execution[h]
  BY DEF Executes

(* A step that only drops what has expired.                                *)
LEMMA ExpireInv ==
  ASSUME RunsInv, clock' = clock, runs' = Kept,
         RunsTyped', UNCHANGED <<mode, consumedProposalKeys, execution>>,
         \A q \in Runners : runner[q] = "done" => runner'[q] = "done"
  PROVE  RunsInv' /\ \A q \in Runners : Stays(q)
  <1>1. Kept' = Kept /\ \A q \in Runners : Stays(q)
    BY KeptAsStored DEF RunsInv
  <1>2. \A q \in Runners : runs'[q] # None => runs[q] # None
    BY KeptTyped DEF RunsInv
  <1>3. \A q \in Runners : RunOK(q)'
    BY <1>1, <1>2, SameExecutions, RunUntouched DEF RunsInv
  <1>4. QED
    BY <1>1, <1>3 DEF RunsInv

(* A step that leaves the store alone.                                     *)
LEMMA IdleInv ==
  ASSUME RunsInv, clock \in Nat, clock' \in {clock, clock + 1},
         RunsTyped', UNCHANGED <<runs, mode, consumedProposalKeys, execution>>,
         \A q \in Runners : runner[q] = "done" => runner'[q] = "done"
  PROVE  RunsInv' /\ \A q \in Runners : Stays(q)
  <1>1. \A q \in Runners : Kept'[q] \in {Kept[q], None}
    <2> SUFFICES ASSUME NEW q \in Runners
                 PROVE  Kept'[q] \in {Kept[q], None}
      OBVIOUS
    <2>1. Kept'[q] = IF runs[q] = None THEN None
                     ELSE IF runs[q].expiresAt <= clock' THEN None ELSE runs[q]
      BY DEF Kept
    <2>2. Kept[q] = IF runs[q] = None THEN None
                    ELSE IF runs[q].expiresAt <= clock THEN None ELSE runs[q]
      BY DEF Kept
    <2>3. runs[q] # None => runs[q].expiresAt \in Nat
      BY DEF RunsInv, RunsTyped, StoredRun
    <2>4. runs[q] # None /\ runs[q].expiresAt <= clock => runs[q].expiresAt <= clock'
      BY <2>3
    <2>5. QED
      BY <2>1, <2>2, <2>4
  <1>2. \A q \in Runners : RunOK(q)'
    BY <1>1, SameExecutions, RunUntouched DEF RunsInv
  <1>3. QED
    BY <1>2 DEF RunsInv, Stays

(* A step that replaces one run and leaves what it is held for.            *)
LEMMA ReplaceInv ==
  ASSUME RunsInv, clock' = clock, NEW r \in Runners, NEW k \in StoredRun,
         Kept[r] # None, runs' = [Kept EXCEPT ![r] = k],
         k.preparedAt # None \/ k.preparedAt = Kept[r].preparedAt,
         k.handoff = Kept[r].handoff, k.reservation = Kept[r].reservation,
         UNCHANGED <<mode, consumedProposalKeys, execution, runner>>,
         RunsTyped'
  PROVE  RunsInv' /\ \A q \in Runners : Stays(q)
  <1>1. /\ runs' \in [Runners -> StoredRun \cup {None}]
        /\ runs'[r] = k
        /\ Kept'[r] # None => Kept'[r] = k
        /\ \A q \in Runners \ {r} :
             /\ Kept'[q] = Kept[q]
             /\ runs'[q] # None => runs[q] # None
             /\ Stays(q)
    BY KeptReplaced DEF RunsInv
  <1>2. Kept[r] = runs[r] /\ runs[r] # None
    BY KeptTyped DEF RunsInv
  <1>3. \A q \in Runners \ {r} : RunOK(q)'
    BY <1>1, SameExecutions, RunUntouched DEF RunsInv
  <1>4. RunOK(r)
    BY DEF RunsInv
  <1>5. RunOK(r)'
    <2>1. \A a : Held(r, a) /\ Kept'[r] # None => Held(r, a)'
      BY <1>1 DEF Held, IsRecoverable
    <2>2. ASSUME NEW h \in Handlers, Executes(h, r)'
          PROVE  mode' = "live" /\ runner'[r] = "done"
                 /\ (Kept'[r] # None => Held(r, execution[h].approval)')
      <3>1. PICK a : a = execution[h].approval
        OBVIOUS
      <3>2. mode = "live" /\ runner[r] = "done" /\ Held(r, a)
        BY <2>2, <3>1, <1>4, SameExecutions DEF RunOK
      <3>3. QED
        BY <3>1, <3>2, <2>1 DEF Held
    <2>3. Kept'[r] # None =>
            \/ Kept'[r].reservation = None
            \/ \E h \in Handlers :
                 Executes(h, r)' /\ execution'[h].approval = Kept'[r].reservation
      BY <1>1, <1>4, SameExecutions DEF RunOK
    <2>4. \A h1, h2 \in Handlers : Executes(h1, r)' /\ Executes(h2, r)' => h1 = h2
      BY <1>4, SameExecutions DEF RunOK
    <2>5. runs'[r] # None => runner'[r] = "done"
      BY <1>2, <1>4 DEF RunOK
    <2>6. QED
      BY <2>2, <2>3, <2>4, <2>5 DEF RunOK
  <1>6. Stays(r)
    BY <1>1, <1>2 DEF Stays
  <1>7. QED
    BY <1>1, <1>3, <1>5, <1>6 DEF RunsInv

LEMMA SaveRunInv ==
  ASSUME RunsInv, clock \in Nat, NEW r \in Runners, SaveRun(r)
  PROVE  RunsInv' /\ \A q \in Runners : Stays(q)
  <1>1. /\ clock' = clock /\ runner[r] = "thinking"
        /\ runner' = [runner EXCEPT ![r] = "done"]
        /\ runner \in [Runners -> {"idle", "thinking", "done"}]
        /\ UNCHANGED <<mode, consumedProposalKeys, correction, execution>>
    BY DEF SaveRun, RunsInv, RunsTyped
  <1>2. \A q \in Runners : runner[q] = "done" => runner'[q] = "done"
    BY <1>1
  <1>3. CASE runs' = Kept
    <2>1. RunsTyped'
      BY <1>1, <1>3, KeptTyped DEF RunsInv, RunsTyped
    <2>2. QED
      BY <1>1, <1>2, <1>3, <2>1, ExpireInv
  <1>4. CASE runs' = [Kept EXCEPT ![r] = NewRun]
    <2>1. NewRun \in StoredRun /\ NewRun.reservation = None
      BY RunsAssumption DEF NewRun, StoredRun
    <2>2. /\ runs' \in [Runners -> StoredRun \cup {None}]
          /\ runs'[r] = NewRun
          /\ Kept'[r] # None => Kept'[r] = NewRun
          /\ \A q \in Runners \ {r} :
               /\ Kept'[q] = Kept[q]
               /\ runs'[q] # None => runs[q] # None
               /\ Stays(q)
      BY <1>1, <1>4, <2>1, KeptReplaced DEF RunsInv
    <2>3. RunsTyped'
      BY <1>1, <2>2 DEF RunsInv, RunsTyped
    <2>4. \A q \in Runners \ {r} : RunOK(q)'
      BY <1>1, <1>2, <2>2, SameExecutions, RunUntouched DEF RunsInv
    <2>5. runs[r] = None /\ \A h \in Handlers : ~Executes(h, r)
      BY <1>1 DEF RunsInv, RunOK
    <2>6. RunOK(r)'
      <3>1. \A h \in Handlers : ~Executes(h, r)'
        BY <2>5, <1>1, SameExecutions
      <3>2. runner'[r] = "done"
        BY <1>1
      <3>3. Kept'[r] # None => Kept'[r].reservation = None
        BY <2>1, <2>2
      <3>4. QED
        BY <3>1, <3>2, <3>3 DEF RunOK
    <2>7. Stays(r)
      BY <2>5 DEF Stays
    <2>8. QED
      BY <2>2, <2>3, <2>4, <2>6, <2>7 DEF RunsInv
  <1>5. QED
    BY <1>3, <1>4 DEF SaveRun

LEMMA AttemptedRun ==
  ASSUME NEW run \in StoredRun, run.attempts < MaxAttempts
  PROVE  /\ Attempted(run) \in StoredRun
         /\ Attempted(run).preparedAt = run.preparedAt
         /\ Attempted(run).handoff = run.handoff
         /\ Attempted(run).reservation = run.reservation
  BY RunsAssumption DEF StoredRun, Attempted

LEMMA CorrectionInv ==
  ASSUME RunsInv, clock \in Nat, NEW c \in Correctors,
         BeginCorrection(c) \/ FinishCorrection(c)
  PROVE  RunsInv' /\ \A q \in Runners : Stays(q)
  <1>1. /\ clock' = clock
        /\ UNCHANGED <<mode, consumedProposalKeys, execution, runner>>
    BY DEF BeginCorrection, FinishCorrection
  <1>2. correction' \in [Correctors -> [run : Runners, now : Nat] \cup {None}]
    <2>1. CASE BeginCorrection(c)
      BY <2>1 DEF BeginCorrection, RunsInv, RunsTyped, StoredRuns
    <2>2. CASE FinishCorrection(c)
      BY <2>2 DEF FinishCorrection, RunsInv, RunsTyped
    <2>3. QED
      BY <2>1, <2>2
  <1>3. CASE runs' = Kept
    <2>1. RunsTyped'
      BY <1>1, <1>2, <1>3, KeptTyped DEF RunsInv, RunsTyped
    <2>2. QED
      BY <1>1, <1>3, <2>1, ExpireInv
  <1>4. CASE runs' # Kept
    <2>1. PICK r, now :
            /\ correction[c] # None /\ r = correction[c].run /\ now = correction[c].now
            /\ Kept[r] # None
            /\ runs' = ReplaceRun(r, now)
      BY <1>4 DEF BeginCorrection, FinishCorrection
    <2>2. r \in Runners /\ now \in Nat /\ now # None
      <3>1. correction[c] \in [run : Runners, now : Nat]
        BY <2>1 DEF RunsInv, RunsTyped
      <3>2. QED
        BY <2>1, <3>1, NoRequestAssumption
    <2>3. Kept[r] \in StoredRun /\ clock + Retention \in Nat
      BY <2>1, <2>2, KeptTyped, RunsAssumption DEF RunsInv
    <2>4. PICK k : k = [Kept[r] EXCEPT !.preparedAt = now, !.expiresAt = clock + Retention]
      OBVIOUS
    <2>5. /\ k \in StoredRun
          /\ k.preparedAt = now /\ k.handoff = Kept[r].handoff
          /\ k.reservation = Kept[r].reservation
          /\ runs' = [Kept EXCEPT ![r] = k]
      <3>1. PICK run \in StoredRun, e \in Nat : run = Kept[r] /\ e = clock + Retention
        BY <2>3
      <3>2. k = [run EXCEPT !.preparedAt = now, !.expiresAt = e]
        BY <2>4, <3>1
      <3>3. /\ k \in StoredRun
            /\ k.preparedAt = now /\ k.handoff = run.handoff
            /\ k.reservation = run.reservation
        BY <2>2, <3>2 DEF StoredRun
      <3>4. runs' = [Kept EXCEPT ![r] = k]
        BY <2>1, <2>4 DEF ReplaceRun
      <3>5. QED
        BY <3>1, <3>3, <3>4
    <2>6. RunsTyped'
      <3>1. runs' \in [Runners -> StoredRun \cup {None}]
        BY <2>2, <2>5, KeptTyped DEF RunsInv
      <3>2. QED
        BY <3>1, <1>1, <1>2 DEF RunsInv, RunsTyped
    <2>7. QED
      BY <1>1, <2>1, <2>2, <2>5, <2>6, ReplaceInv
  <1>5. QED
    BY <1>3, <1>4

LEMMA RejectInv ==
  ASSUME RunsInv, RejectHandoff
  PROVE  RunsInv' /\ \A q \in Runners : Stays(q)
  <1>1. PICK r \in Runners :
          /\ {a \in Approvals : Considered(r, a) /\ ~Accepts(r, a)} # {}
          /\ runs' = [Kept EXCEPT ![r] = Attempted(Kept[r])]
    BY DEF RejectHandoff, StoredRuns
  <1>2. /\ clock' = clock
        /\ UNCHANGED <<mode, consumedProposalKeys, execution, runner, correction>>
    BY DEF RejectHandoff, requestVars
  <1>3. PICK k : k = Attempted(Kept[r])
    OBVIOUS
  <1>4. Kept[r] # None /\ Kept[r].attempts < MaxAttempts
    BY <1>1 DEF Considered
  <1>5. Kept[r] \in StoredRun
    BY <1>4, KeptTyped DEF RunsInv
  <1>6. /\ k \in StoredRun
        /\ k.preparedAt = Kept[r].preparedAt /\ k.handoff = Kept[r].handoff
        /\ k.reservation = Kept[r].reservation
    BY <1>3, <1>4, <1>5, AttemptedRun
  <1>7. runs' = [Kept EXCEPT ![r] = k]
    BY <1>1, <1>3
  <1>8. RunsTyped'
    <2>1. runs' \in [Runners -> StoredRun \cup {None}]
      BY <1>6, <1>7, KeptTyped DEF RunsInv
    <2>2. QED
      BY <2>1, <1>2 DEF RunsInv, RunsTyped
  <1>9. QED
    BY <1>2, <1>4, <1>6, <1>7, <1>8, ReplaceInv

(* What a handoff stores.                                                  *)
LEMMA PersistedRun ==
  ASSUME RunsTyped, NEW r \in Runners, Kept[r] # None, Kept[r].attempts < MaxAttempts,
         NEW a \in Approvals, NEW status \in HandoffStatuses
  PROVE  \E k \in StoredRun :
           /\ k.preparedAt = Kept[r].preparedAt
           /\ k.handoff = [approval |-> a, status |-> status]
           /\ k.handoff # None
           /\ k.reservation = None
           /\ Persisted(r, a, status) = [Kept EXCEPT ![r] = k]
  <1>1. PICK run \in StoredRun : run = Attempted(Kept[r]) /\ run.preparedAt = Kept[r].preparedAt
    BY KeptTyped, AttemptedRun
  <1>2. PICK g \in Handoff : g = [approval |-> a, status |-> status]
    BY DEF Handoff
  <1>3. PICK k : k = [run EXCEPT !.handoff = g, !.reservation = None]
    OBVIOUS
  <1>4. k \in StoredRun /\ k.preparedAt = run.preparedAt /\ k.handoff = g
        /\ k.reservation = None
    BY <1>1, <1>2, <1>3 DEF StoredRun
  <1>5. Persisted(r, a, status) = [Kept EXCEPT ![r] = k]
    BY <1>1, <1>2, <1>3 DEF Persisted
  <1>6. g # None
    BY <1>2, NoRequestAssumption
  <1>7. QED
    BY <1>1, <1>2, <1>4, <1>5, <1>6

(* A run that nobody executes any more, and that is not reserved.          *)
LEMMA RunFreed ==
  ASSUME NEW q \in Runners,
         runs'[q] # None => runner'[q] = "done",
         \A h \in Handlers : ~Executes(h, q)',
         Kept'[q] # None => Kept'[q].reservation = None
  PROVE  RunOK(q)'
  BY DEF RunOK

LEMMA MockInv ==
  ASSUME RunsInv, MockHandoff
  PROVE  RunsInv' /\ \A q \in Runners : Stays(q)
  <1>1. PICK r \in Runners, a \in Approvals :
          /\ Accepted(r, a) /\ CanReserve(r, a)
          /\ runs' = Persisted(r, a, "HANDOFF_READY")
          /\ consumedProposalKeys' = consumedProposalKeys \cup {r}
    BY DEF MockHandoff, StoredRuns
  <1>2. /\ mode # "live" /\ clock' = clock
        /\ UNCHANGED <<mode, execution, runner, correction>>
    BY DEF MockHandoff, requestVars
  <1>3. Kept[r] # None /\ Kept[r].attempts < MaxAttempts /\ Kept[r] = runs[r]
    BY <1>1, KeptTyped DEF Accepted, Considered, RunsInv
  <1>4. runs[r].handoff = None
    BY <1>1, <1>2, <1>3 DEF CanReserve, IsRecoverable
  <1>5. PICK k \in StoredRun :
          k.reservation = None /\ runs' = [Kept EXCEPT ![r] = k]
    <2>1. "HANDOFF_READY" \in HandoffStatuses /\ RunsTyped
      BY DEF HandoffStatuses, RunsInv
    <2>2. PICK k \in StoredRun :
            /\ k.reservation = None
            /\ Persisted(r, a, "HANDOFF_READY") = [Kept EXCEPT ![r] = k]
      <3>1. PICK status \in HandoffStatuses : status = "HANDOFF_READY"
        BY <2>1
      <3>2. PICK k \in StoredRun :
              /\ k.preparedAt = Kept[r].preparedAt
              /\ k.handoff = [approval |-> a, status |-> status]
              /\ k.handoff # None
              /\ k.reservation = None
              /\ Persisted(r, a, status) = [Kept EXCEPT ![r] = k]
        BY <1>3, <2>1, PersistedRun
      <3>3. QED
        BY <3>1, <3>2
    <2>3. QED
      BY <1>1, <2>2
  <1>6. /\ runs' \in [Runners -> StoredRun \cup {None}]
        /\ runs'[r] = k
        /\ Kept'[r] # None => Kept'[r] = k
        /\ \A q \in Runners \ {r} :
             /\ Kept'[q] = Kept[q]
             /\ runs'[q] # None => runs[q] # None
             /\ Stays(q)
    BY <1>2, <1>5, KeptReplaced DEF RunsInv
  <1>7. RunsTyped'
    BY <1>1, <1>2, <1>6 DEF RunsInv, RunsTyped
  <1>8. \A q \in Runners \ {r} : RunOK(q)'
    BY <1>1, <1>2, <1>6, SameExecutions, RunUntouched DEF RunsInv
  <1>9. RunOK(r)'
    <2>1. \A h \in Handlers : ~Executes(h, r)'
      BY <1>2, SameExecutions DEF RunsInv, RunOK
    <2>2. runner'[r] = "done"
      BY <1>2, <1>3 DEF RunsInv, RunOK
    <2>3. QED
      BY <1>5, <1>6, <2>1, <2>2, RunFreed
  <1>10. Stays(r)
    BY <1>4 DEF Stays
  <1>11. QED
    BY <1>6, <1>7, <1>8, <1>9, <1>10 DEF RunsInv

LEMMA BeginHandoffInv ==
  ASSUME RunsInv, NEW h \in Handlers, BeginHandoff(h)
  PROVE  RunsInv' /\ \A q \in Runners : Stays(q)
  <1>1. PICK r \in Runners, a \in Approvals :
          /\ Accepted(r, a) /\ CanReserve(r, a)
          /\ runs' = [Kept EXCEPT ![r] = [@ EXCEPT !.reservation = a]]
          /\ execution' = [execution EXCEPT ![h] =
               [run |-> r, approval |-> a, recovers |-> FALSE]]
    BY DEF BeginHandoff, StoredRuns
  <1>2. /\ mode = "live" /\ clock' = clock /\ execution[h] = None
        /\ UNCHANGED <<mode, consumedProposalKeys, runner, correction>>
    BY DEF BeginHandoff
  <1>3. Kept[r] # None /\ Kept[r] = runs[r] /\ Kept[r] \in StoredRun
    BY <1>1, KeptTyped DEF Accepted, Considered, RunsInv
  <1>4. PICK k : k = [Kept[r] EXCEPT !.reservation = a]
    OBVIOUS
  <1>5. /\ k \in StoredRun /\ k.preparedAt = Kept[r].preparedAt
        /\ k.handoff = Kept[r].handoff /\ k.reservation = a
    <2>1. PICK run \in StoredRun : run = Kept[r]
      BY <1>3
    <2>2. QED
      BY <1>4, <2>1 DEF StoredRun
  <1>6. /\ runs' \in [Runners -> StoredRun \cup {None}]
        /\ runs'[r] = k
        /\ Kept'[r] # None => Kept'[r] = k
        /\ \A q \in Runners \ {r} :
             /\ Kept'[q] = Kept[q]
             /\ runs'[q] # None => runs[q] # None
             /\ Stays(q)
    <2>1. runs' = [Kept EXCEPT ![r] = k]
      BY <1>1, <1>4
    <2>2. QED
      BY <1>2, <1>5, <2>1, KeptReplaced DEF RunsInv
  <1>7. PICK e \in Execution :
          /\ e.run = r /\ e.approval = a /\ e # None /\ ~e.recovers
          /\ execution' = [execution EXCEPT ![h] = e]
    <2>1. PICK e : e = [run |-> r, approval |-> a, recovers |-> FALSE]
      OBVIOUS
    <2>2. e \in Execution /\ e.run = r /\ e.approval = a /\ ~e.recovers
      BY <2>1 DEF Execution
    <2>3. e # None
      BY <2>2, NoRequestAssumption
    <2>4. QED
      BY <1>1, <2>1, <2>2, <2>3
  <1>8. execution \in [Handlers -> Execution \cup {None}]
    BY DEF RunsInv, RunsTyped
  <1>9. RunsTyped'
    BY <1>2, <1>6, <1>7 DEF RunsInv, RunsTyped
  <1>10. /\ execution'[h] = e
         /\ \A i \in Handlers \ {h} : execution'[i] = execution[i]
    BY <1>7, <1>8
  <1>11. \A q \in Runners \ {r} : RunOK(q)'
    <2>1. \A q \in Runners \ {r}, i \in Handlers :
            /\ Executes(i, q)' <=> Executes(i, q)
            /\ Executes(i, q) => execution'[i] = execution[i]
      BY <1>2, <1>7, <1>10 DEF Executes
    <2>2. QED
      BY <1>2, <1>6, <2>1, RunUntouched DEF RunsInv
  <1>12. \A i \in Handlers : ~Executes(i, r)
    <2>1. ASSUME NEW i \in Handlers, Executes(i, r) PROVE FALSE
      <3>1. PICK b : b = execution[i].approval
        OBVIOUS
      <3>2. Held(r, b)
        BY <2>1, <3>1, <1>3 DEF RunsInv, RunOK
      <3>3. b \in Approvals
        BY <2>1, <3>1, <1>8 DEF Executes, Execution
      <3>4. Kept[r].reservation = None
        BY <1>1 DEF CanReserve
      <3>5. QED
        BY <3>2, <3>3, <3>4, NoRequestAssumption DEF Held
    <2>2. QED
      BY <2>1
  <1>13. \A i \in Handlers : Executes(i, r)' <=> i = h
    BY <1>7, <1>10, <1>12 DEF Executes
  <1>14. RunOK(r)'
    <2>1. runner'[r] = "done"
      BY <1>2, <1>3 DEF RunsInv, RunOK
    <2>2. Kept'[r] # None => Held(r, a)'
      BY <1>1, <1>2, <1>5, <1>6 DEF CanReserve, Held, IsRecoverable
    <2>3. \A i \in Handlers : Executes(i, r)' =>
            /\ mode' = "live"
            /\ runner'[r] = "done"
            /\ Kept'[r] # None => Held(r, execution[i].approval)'
      BY <1>2, <1>7, <1>10, <1>13, <2>1, <2>2 DEF Held
    <2>4. Kept'[r] # None => execution'[h].approval = Kept'[r].reservation
      BY <1>5, <1>6, <1>7, <1>10
    <2>5. QED
      BY <1>13, <2>1, <2>3, <2>4 DEF RunOK
  <1>15. Stays(r)
    BY <1>3, <1>5, <1>6 DEF Stays
  <1>16. QED
    BY <1>6, <1>9, <1>11, <1>14, <1>15 DEF RunsInv

(* A handoff that leaves, whatever becomes of the run: every other run is  *)
(* as it was, and no other handler executes this one.                      *)
LEMMA LeaveFacts ==
  ASSUME RunsInv, NEW h \in Handlers, execution[h] # None, ~execution[h].recovers,
         execution' = [execution EXCEPT ![h] = None]
  PROVE  \E r \in Runners, a \in Approvals :
           /\ r = execution[h].run /\ a = execution[h].approval
           /\ execution' \in [Handlers -> Execution \cup {None}]
           /\ \A i \in Handlers : ~Executes(i, r)'
           /\ \A q \in Runners \ {r}, i \in Handlers :
                /\ Executes(i, q)' <=> Executes(i, q)
                /\ Executes(i, q) => execution'[i] = execution[i]
  <1>1. execution \in [Handlers -> Execution \cup {None}]
    BY DEF RunsInv, RunsTyped
  <1>2. PICK r \in Runners, a \in Approvals :
          r = execution[h].run /\ a = execution[h].approval
    <2>1. execution[h] \in Execution
      BY <1>1
    <2>2. execution[h].run \in Runners /\ execution[h].approval \in Approvals
      BY <2>1 DEF Execution
    <2>3. QED
      BY <2>2
  <1>3. /\ execution'[h] = None
        /\ \A i \in Handlers \ {h} : execution'[i] = execution[i]
        /\ execution' \in [Handlers -> Execution \cup {None}]
    BY <1>1
  <1>4. \A i \in Handlers : Executes(i, r) => i = h
    BY <1>2 DEF RunsInv, RunOK, Executes
  <1>5. \A i \in Handlers : ~Executes(i, r)'
    BY <1>3, <1>4 DEF Executes
  <1>6. \A q \in Runners \ {r}, i \in Handlers :
          /\ Executes(i, q)' <=> Executes(i, q)
          /\ Executes(i, q) => execution'[i] = execution[i]
    BY <1>2, <1>3 DEF Executes
  <1>7. QED
    BY <1>2, <1>3, <1>5, <1>6

(* A handoff that leaves and lets the run go.                              *)
LEMMA ReleaseInv ==
  ASSUME RunsInv, NEW h \in Handlers, execution[h] # None, ~execution[h].recovers,
         execution' = [execution EXCEPT ![h] = None],
         runs' = Released(execution[h].run, execution[h].approval),
         clock' = clock,
         UNCHANGED <<mode, consumedProposalKeys, runner, correction>>
  PROVE  RunsInv' /\ \A q \in Runners : Stays(q)
  <1>1. PICK r \in Runners, a \in Approvals :
          /\ r = execution[h].run /\ a = execution[h].approval
          /\ execution' \in [Handlers -> Execution \cup {None}]
          /\ \A i \in Handlers : ~Executes(i, r)'
          /\ \A q \in Runners \ {r}, i \in Handlers :
               /\ Executes(i, q)' <=> Executes(i, q)
               /\ Executes(i, q) => execution'[i] = execution[i]
    BY LeaveFacts
  <1>2. /\ r \in Runners /\ a \in Approvals
        /\ execution' \in [Handlers -> Execution \cup {None}]
        /\ \A i \in Handlers : ~Executes(i, r)'
        /\ \A q \in Runners \ {r}, i \in Handlers :
             /\ Executes(i, q)' <=> Executes(i, q)
             /\ Executes(i, q) => execution'[i] = execution[i]
    BY <1>1
  <1>3. Executes(h, r) /\ runner[r] = "done"
    BY <1>1, <1>2 DEF Executes, RunsInv, RunOK
  <1>4. RunsTyped /\ \A q \in Runners : RunOK(q)
    BY DEF RunsInv
  <1>5. CASE Kept[r] = None
    <2>1. runs' = Kept
      BY <1>1, <1>5 DEF Released
    <2>2. Kept' = Kept /\ \A q \in Runners : Stays(q)
      BY <1>4, <2>1, KeptAsStored
    <2>3. RunsTyped'
      BY <1>2, <1>4, <2>1, KeptTyped DEF RunsTyped
    <2>4. \A q \in Runners : runs'[q] # None => runs[q] # None
      BY <1>4, <2>1, KeptTyped
    <2>5. \A q \in Runners \ {r} : RunOK(q)'
      BY <1>2, <1>4, <2>2, <2>4, RunUntouched
    <2>6. RunOK(r)'
      BY <1>2, <1>3, <1>5, <2>2, RunFreed
    <2>7. QED
      BY <2>2, <2>3, <2>5, <2>6 DEF RunsInv
  <1>6. CASE Kept[r] # None
    <2>1. Held(r, a)
      BY <1>1, <1>2, <1>3, <1>4, <1>6 DEF RunOK
    <2>2. PICK k : k = [Kept[r] EXCEPT !.reservation = None]
      OBVIOUS
    <2>3. runs' = [Kept EXCEPT ![r] = k]
      BY <1>1, <1>6, <2>1, <2>2 DEF Released, Held
    <2>4. Kept[r] = runs[r] /\ Kept[r] \in StoredRun
      BY <1>2, <1>4, <1>6, KeptTyped
    <2>5. k \in StoredRun /\ k.handoff = Kept[r].handoff /\ k.reservation = None
      <3>1. PICK run \in StoredRun : run = Kept[r]
        BY <2>4
      <3>2. QED
        BY <2>2, <3>1 DEF StoredRun
    <2>6. /\ runs' \in [Runners -> StoredRun \cup {None}]
          /\ runs'[r] = k
          /\ Kept'[r] # None => Kept'[r] = k
          /\ \A q \in Runners \ {r} :
               /\ Kept'[q] = Kept[q]
               /\ runs'[q] # None => runs[q] # None
               /\ Stays(q)
      BY <1>2, <1>4, <2>3, <2>5, KeptReplaced
    <2>7. RunsTyped'
      BY <1>2, <1>4, <2>6 DEF RunsTyped
    <2>8. \A q \in Runners \ {r} : RunOK(q)'
      BY <1>2, <1>4, <2>6, RunUntouched
    <2>9. RunOK(r)'
      BY <1>2, <1>3, <2>5, <2>6, RunFreed
    <2>10. Stays(r)
      BY <2>4, <2>5, <2>6 DEF Stays
    <2>11. QED
      BY <2>6, <2>7, <2>8, <2>9, <2>10 DEF RunsInv
  <1>7. QED
    BY <1>5, <1>6

(* A handoff that leaves and stores the outcome.                           *)
LEMMA PersistInv ==
  ASSUME RunsInv, NEW h \in Handlers, execution[h] # None, ~execution[h].recovers,
         execution' = [execution EXCEPT ![h] = None],
         NEW r \in Runners, NEW a \in Approvals,
         r = execution[h].run, a = execution[h].approval,
         Kept[r] # None,
         Kept[r].handoff # None => IsRecoverable(Kept[r].handoff, a),
         NEW k \in StoredRun, k.reservation = None,
         k.handoff # None, k.handoff.approval = a,
         runs' = [Kept EXCEPT ![r] = k],
         consumedProposalKeys' = consumedProposalKeys \cup {r},
         clock' = clock, UNCHANGED <<mode, runner, correction>>
  PROVE  RunsInv' /\ \A q \in Runners : Stays(q)
  <1>1. /\ execution' \in [Handlers -> Execution \cup {None}]
        /\ \A i \in Handlers : ~Executes(i, r)'
        /\ \A q \in Runners \ {r}, i \in Handlers :
             /\ Executes(i, q)' <=> Executes(i, q)
             /\ Executes(i, q) => execution'[i] = execution[i]
    <2>1. PICK p \in Runners, b \in Approvals :
            /\ p = execution[h].run /\ b = execution[h].approval
            /\ execution' \in [Handlers -> Execution \cup {None}]
            /\ \A i \in Handlers : ~Executes(i, p)'
            /\ \A q \in Runners \ {p}, i \in Handlers :
                 /\ Executes(i, q)' <=> Executes(i, q)
                 /\ Executes(i, q) => execution'[i] = execution[i]
      BY LeaveFacts
    <2>2. p = r
      BY <2>1
    <2>3. QED
      BY <2>1, <2>2
  <1>2. RunsTyped /\ \A q \in Runners : RunOK(q)
    BY DEF RunsInv
  <1>3. Kept[r] # None /\ Kept[r] = runs[r]
    BY <1>2, KeptTyped
  <1>4. runner[r] = "done"
    BY <1>2 DEF RunOK, Executes
  <1>5. /\ runs' \in [Runners -> StoredRun \cup {None}]
        /\ runs'[r] = k
        /\ Kept'[r] # None => Kept'[r] = k
        /\ \A q \in Runners \ {r} :
             /\ Kept'[q] = Kept[q]
             /\ runs'[q] # None => runs[q] # None
             /\ Stays(q)
    BY <1>2, KeptReplaced
  <1>6. RunsTyped'
    BY <1>1, <1>2, <1>5 DEF RunsTyped
  <1>7. \A q \in Runners \ {r} : RunOK(q)'
    BY <1>1, <1>2, <1>5, RunUntouched
  <1>8. RunOK(r)'
    BY <1>1, <1>4, <1>5, RunFreed
  <1>9. Stays(r)
    BY <1>3, <1>5 DEF Stays, IsRecoverable
  <1>10. QED
    BY <1>5, <1>6, <1>7, <1>8, <1>9 DEF RunsInv

LEMMA EndHandoffInv ==
  ASSUME RunsInv, NEW h \in Handlers, FinishHandoff(h) \/ HandoffFails(h)
  PROVE  RunsInv' /\ \A q \in Runners : Stays(q)
  <1>1. /\ execution[h] # None /\ ~execution[h].recovers /\ clock' = clock
        /\ execution' = [execution EXCEPT ![h] = None]
        /\ UNCHANGED <<mode, runner, correction>>
    BY DEF FinishHandoff, HandoffFails
  <1>2. CASE HandoffFails(h)
    BY <1>1, <1>2, ReleaseInv DEF HandoffFails
  <1>3. CASE FinishHandoff(h)
    <2>1. PICK r \in Runners, a \in Approvals :
            r = execution[h].run /\ a = execution[h].approval
      <3>1. execution[h] \in Execution
        BY <1>1 DEF RunsInv, RunsTyped
      <3>2. execution[h].run \in Runners /\ execution[h].approval \in Approvals
        BY <3>1 DEF Execution
      <3>3. QED
        BY <3>2
    <2>2. PICK status \in LiveResults :
            \/ /\ CanPersist(r, a, status)
               /\ Kept[r].attempts < MaxAttempts
               /\ runs' = Persisted(r, a, status)
               /\ consumedProposalKeys' = consumedProposalKeys \cup {r}
            \/ /\ runs' = Released(r, a)
               /\ UNCHANGED consumedProposalKeys
      BY <1>3, <2>1 DEF FinishHandoff
    <2>3. CASE runs' = Released(r, a) /\ UNCHANGED consumedProposalKeys
      BY <1>1, <2>1, <2>3, ReleaseInv
    <2>4. CASE /\ CanPersist(r, a, status)
               /\ Kept[r].attempts < MaxAttempts
               /\ runs' = Persisted(r, a, status)
               /\ consumedProposalKeys' = consumedProposalKeys \cup {r}
      <3>1. RunsTyped /\ Kept[r] # None /\ status \in HandoffStatuses
        BY <2>4 DEF RunsInv, CanPersist, HandoffStatuses
      <3>2. PICK k \in StoredRun :
              /\ k.preparedAt = Kept[r].preparedAt
              /\ k.handoff = [approval |-> a, status |-> status]
              /\ k.handoff # None
              /\ k.reservation = None
              /\ Persisted(r, a, status) = [Kept EXCEPT ![r] = k]
        BY <2>4, <3>1, PersistedRun
      <3>3. runs' = [Kept EXCEPT ![r] = k]
        BY <2>4, <3>2
      <3>4. k.handoff.approval = a
        BY <3>2
      <3>5. Kept[r].handoff # None => IsRecoverable(Kept[r].handoff, a)
        BY <2>4 DEF CanPersist
      <3>6. k.reservation = None /\ k.handoff # None
        BY <3>2
      <3>7. consumedProposalKeys' = consumedProposalKeys \cup {r}
        BY <2>4
      <3>8. QED
        BY <1>1, <2>1, <3>1, <3>3, <3>4, <3>5, <3>6, <3>7, PersistInv
    <2>5. QED
      BY <2>2, <2>3, <2>4
  <1>4. QED
    BY <1>2, <1>3

(* A recovery that begins or ends: nobody else executes anything else.     *)
LEMMA RecoverInv ==
  ASSUME RunsInv, RecoveryInv, NEW h \in Handlers, RecoverHandoff(h) \/ FinishRecovery(h)
  PROVE  RunsInv' /\ \A q \in Runners : Stays(q)
  <1>1. /\ clock' = clock /\ runs' \in {runs, Kept}
        /\ UNCHANGED <<mode, consumedProposalKeys, runner, correction>>
    BY DEF RecoverHandoff, FinishRecovery, storeVars
  <1>2. execution \in [Handlers -> Execution \cup {None}]
    BY DEF RunsInv, RunsTyped
  <1>3. PICK e \in Execution \cup {None} :
          /\ execution' = [execution EXCEPT ![h] = e]
          /\ e # None => e.recovers
          /\ execution[h] # None => execution[h].recovers
    <2>1. CASE RecoverHandoff(h)
      <3>1. PICK r \in Runners :
              /\ CanRecover(r)
              /\ execution' = [execution EXCEPT ![h] =
                   [run |-> r, approval |-> authorized[r], recovers |-> TRUE]]
        BY <2>1 DEF RecoverHandoff
      <3>2. authorized[r] \in Approvals
        BY <3>1 DEF CanRecover, RecoveryInv
      <3>3. PICK e : e = [run |-> r, approval |-> authorized[r], recovers |-> TRUE]
        OBVIOUS
      <3>4. e \in Execution /\ e.recovers
        BY <3>2, <3>3 DEF Execution
      <3>5. QED
        BY <2>1, <3>1, <3>3, <3>4 DEF RecoverHandoff
    <2>2. CASE FinishRecovery(h)
      BY <2>2 DEF FinishRecovery
    <2>3. QED
      BY <2>1, <2>2
  <1>4. /\ execution' \in [Handlers -> Execution \cup {None}]
        /\ execution'[h] = e
        /\ \A i \in Handlers \ {h} : execution'[i] = execution[i]
    BY <1>2, <1>3
  <1>5. \A q \in Runners, i \in Handlers :
          /\ Executes(i, q)' <=> Executes(i, q)
          /\ Executes(i, q) => execution'[i] = execution[i]
    BY <1>3, <1>4 DEF Executes
  <1>6. runs' \in [Runners -> StoredRun \cup {None}]
    BY <1>1, KeptTyped DEF RunsInv, RunsTyped
  <1>7. RunsTyped'
    BY <1>1, <1>4, <1>6 DEF RunsInv, RunsTyped
  <1>8. Kept' = Kept
    BY <1>1 DEF Kept
  <1>9. \A q \in Runners : (runs'[q] # None => runs[q] # None /\ runs'[q] = runs[q])
    BY <1>1, KeptTyped DEF RunsInv
  <1>10. \A q \in Runners : RunOK(q)' /\ Stays(q)
    <2>1. \A q \in Runners : RunOK(q)'
      BY <1>1, <1>5, <1>8, <1>9, RunUntouched DEF RunsInv
    <2>2. QED
      BY <2>1, <1>9 DEF Stays
  <1>11. QED
    BY <1>7, <1>10 DEF RunsInv

(* The step that begins a request, and the steps that end it unsaved.      *)
LEMMA OtherInv ==
  ASSUME RunsInv, clock \in Nat,
         \/ \E r \in Runners : RequestRun(r) \/ ModelFails(r)
         \/ \E h \in Handlers : AuthorizeTransfer(h)
         \/ RefuseHandoff \/ Tick \/ UNCHANGED vars
  PROVE  RunsInv' /\ \A q \in Runners : Stays(q)
  <1>1. CASE RefuseHandoff
    <2>1. /\ clock' = clock /\ runs' = Kept
          /\ UNCHANGED <<mode, consumedProposalKeys, execution, runner, correction>>
      BY <1>1 DEF RefuseHandoff, requestVars
    <2>2. RunsTyped'
      BY <2>1, KeptTyped DEF RunsInv, RunsTyped
    <2>3. QED
      BY <2>1, <2>2, ExpireInv
  <1>2. CASE Tick \/ UNCHANGED vars \/ \E h \in Handlers : AuthorizeTransfer(h)
    <2>1. /\ clock' \in {clock, clock + 1}
          /\ UNCHANGED <<runs, mode, consumedProposalKeys, execution, runner, correction>>
      BY <1>2 DEF Tick, AuthorizeTransfer, vars, storeVars, requestVars
    <2>2. RunsTyped'
      BY <2>1 DEF RunsInv, RunsTyped
    <2>3. QED
      BY <2>1, <2>2, IdleInv
  <1>3. CASE \E r \in Runners : RequestRun(r) \/ ModelFails(r)
    <2>1. PICK r \in Runners : RequestRun(r) \/ ModelFails(r)
      BY <1>3
    <2>2. /\ clock' = clock
          /\ UNCHANGED <<runs, mode, consumedProposalKeys, execution, correction>>
          /\ runner[r] # "done"
          /\ \E s \in {"thinking", "done"} : runner' = [runner EXCEPT ![r] = s]
      BY <2>1 DEF RequestRun, ModelFails, storeVars
    <2>3. /\ runner' \in [Runners -> {"idle", "thinking", "done"}]
          /\ \A q \in Runners : runner[q] = "done" => runner'[q] = "done"
      BY <2>2 DEF RunsInv, RunsTyped
    <2>4. RunsTyped'
      BY <2>2, <2>3 DEF RunsInv, RunsTyped
    <2>5. QED
      BY <2>2, <2>3, <2>4, IdleInv
  <1>4. QED
    BY <1>1, <1>2, <1>3

LEMMA RunsNextInv ==
  ASSUME RunsInv, RecoveryInv, clock \in Nat, [Next]_vars
  PROVE  RunsInv' /\ \A q \in Runners : Stays(q)
  <1>1. CASE \E r \in Runners : SaveRun(r)
    BY <1>1, SaveRunInv
  <1>2. CASE \E c \in Correctors : BeginCorrection(c) \/ FinishCorrection(c)
    BY <1>2, CorrectionInv
  <1>3. CASE RejectHandoff
    BY <1>3, RejectInv
  <1>4. CASE MockHandoff
    BY <1>4, MockInv
  <1>5. CASE \E h \in Handlers : BeginHandoff(h)
    BY <1>5, BeginHandoffInv
  <1>6. CASE \E h \in Handlers : FinishHandoff(h) \/ HandoffFails(h)
    BY <1>6, EndHandoffInv
  <1>7. CASE \/ \E r \in Runners : RequestRun(r) \/ ModelFails(r)
             \/ \E h \in Handlers : AuthorizeTransfer(h)
             \/ RefuseHandoff \/ Tick \/ UNCHANGED vars
    BY <1>7, OtherInv
  <1>8. CASE \E h \in Handlers : RecoverHandoff(h) \/ FinishRecovery(h)
    BY <1>8, RecoverInv
  <1>9. QED
    BY <1>1, <1>2, <1>3, <1>4, <1>5, <1>6, <1>7, <1>8 DEF Next

(* A run that is over, and has left memory, never comes back to it.        *)
LEMMA NeverReturns ==
  ASSUME RunsInv, [Next]_vars, NEW q \in Runners, runner[q] = "done"
  PROVE  /\ runner'[q] = "done"
         /\ runs[q] = None => runs'[q] = None
  <1>1. runner \in [Runners -> {"idle", "thinking", "done"}]
    BY DEF RunsInv, RunsTyped
  <1>2. runs[q] = None => Kept[q] = None
    BY DEF Kept
  <1>3. CASE \E r \in Runners : RequestRun(r) \/ SaveRun(r) \/ ModelFails(r)
    <2>1. PICK r \in Runners : RequestRun(r) \/ SaveRun(r) \/ ModelFails(r)
      BY <1>3
    <2>2. r # q /\ \E x : runner' = [runner EXCEPT ![r] = x]
      BY <2>1 DEF RequestRun, SaveRun, ModelFails
    <2>3. runs' \in {runs, Kept, [Kept EXCEPT ![r] = NewRun]}
      BY <2>1 DEF RequestRun, SaveRun, ModelFails, storeVars
    <2>4. runs'[q] \in {runs[q], Kept[q]}
      BY <2>2, <2>3, KeptTyped DEF RunsInv
    <2>5. QED
      BY <1>1, <1>2, <2>2, <2>4
  <1>4. CASE \E c \in Correctors : BeginCorrection(c) \/ FinishCorrection(c)
    <2>1. PICK c \in Correctors : BeginCorrection(c) \/ FinishCorrection(c)
      BY <1>4
    <2>2. runner' = runner
      BY <2>1 DEF BeginCorrection, FinishCorrection
    <2>3. runs' = Kept \/ (Kept[correction[c].run] # None /\ runs' = ReplaceRun(correction[c].run, correction[c].now))
      BY <2>1 DEF BeginCorrection, FinishCorrection
    <2>4. runs[q] = None => runs'[q] = None
      BY <1>2, <2>3, KeptTyped DEF RunsInv, ReplaceRun
    <2>5. QED
      BY <2>2, <2>4
  <1>5. CASE \/ RejectHandoff \/ MockHandoff
             \/ \E h \in Handlers : BeginHandoff(h)
    <2>1. runner' = runner
      BY <1>5 DEF RejectHandoff, MockHandoff, BeginHandoff, requestVars
    <2>2. PICK r, k : Kept[r] # None /\ runs' = [Kept EXCEPT ![r] = k]
      BY <1>5 DEF RejectHandoff, MockHandoff, BeginHandoff, Persisted, StoredRuns
    <2>3. QED
      BY <1>2, <2>1, <2>2, KeptTyped DEF RunsInv
  <1>6. CASE \E h \in Handlers : FinishHandoff(h) \/ HandoffFails(h)
    <2>1. PICK h \in Handlers : FinishHandoff(h) \/ HandoffFails(h)
      BY <1>6
    <2>2. runner' = runner
      BY <2>1 DEF FinishHandoff, HandoffFails
    <2>3. runs' = Kept \/ \E r, k : Kept[r] # None /\ runs' = [Kept EXCEPT ![r] = k]
      BY <2>1 DEF FinishHandoff, HandoffFails, Persisted, Released, CanPersist
    <2>4. QED
      BY <1>2, <2>2, <2>3, KeptTyped DEF RunsInv
  <1>7. CASE \/ RefuseHandoff \/ Tick \/ UNCHANGED vars
             \/ \E h \in Handlers : AuthorizeTransfer(h) \/ RecoverHandoff(h) \/ FinishRecovery(h)
    <2>1. runner' = runner /\ runs' \in {runs, Kept}
      BY <1>7 DEF RefuseHandoff, Tick, AuthorizeTransfer, RecoverHandoff, FinishRecovery,
                  vars, storeVars, requestVars
    <2>2. QED
      BY <1>2, <2>1
  <1>8. QED
    BY <1>3, <1>4, <1>5, <1>6, <1>7 DEF Next

(* What has been authorized stays authorized, for the same approval.       *)
LEMMA AuthorizedStays ==
  ASSUME RunsInv, RecoveryInv, [Next]_vars
  PROVE  /\ authorized' \in [Runners -> Approvals \cup {None}]
         /\ \A q \in Runners : authorized[q] # None => authorized'[q] = authorized[q]
  <1>1. CASE authorized' = authorized
    BY <1>1 DEF RecoveryInv
  <1>2. CASE \E h \in Handlers : AuthorizeTransfer(h)
    <2>1. PICK h \in Handlers : AuthorizeTransfer(h)
      BY <1>2
    <2>2. PICK r, a : r = execution[h].run /\ a = execution[h].approval
      OBVIOUS
    <2>3. r \in Runners /\ a \in Approvals
      <3>1. execution[h] \in Execution
        BY <2>1 DEF AuthorizeTransfer, RunsInv, RunsTyped
      <3>2. QED
        BY <2>2, <3>1 DEF Execution
    <2>4. authorized[r] = None /\ authorized' = [authorized EXCEPT ![r] = a]
      BY <2>1, <2>2 DEF AuthorizeTransfer
    <2>5. QED
      BY <2>3, <2>4 DEF RecoveryInv
  <1>3. QED
    BY <1>1, <1>2 DEF Next, vars, RequestRun, SaveRun, ModelFails, BeginCorrection,
      FinishCorrection, RefuseHandoff, RejectHandoff, MockHandoff, BeginHandoff,
      FinishHandoff, HandoffFails, RecoverHandoff, FinishRecovery, Tick

(* Only the transfer of a run that is over is authorized.                  *)
LEMMA AuthorizedIsOver ==
  ASSUME RunsInv, RecoveryInv, [Next]_vars, NEW q \in Runners, authorized'[q] # None
  PROVE  runner'[q] = "done"
  <1>1. CASE authorized[q] # None
    <2>1. runner[q] = "done"
      BY <1>1 DEF RecoveryInv
    <2>2. QED
      BY <2>1, NeverReturns
  <1>2. CASE authorized[q] = None
    <2>1. authorized' # authorized
      BY <1>2
    <2>2. PICK h \in Handlers : AuthorizeTransfer(h)
      BY <2>1 DEF Next, vars, RequestRun, SaveRun, ModelFails, BeginCorrection,
        FinishCorrection, RefuseHandoff, RejectHandoff, MockHandoff, BeginHandoff,
        FinishHandoff, HandoffFails, RecoverHandoff, FinishRecovery, Tick
    <2>3. execution[h] # None /\ execution[h].run = q
      BY <1>2, <2>2 DEF AuthorizeTransfer, RecoveryInv
    <2>4. Executes(h, q)
      <3>1. execution[h].recovers \in BOOLEAN
        <4>1. execution[h] \in Execution
          BY <2>3 DEF RunsInv, RunsTyped
        <4>2. QED
          BY <4>1 DEF Execution
      <3>2. ~execution[h].recovers
        BY <1>2, <2>3, <3>1 DEF RecoveryInv
      <3>3. QED
        BY <2>3, <3>2 DEF Executes
    <2>5. runner[q] = "done"
      BY <2>4 DEF RunsInv, RunOK
    <2>6. QED
      BY <2>5, NeverReturns
  <1>3. QED
    BY <1>1, <1>2

LEMMA RecoveryNextInv ==
  ASSUME RunsInv, RecoveryInv, [Next]_vars
  PROVE  RecoveryInv'
  <1>1. execution \in [Handlers -> Execution \cup {None}]
    BY DEF RunsInv, RunsTyped
  <1>2. ASSUME NEW h \in Handlers, execution'[h] # None, execution'[h].recovers,
               execution'[h] = execution[h]
        PROVE  LET q == execution'[h].run
               IN  /\ runs'[q] = None
                   /\ runner'[q] = "done"
                   /\ authorized'[q] # None
                   /\ execution'[h].approval = authorized'[q]
    <2>1. PICK q : q = execution[h].run
      OBVIOUS
    <2>2. q \in Runners
      <3>1. execution[h] \in Execution
        BY <1>1, <1>2
      <3>2. QED
        BY <2>1, <3>1 DEF Execution
    <2>3. /\ runs[q] = None /\ runner[q] = "done" /\ authorized[q] # None
          /\ execution[h].approval = authorized[q]
      BY <1>2, <2>1 DEF RecoveryInv
    <2>4. /\ runs'[q] = None /\ runner'[q] = "done"
          /\ authorized'[q] = authorized[q]
      BY <2>2, <2>3, NeverReturns, AuthorizedStays
    <2>5. QED
      BY <1>2, <2>1, <2>3, <2>4
  <1>3. CASE \E h \in Handlers : RecoverHandoff(h)
    <2>1. PICK h \in Handlers, r \in Runners :
            /\ CanRecover(r)
            /\ execution' = [execution EXCEPT ![h] =
                 [run |-> r, approval |-> authorized[r], recovers |-> TRUE]]
            /\ runs' = Kept /\ runner' = runner /\ authorized' = authorized
      BY <1>3 DEF RecoverHandoff
    <2>2. /\ execution'[h] = [run |-> r, approval |-> authorized[r], recovers |-> TRUE]
          /\ \A i \in Handlers \ {h} : execution'[i] = execution[i]
      BY <1>1, <2>1
    <2>3. runs'[r] = None /\ authorized'[r] # None /\ runner'[r] = "done"
      <3>1. authorized[r] # None /\ Kept[r] = None
        BY <2>1 DEF CanRecover
      <3>2. runner[r] = "done"
        BY <3>1 DEF RecoveryInv
      <3>3. QED
        BY <2>1, <3>1, <3>2
    <2>4. ASSUME NEW i \in Handlers, execution'[i] # None, execution'[i].recovers
          PROVE  LET q == execution'[i].run
                 IN  /\ runs'[q] = None
                     /\ runner'[q] = "done"
                     /\ authorized'[q] # None
                     /\ execution'[i].approval = authorized'[q]
      <3>1. CASE i = h
        BY <2>1, <2>2, <2>3, <3>1
      <3>2. CASE i # h
        BY <1>2, <2>2, <2>4, <3>2
      <3>3. QED
        BY <3>1, <3>2
    <2>5. QED
      BY <2>4, AuthorizedStays, AuthorizedIsOver DEF RecoveryInv
  <1>4. CASE ~\E h \in Handlers : RecoverHandoff(h)
    <2>1. \A h \in Handlers : execution'[h] # None /\ execution'[h].recovers =>
            execution'[h] = execution[h]
      <3>1. CASE \E i \in Handlers : BeginHandoff(i)
        <4>1. PICK i \in Handlers :
                \E e : ~e.recovers /\ execution' = [execution EXCEPT ![i] = e]
          BY <3>1 DEF BeginHandoff
        <4>2. PICK e : ~e.recovers /\ execution' = [execution EXCEPT ![i] = e]
          BY <4>1
        <4>3. QED
          BY <1>1, <4>2
      <3>2. CASE \E i \in Handlers : FinishHandoff(i) \/ HandoffFails(i) \/ FinishRecovery(i)
        <4>1. PICK i \in Handlers : execution' = [execution EXCEPT ![i] = None]
          BY <3>2 DEF FinishHandoff, HandoffFails, FinishRecovery
        <4>2. QED
          BY <1>1, <4>1
      <3>3. CASE execution' = execution
        BY <3>3
      <3>4. QED
        BY <1>4, <3>1, <3>2, <3>3 DEF Next, vars, RequestRun, SaveRun, ModelFails,
          BeginCorrection, FinishCorrection, RefuseHandoff, RejectHandoff, MockHandoff,
          AuthorizeTransfer, Tick, requestVars
    <2>2. QED
      BY <1>2, <2>1, AuthorizedStays, AuthorizedIsOver DEF RecoveryInv
  <1>5. QED
    BY <1>3, <1>4

LEMMA RunsInitInv == Init => RunsInv
  <1> SUFFICES ASSUME Init PROVE RunsInv
    OBVIOUS
  <1>1. RunsTyped
    BY DEF Init, RunsTyped
  <1>2. \A q \in Runners : runs[q] = None /\ Kept[q] = None
    BY DEF Init, Kept
  <1>3. \A q \in Runners, h \in Handlers : ~Executes(h, q)
    BY DEF Init, Executes
  <1>4. QED
    BY <1>1, <1>2, <1>3 DEF RunsInv, RunOK

LEMMA RecoveryInitInv == Init => RecoveryInv
  BY DEF Init, RecoveryInv

IInv == AccessInv /\ RunsInv /\ RecoveryInv

LEMMA IInvStep ==
  ASSUME IInv, [Next]_vars
  PROVE  IInv' /\ \A q \in Runners : Stays(q)
  <1>1. clock \in Nat
    BY DEF IInv, AccessInv, AccessTypeOK
  <1>2. QED
    BY <1>1, AccessNextInv, RunsNextInv, RecoveryNextInv DEF IInv

LEMMA InvariantHolds == Spec => []IInv
  <1>1. Init => IInv
    BY AccessInitInv, RunsInitInv, RecoveryInitInv DEF Init, IInv
  <1>2. IInv /\ [Next]_vars => IInv'
    BY IInvStep
  <1>3. QED
    BY <1>1, <1>2, PTL DEF Spec

(* The store and the requests in progress are always well formed, for any  *)
(* number of them and any limits.                                          *)
THEOREM RunsAlwaysTyped == Spec => []RunsTypeOK
  <1>1. IInv => RunsTypeOK
    BY DEF IInv, AccessInv, RunsInv, RunsTyped, RecoveryInv, RunsTypeOK
  <1>2. QED
    BY <1>1, InvariantHolds, PTL

(* However many handoffs, recoveries, corrections and rejected approvals   *)
(* of a run are in progress, one reserved transfer of it is executed at a  *)
(* time, the one the run is reserved for; what is executed beside it was   *)
(* recovered after the run left memory (handoff/route.ts:36), and is for   *)
(* the approval that was authorized.  The step needed is that a run that   *)
(* has left memory never returns to it.                                    *)
THEOREM OneExecutionAtATime == Spec => []OneExecution
  <1>1. IInv => OneExecution
    BY OneExecutionHolds DEF IInv
  <1>2. QED
    BY <1>1, InvariantHolds, PTL

(* None of the checks with which the store receives the outcome of a       *)
(* transfer fails for the transfer that is executed.                       *)
THEOREM OutcomesCanBeStored == Spec => []OutcomeCanBeStored
  <1>1. IInv => OutcomeCanBeStored
    BY OutcomeCanBeStoredHolds DEF IInv
  <1>2. QED
    BY <1>1, InvariantHolds, PTL

(* A stored handoff keeps its approval, and a final one its outcome.       *)
THEOREM HandoffsStay == Spec => HandoffStays
  <1> DEFINE Step == \A r \in Runners :
               runs[r] # None /\ runs'[r] # None =>
                 LET before == runs[r].handoff
                     after == runs'[r].handoff
                 IN before # None =>
                      /\ after # None
                      /\ after.approval = before.approval
                      /\ before.status \notin Recoverable => after.status = before.status
  <1>1. IInv /\ [Next]_vars => [Step]_vars
    <2> SUFFICES ASSUME IInv, [Next]_vars PROVE Step
      OBVIOUS
    <2>1. \A q \in Runners : Stays(q)
      BY IInvStep
    <2>2. QED
      BY <2>1 DEF Stays
  <1>2. QED
    BY <1>1, InvariantHolds, PTL DEF Spec, HandoffStays
=============================================================================
