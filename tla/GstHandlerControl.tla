-------------------------- MODULE GstHandlerControl --------------------------
(***************************************************************************)
(* GstHandlerControl.cpp and .h: callbacks of GStreamer threads are counted *)
(* while they are inside, and a thread that tears the player down disables  *)
(* them and waits until the count is zero or a time limit is reached.       *)
(*                                                                         *)
(* Every method holds mSync for its whole body, so each is one action; what *)
(* matters is what may happen between two of them: a callback is counted    *)
(* first (getScopeHelper) and only then asks whether it is enabled          *)
(* (returnStraightAway).                                                    *)
(***************************************************************************)
EXTENDS Integers, FiniteSets

CONSTANTS
  Handlers,    \* threads that may run the callback
  Waiters      \* threads that may call waitForDone and enable

ASSUME HandlersAssumption == IsFiniteSet(Handlers)

VARIABLES
  mEnabled,
  mInstanceCount,
  handler,     \* where each callback is: "out", "counted", "body", "leaving"
  waiter,      \* where each waitForDone is: "idle", "test", "waiting"
  expired,     \* the waiter's time limit has passed
  done         \* history: waitForDone returned true, not enabled since

vars == <<mEnabled, mInstanceCount, handler, waiter, expired, done>>

TypeOK ==
  /\ mEnabled \in BOOLEAN
  /\ mInstanceCount \in Nat
  /\ handler \in [Handlers -> {"out", "counted", "body", "leaving"}]
  /\ waiter \in [Waiters -> {"idle", "test", "waiting"}]
  /\ expired \in [Waiters -> BOOLEAN]
  /\ done \in BOOLEAN

Init ==
  /\ mEnabled = TRUE
  /\ mInstanceCount = 0
  /\ handler = [h \in Handlers |-> "out"]
  /\ waiter = [w \in Waiters |-> "idle"]
  /\ expired = [w \in Waiters |-> FALSE]
  /\ done = FALSE

HandlerGoes(h, from, to) ==
  handler[h] = from /\ handler' = [handler EXCEPT ![h] = to]

getScopeHelper(h) ==
  /\ HandlerGoes(h, "out", "counted")
  /\ mInstanceCount' = mInstanceCount + 1
  /\ UNCHANGED <<mEnabled, waiter, expired, done>>

\* Faulty variant: the answer is not looked at.
returnStraightAway_Ignored(h) ==
  /\ HandlerGoes(h, "counted", "body")
  /\ UNCHANGED <<mEnabled, mInstanceCount, waiter, expired, done>>

\* HANDLER_CONTROL_HELPER: the body is entered only if enabled.
returnStraightAway(h) ==
  /\ HandlerGoes(h, "counted", IF mEnabled THEN "body" ELSE "leaving")
  /\ UNCHANGED <<mEnabled, mInstanceCount, waiter, expired, done>>

BodyEnds(h) ==
  /\ HandlerGoes(h, "body", "leaving")
  /\ UNCHANGED <<mEnabled, mInstanceCount, waiter, expired, done>>

Sleeping == {w \in Waiters : waiter[w] = "waiting"}

\* Faulty variants: no waiter is notified; a helper that was moved from still
\* ends the callback (line 32 forgotten).
handlerEnd_NoNotify(h) ==
  /\ HandlerGoes(h, "leaving", "out")
  /\ mInstanceCount' = IF mInstanceCount > 0 THEN mInstanceCount - 1 ELSE 0
  /\ UNCHANGED <<mEnabled, waiter, expired, done>>

\* ~ScopeHelper: one fewer (never below zero), and mDoneCond.notify_one()
\* wakes one of the sleeping waiters.
handlerEnd(h) ==
  /\ HandlerGoes(h, "leaving", "out")
  /\ mInstanceCount' = IF mInstanceCount > 0 THEN mInstanceCount - 1 ELSE 0
  /\ IF Sleeping = {}
     THEN UNCHANGED waiter
     ELSE \E w \in Sleeping : waiter' = [waiter EXCEPT ![w] = "test"]
  /\ UNCHANGED <<mEnabled, expired, done>>

\* SignalConnect, and the creation of the bus, enable again.
enable(w) ==
  /\ waiter[w] = "idle"
  /\ mEnabled' = TRUE
  /\ done' = FALSE
  /\ UNCHANGED <<mInstanceCount, handler, waiter, expired>>

\* disable() on its own, as Stop calls it before it waits.
disable(w) ==
  /\ waiter[w] = "idle"
  /\ mEnabled' = FALSE
  /\ UNCHANGED <<mInstanceCount, handler, waiter, expired, done>>

\* waitForDone, lines 63-68.
waitBegins(w) ==
  /\ waiter[w] = "idle"
  /\ waiter' = [waiter EXCEPT ![w] = "test"]
  /\ expired' = [expired EXCEPT ![w] = FALSE]
  /\ mEnabled' = FALSE
  /\ UNCHANGED <<mInstanceCount, handler, done>>

\* Line 72: it waits while there are instances and there is time left.
waitUntil(w) ==
  /\ waiter[w] = "test"
  /\ mInstanceCount # 0 /\ ~expired[w]
  /\ waiter' = [waiter EXCEPT ![w] = "waiting"]
  /\ UNCHANGED <<mEnabled, mInstanceCount, handler, expired, done>>

\* Lines 77-84: it returns whether no instance is left.
waitForDone(w) ==
  /\ waiter[w] = "test"
  /\ mInstanceCount = 0 \/ expired[w]
  /\ waiter' = [waiter EXCEPT ![w] = "idle"]
  /\ done' = (done \/ (mInstanceCount = 0 /\ ~mEnabled))
  /\ UNCHANGED <<mEnabled, mInstanceCount, handler, expired>>

\* The time limit passes; a sleeping waiter wakes up.
Expire(w) ==
  /\ waiter[w] \in {"test", "waiting"}
  /\ expired' = [expired EXCEPT ![w] = TRUE]
  /\ waiter' = [waiter EXCEPT ![w] = "test"]
  /\ UNCHANGED <<mEnabled, mInstanceCount, handler, done>>

\* mDoneCond.wait_until returns for no reason.
SpuriousWake(w) ==
  /\ waiter[w] = "waiting"
  /\ waiter' = [waiter EXCEPT ![w] = "test"]
  /\ UNCHANGED <<mEnabled, mInstanceCount, handler, expired, done>>

Handler(h) ==
  getScopeHelper(h) \/ returnStraightAway(h) \/ BodyEnds(h) \/ handlerEnd(h)

Waiter(w) ==
  \/ enable(w) \/ disable(w) \/ waitBegins(w) \/ waitUntil(w) \/ waitForDone(w)
  \/ Expire(w) \/ SpuriousWake(w)

Next == (\E h \in Handlers : Handler(h)) \/ (\E w \in Waiters : Waiter(w))

\* A callback that was entered runs to its end and a waiter that can go on
\* does.  Nothing is assumed of the time limit: it only has to be long enough.
Fairness ==
  /\ \A h \in Handlers : WF_vars(returnStraightAway(h) \/ BodyEnds(h) \/ handlerEnd(h))
  /\ \A w \in Waiters : WF_vars(waitUntil(w) \/ waitForDone(w))

Spec == Init /\ [][Next]_vars
FairSpec == Spec /\ Fairness

-----------------------------------------------------------------------------
Inside == {h \in Handlers : handler[h] # "out"}

\* The count is the number of callbacks inside, so that it never has to be
\* corrected (lines 40-44) and reaches zero only when all have left.
CountIsExact == mInstanceCount = Cardinality(Inside)

\* Once waitForDone has returned true no callback is in its body until enable
\* is called, although callbacks go on arriving.
NothingAfterDone == done => \A h \in Handlers : handler[h] # "body"

\* Once callbacks stop arriving a waiter returns as soon as those inside have
\* left: it is notified, and does not sleep until its time limit.
ReturnsWithoutExpiry ==
  \A w \in Waiters :
    (waiter[w] = "waiting" /\ [](\A h \in Handlers : handler[h] # "counted"))
      ~> (waiter[w] = "idle")
=============================================================================
