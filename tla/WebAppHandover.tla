---------------------------- MODULE WebAppHandover ----------------------------
(***************************************************************************)
(* Two managers at once: a leader that stalls in the middle of a pass      *)
(* loses its lease, another process starts with fresh informers, and the   *)
(* first one goes on with its pass, from caches that no longer move, until *)
(* it notices and exits.  It works on the same server, so its variables    *)
(* instantiate the controller's a second time.                             *)
(***************************************************************************)
EXTENDS ControllerProperties

VARIABLES
  oldPc, oldKind, oldApp, oldFresh, oldLocked, oldHold, oldWant, oldErr,
  oldMetered, oldCachedObjs, oldCachedScale,
  oldCachedApp, oldAppFresh, oldQueued, oldDelayed   \* of no use any more

\* It starts no further pass, so nothing reads its queue and its WebApp cache.
idleVars == <<oldCachedApp, oldAppFresh, oldQueued, oldDelayed>>

oldPassVars == <<oldPc, oldKind, oldApp, oldLocked, oldHold, oldWant, oldErr,
                 oldMetered, oldCachedObjs, oldCachedScale, idleVars>>

handoverVars == <<vars, oldFresh, oldPassVars>>

Old == INSTANCE WebAppController
         WITH pc <- oldPc, kind <- oldKind, app <- oldApp, fresh <- oldFresh,
              locked <- oldLocked, hold <- oldHold, want <- oldWant,
              err <- oldErr, metered <- oldMetered,
              cachedObjs <- oldCachedObjs, cachedScale <- oldCachedScale,
              cachedApp <- oldCachedApp, appFresh <- oldAppFresh,
              queued <- oldQueued, delayed <- oldDelayed

NoOldPass ==
  [pc |-> "idle", kind |-> "Deployment", app |-> None, fresh |-> FALSE,
   locked |-> FALSE, hold |-> None, want |-> NoStatus, err |-> "none",
   metered |-> FALSE, objs |-> [k \in Kinds |-> None], scale |-> NoScale]

OldPass ==
  [pc |-> oldPc, kind |-> oldKind, app |-> oldApp, fresh |-> oldFresh,
   locked |-> oldLocked, hold |-> oldHold, want |-> oldWant, err |-> oldErr,
   metered |-> oldMetered, objs |-> oldCachedObjs, scale |-> oldCachedScale]

\* The pass the current leader is in, with the caches it reads.
Pass ==
  [pc |-> pc, kind |-> kind, app |-> app, fresh |-> fresh, locked |-> locked,
   hold |-> hold, want |-> want, err |-> err, metered |-> metered,
   objs |-> cachedObjs, scale |-> cachedScale]

OldBecomes(pass) ==
  /\ oldPc' = pass.pc /\ oldKind' = pass.kind /\ oldApp' = pass.app
  /\ oldFresh' = pass.fresh /\ oldLocked' = pass.locked /\ oldHold' = pass.hold
  /\ oldWant' = pass.want /\ oldErr' = pass.err /\ oldMetered' = pass.metered
  /\ oldCachedObjs' = pass.objs /\ oldCachedScale' = pass.scale
  /\ UNCHANGED idleVars

HandoverInit ==
  /\ Init
  /\ oldPc = "idle" /\ oldKind = "Deployment" /\ oldApp = None
  /\ oldFresh = FALSE /\ oldLocked = FALSE /\ oldHold = None
  /\ oldWant = NoStatus /\ oldErr = "none" /\ oldMetered = FALSE
  /\ oldCachedObjs = [k \in Kinds |-> None] /\ oldCachedScale = NoScale
  /\ oldCachedApp = None /\ oldAppFresh = FALSE
  /\ oldQueued = FALSE /\ oldDelayed = TRUE

\* What the new leader starts with is what a restarted process starts with. A
\* stall before a step that reads only the caches is one after it.
LoseLease ==
  /\ pc \notin {"idle", "observe"} /\ oldPc = "idle"
  /\ Crash
  /\ OldBecomes(Pass)

\* A write of either manager outdates the copies of the other.
OldStep ==
  /\ \/ Old!AddFinalizer \/ Old!EnforceScalePolicy \/ Old!AssertAdoptable
     \/ Old!Apply \/ Old!DeleteOwned \/ Old!Observe \/ Old!UpdateStatus
     \/ Old!RemoveFinalizer
  /\ appFresh' = (appFresh /\ webapp' = webapp)
  /\ fresh' = (fresh /\ webapp' = webapp)
  /\ UNCHANGED <<cachedApp, cachedObjs, cachedScale, queueVars, pc, kind, app,
                 locked, hold, want, err, metered>>

OldStops ==
  /\ OldPass # NoOldPass
  /\ OldBecomes(NoOldPass)
  /\ UNCHANGED vars

\* Its caches are of no use after the pass, so it exits before anything else.
NewStep ==
  /\ Next
  /\ oldPc # "idle" \/ OldPass = NoOldPass
  /\ oldFresh' = (oldFresh /\ webapp' = webapp)
  /\ UNCHANGED oldPassVars

HandoverNext == NewStep \/ LoseLease \/ OldStep \/ OldStops

HandoverSpec == HandoverInit /\ [][HandoverNext]_handoverVars

===============================================================================
