---------------------------- MODULE ManagedWebApp ----------------------------
(***************************************************************************)
(* What the operator promises about a WebApp, without caches, passes,      *)
(* calls or failures: it owns objects only while it is protected by its    *)
(* finalizer, the generation it reports is one it has had and never goes   *)
(* back, and once it was protected it goes away only after every object it *)
(* owns has been let go of, but for those knowingly missed.                *)
(***************************************************************************)
EXTENDS Integers

CONSTANTS Kinds, None

VARIABLES
  app,      \* None, or the WebApp: its uid, generation, stage and report
  owns,     \* the pairs <<uid, kind>> of an object and who controls it
  missed,   \* the pairs a termination has seen nothing of
  nextUid

vars == <<app, owns, missed, nextUid>>

Stages == {"plain", "protected", "terminating"}

WebApp == [uid : Nat, gen : Nat, stage : Stages, reported : Nat]

Init == app = None /\ owns = {} /\ missed = {} /\ nextUid = 1

Alive == app # None

Guarded == Alive /\ app.stage # "plain"

Create ==
  /\ app = None
  /\ app' = [uid |-> nextUid, gen |-> 1, stage |-> "plain", reported |-> 0]
  /\ nextUid' = nextUid + 1
  /\ UNCHANGED <<owns, missed>>

Edit ==
  /\ Alive
  /\ app' = [app EXCEPT !.gen = app.gen + 1]
  /\ UNCHANGED <<owns, missed, nextUid>>

Protect ==
  /\ Alive
  /\ app.stage = "plain"
  /\ app' = [app EXCEPT !.stage = "protected"]
  /\ UNCHANGED <<owns, missed, nextUid>>

\* Without protection it is gone at once.
Terminate ==
  /\ Alive
  /\ \/ app.stage = "plain" /\ app' = None
     \/ /\ app.stage = "protected"
        /\ app' = [app EXCEPT !.stage = "terminating", !.gen = app.gen + 1]
  /\ UNCHANGED <<owns, missed, nextUid>>

Report ==
  /\ Guarded
  /\ \E g \in app.reported .. app.gen : app' = [app EXCEPT !.reported = g]
  /\ UNCHANGED <<owns, missed, nextUid>>

OfOtherKinds(k) == {pair \in owns : pair[2] # k}

\* An object is created or taken over for the WebApp.
Acquire(k) ==
  /\ Guarded
  /\ owns' = OfOtherKinds(k) \cup {<<app.uid, k>>}
  /\ UNCHANGED <<app, missed, nextUid>>

\* An object is deleted, by whomever.
Lose(k) ==
  /\ owns' = OfOtherKinds(k)
  /\ UNCHANGED <<app, missed, nextUid>>

\* Also of a WebApp that is gone already, whose termination is done again.
Miss(k) ==
  /\ \E uid \in 0 .. nextUid - 1 :
       /\ (Alive /\ app.uid = uid) => app.stage = "terminating"
       /\ missed' = missed \cup {<<uid, k>>}
  /\ UNCHANGED <<app, owns, nextUid>>

Release ==
  /\ Alive
  /\ app.stage = "terminating"
  /\ \A k \in Kinds : <<app.uid, k>> \in owns => <<app.uid, k>> \in missed
  /\ app' = None
  /\ UNCHANGED <<owns, missed, nextUid>>

Next ==
  \/ Create \/ Edit \/ Protect \/ Terminate \/ Report \/ Release
  \/ \E k \in Kinds : Acquire(k) \/ Lose(k) \/ Miss(k)

Spec == Init /\ [][Next]_vars

==============================================================================
