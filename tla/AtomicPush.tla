------------------------------ MODULE AtomicPush -------------------------------
(***************************************************************************)
(* What a push of a configuration promises the rest of the panel: it is    *)
(* all or nothing.  The configuration in force on a node changes only to   *)
(* the one being pushed, at most once per push; a push reported as done    *)
(* has landed, one reported as failed has not and never will.  Only a push *)
(* whose connection was lost may do either, and the panel cannot tell.     *)
(*                                                                         *)
(* The promise has two limits.  A machine that goes down, or runs out of   *)
(* space, in the middle of a push may be left with half a file.  And it is *)
(* a promise to pushes that come one after the other: of a script that a   *)
(* lost connection left running, and of those that meet it, nothing is     *)
(* promised until they are over and another operation begins.              *)
(*                                                                         *)
(* ConfigSync builds on this promise; Deployment keeps it with a shell     *)
(* script on a machine whose service and power may fail at any moment.     *)
(***************************************************************************)

CONSTANTS
  Configs,  \* generated configurations
  Torn,     \* half a configuration
  None      \* no configuration

VARIABLES
  inForce,  \* the configuration the node starts its service with
  push      \* the last push: what it brings, what it found, how it was answered

vars == <<inForce, push>>

MaybeFile == Configs \cup {Torn, None}

Done(a) == [config |-> None, before |-> None, answer |-> a]

Init ==
  /\ inForce \in MaybeFile
  /\ push = Done("failed")

Begin(c) ==
  /\ push = Done(push.answer)
  /\ push' = [config |-> c, before |-> inForce, answer |-> "none"]
  /\ UNCHANGED inForce

\* The one change of a push, made while the panel waits or after it gave up.
Land ==
  /\ push.config # None /\ push.answer \in {"none", "lost"}
  /\ inForce = push.before
  /\ inForce' = push.config
  /\ UNCHANGED push

\* The machine stops in the middle of a push.
Break ==
  /\ push.config # None /\ push.answer \in {"none", "lost"}
  /\ inForce = push.before
  /\ inForce' = Torn
  /\ UNCHANGED push

Succeed ==
  /\ push.answer = "none" /\ inForce = push.config
  /\ push' = Done("pushed")
  /\ UNCHANGED inForce

Fail ==
  /\ push.answer = "none" /\ inForce \in {push.before, Torn}
  /\ push' = Done("failed")
  /\ UNCHANGED inForce

Lose ==
  /\ push.answer = "none"
  /\ push' = [push EXCEPT !.answer = "lost"]
  /\ UNCHANGED inForce

\* A push that was lost comes to nothing any more.
Settle ==
  /\ push.config # None
  /\ push' = Done("lost")
  /\ UNCHANGED inForce

\* Operations on the node run at the same time.
Meet ==
  /\ push' = Done("met")
  /\ inForce' \in MaybeFile

\* They are over.
Part ==
  /\ push = Done("met")
  /\ push' = Done("lost")
  /\ UNCHANGED inForce

Next ==
  \/ \E c \in Configs : Begin(c)
  \/ Land \/ Break \/ Succeed \/ Fail \/ Lose \/ Settle \/ Meet \/ Part

Spec == Init /\ [][Next]_vars

=============================================================================
