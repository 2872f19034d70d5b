---------------------------- MODULE MCChangeControl ----------------------------
(* Small instances of ChangeControl: a reviewer who exists after the first  *)
(* request, one fix of one case, two patches of which one makes it safe.    *)
EXTENDS ChangeControl, TLC

CONSTANTS ann, f1, good, bad, c1, c2, shaft,
          mkUser, propose, repropose, approve, event, event2, resolve, sign

Wishes(o) ==
    CASE o = mkUser    -> [kind |-> "user", user |-> ann, role |-> "reviewer"]
      [] o = propose   -> [kind |-> "hole", fix |-> f1, patch |-> good]
      [] o = repropose -> [kind |-> "hole", fix |-> f1, patch |-> bad]
      [] o = approve   -> [kind |-> "approve", fix |-> f1, user |-> ann]
      [] o = event     -> [kind |-> "event", key |-> shaft]
      [] o = event2    -> [kind |-> "event", key |-> shaft]
      [] o = resolve   -> [kind |-> "resolve", order |-> <<shaft, 0>>, fix |-> f1, patch |-> good]
      [] o = sign      -> [kind |-> "sign", user |-> ann, fix |-> f1, meaning |-> "reviewed", patch |-> good]

MCRequest == [o \in Ops |-> Wishes(o)]
MCNear == [k \in Keys |-> IF k = shaft THEN {c1, c2} ELSE {}]
MCDist == [k \in Keys |-> [c \in Cases |-> IF c = c1 THEN 0 ELSE 1]]
MCMakesSafe == {<<shaft, good>>}
OneLink == {<<c1, f1>>}
SharedFix == {<<c1, f1>>, <<c2, f1>>}
===============================================================================
