------------------------------ MODULE JobLife ------------------------------
(***************************************************************************)
(* What the back end promises about the life of a job, whichever programs  *)
(* are at work on it: a result that was created is sent at most once, ends *)
(* and is archived, and never goes back; the canonical result is one that  *)
(* has ended, is chosen once, and is never replaced.                       *)
(***************************************************************************)
EXTENDS Naturals

CONSTANT Ids      \* the ids of results

VARIABLES
    life,         \* how far each result has come
    canonical     \* the canonical result, or 0

lifeVars == <<life, canonical>>

Stage == {"NONE", "UNSENT", "IN_PROGRESS", "OVER", "PURGED"}

LifeInit == life = [r \in Ids |-> "NONE"] /\ canonical = 0

(* A statement may move several results, each of them from the same stages. *)
Move(S, from, to) ==
    /\ \A r \in S : life[r] \in from
    /\ life' = [r \in Ids |-> IF r \in S THEN to ELSE life[r]]
    /\ UNCHANGED canonical

Create(S) == Move(S, {"NONE"}, "UNSENT")
Send(r)   == Move({r}, {"UNSENT"}, "IN_PROGRESS")
End(S)    == Move(S, {"UNSENT", "IN_PROGRESS"}, "OVER")
Archive(r) == Move({r}, {"UNSENT", "IN_PROGRESS", "OVER"}, "PURGED")

Choose(c) ==
    /\ canonical = 0 /\ life[c] \in {"OVER", "PURGED"}
    /\ canonical' = c /\ UNCHANGED life

LifeNext ==
    \/ \E S \in SUBSET Ids : Create(S) \/ End(S)
    \/ \E r \in Ids : Send(r) \/ Archive(r) \/ Choose(r)

LifeSpec == LifeInit /\ [][LifeNext]_lifeVars
=============================================================================
