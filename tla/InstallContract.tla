-------------------------- MODULE InstallContract --------------------------
(***************************************************************************)
(* What one run of the privileged service promises, without its control    *)
(* points, events or threads: a request is refused or admitted; an         *)
(* admitted one makes progress operation by operation and holds resources  *)
(* (mounts) on the way; it may stop early; then everything held is         *)
(* released, newest first, or is known to have leaked; and only then is    *)
(* there a verdict.  InstallEngine implements this specification.          *)
(***************************************************************************)
EXTENDS Naturals

CONSTANTS N, HasUndo

VARIABLES
  sound,     \* request, machine and plan passed every check (fixed)
  stage,     \* "checking" -> "executing" -> "releasing" -> "over"
  progress,  \* operations completed
  held,      \* operations whose resource is still acquired
  leaked,    \* the held ones whose release was tried and failed
  cause,     \* why execution stopped early, if it did
  verdict    \* what the run ended with

vars == <<sound, stage, progress, held, leaked, cause, verdict>>

Init ==
  /\ sound \in BOOLEAN
  /\ stage = "checking"
  /\ progress = 0
  /\ held = {}
  /\ leaked = {}
  /\ cause = "none"
  /\ verdict = "none"

Refuse ==
  /\ stage = "checking"
  /\ stage' = "over"
  /\ verdict' = "failed"
  /\ UNCHANGED <<sound, progress, held, leaked, cause>>

Admit ==
  /\ stage = "checking"
  /\ sound
  /\ stage' = "executing"
  /\ UNCHANGED <<sound, progress, held, leaked, cause, verdict>>

Advance ==
  /\ stage = "executing"
  /\ progress < N
  /\ progress' = progress + 1
  /\ held' = held \union ({progress + 1} \intersect HasUndo)
  /\ UNCHANGED <<sound, stage, leaked, cause, verdict>>

Stop ==
  /\ stage = "executing"
  /\ stage' = "releasing"
  /\ IF progress = N THEN cause' = "none"
                     ELSE cause' \in {"failed", "cancelled"}
  /\ UNCHANGED <<sound, progress, held, leaked, verdict>>

\* Newest first: nothing acquired later is still waiting for its release.
Release ==
  /\ stage = "releasing"
  /\ \E op \in held \ leaked :
       /\ \A later \in held \ leaked : later <= op
       /\ \/ held' = held \ {op} /\ UNCHANGED leaked
          \/ leaked' = leaked \union {op} /\ UNCHANGED held
  /\ UNCHANGED <<sound, stage, progress, cause, verdict>>

\* A leak outranks everything but an operation's own failure.
Conclude ==
  /\ stage = "releasing"
  /\ held = leaked
  /\ stage' = "over"
  /\ verdict' = CASE cause = "failed" \/ leaked # {} -> "failed"
                  [] cause = "cancelled" /\ leaked = {} -> "cancelled"
                  [] OTHER -> "completed"
  /\ UNCHANGED <<sound, progress, held, leaked, cause>>

\* The process dies: no verdict, and whatever is held stays held.
Die ==
  /\ stage # "over"
  /\ stage' = "over"
  /\ verdict' = "lost"
  /\ UNCHANGED <<sound, progress, held, leaked, cause>>

Next == \/ Refuse \/ Admit \/ Advance \/ Stop \/ Release \/ Conclude \/ Die

Spec == Init /\ [][Next]_vars
=============================================================================
