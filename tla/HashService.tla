---------------------------- MODULE HashService ----------------------------
(***************************************************************************)
(* What the hash accelerator promises to the software that drives it: it   *)
(* takes the words of one message, in order, and then publishes one        *)
(* digest, which covers only words that it took and stays until the        *)
(* accelerator is reset for another job.  A digest is kept symbolically as *)
(* the words it covers; which digests a job may be answered with, once so  *)
(* many words were taken, is up to the way the job is fed.                 *)
(***************************************************************************)
EXTENDS Naturals

CONSTANTS Jobs,          \* the jobs the software can ask for
          Length(_),     \* number of words of the message of a job
          Answers(_, _), \* digests a job may get after so many words
          NoDigest       \* nothing published yet

VARIABLES task,          \* the job in hand
          taken,         \* how many words of the message were accepted
          published      \* the digest, once there is one

serviceVars == <<task, taken, published>>

ServiceInit ==
  /\ task \in Jobs
  /\ taken = 0
  /\ published = NoDigest

(* Words of the message arrive; a digest of those that were there appears,
   if none did before. *)
Serve ==
  /\ taken' \in taken .. Length(task)
  /\ \/ UNCHANGED published
     \/ published = NoDigest /\ published' \in Answers(task, taken)
  /\ UNCHANGED task

(* The software gives up the job, finished or not, and asks for another. *)
Abandon ==
  /\ task' \in Jobs
  /\ taken' = 0
  /\ published' = NoDigest

ServiceNext == Serve \/ Abandon

ServiceSpec == ServiceInit /\ [][ServiceNext]_serviceVars
============================================================================
