----------------------------- MODULE MCJobQueue -----------------------------
(***************************************************************************)
(* Instances of JobQueue: four jobs and five assignments of them to the    *)
(* queues, one per question.                                               *)
(***************************************************************************)
EXTENDS JobQueue

CONSTANTS j1, j2, j3, j4, w1, w2, zoom

MCWork == [j \in Jobs |-> IF j \in {j1, j2} THEN j1 ELSE j]

Goes(a, b, c, d) ==
  [j \in Jobs |-> CASE j = j1 -> a [] j = j2 -> b [] j = j3 -> c [] j = j4 -> d]

\* Two equal thumbnail jobs and two more.
Thumbnails == Goes(SystemFg, SystemFg, SystemFg, SystemFg)

\* Two exports and foreground jobs.
Exports == Goes(UserExport, UserExport, UserFg, Nowhere)

\* A background job against foreground jobs that never end.
Background == Goes(UserBg, UserFg, UserFg, SystemFg)

\* Two redraws for one reserved worker, beside a thumbnail.
Redraws == Goes(zoom, zoom, SystemFg, Nowhere)

\* The chat request (USER_BG) that may be cancelled, and a Lua job.
Chat == Goes(SystemBg, Nowhere, Nowhere, UserBg)

MCTargets == {Thumbnails, Exports, Background, Redraws, Chat}

\* One worker where the queues matter and two where they compete.
MCCrew ==
  [g \in MCTargets |->
     CASE g = Redraws -> {zoom, w1}
       [] g \in {Background, Chat} -> {w1}
       [] OTHER -> {w1, w2}]
=============================================================================
