----------------------------- MODULE PixelPipes -----------------------------
(***************************************************************************)
(* The two pictures of the darkroom, the one in the centre ("full") and    *)
(* the preview, from which the agent's renders are taken.  An edit, of the *)
(* agent or of the user, raises flags in both pixel pipes; drawing the     *)
(* view asks for a run of the pipes whose flags or time stamps are behind; *)
(* each pipe runs on a worker thread of its own (JobQueue), may be         *)
(* interrupted by further edits, and ends with another redraw.  The flags  *)
(* are plain fields that both sides assign without a lock.                 *)
(*                                                                         *)
(* One image is open and loaded.  The picture in the second window, the    *)
(* caches of the pipes and their forced flush are left out.                *)
(***************************************************************************)
EXTENDS Naturals

CONSTANTS
  MaxHistory,  \* bound: edits
  MaxView,     \* bound: pans and zooms of the centre
  MaxStamp     \* bound: edits and invalidations of the centre

ASSUME PipeAssumption == {MaxHistory, MaxView, MaxStamp} \subseteq Nat

Pipes == {"full", "preview"}

VARIABLES
  history,   \* the version of the history
  view,      \* the version of the viewport of the centre
  stamp,     \* dev->timestamp
  gui,       \* where the main loop is in an edit or a redraw
  redraw,    \* a redraw of the centre is queued
  status,    \* pipe->status
  changed,   \* pipe->changed has TOP_CHANGED, SYNCH or REMOVE
  zoomed,    \* full.pipe->changed has ZOOMED
  seen,      \* pipe->input_timestamp
  asked,     \* the reserved worker of the pipe has a new job
  at,        \* where the pipe's worker is
  nodes,     \* the version of the history in the nodes of the pipe
  region,    \* the version of the viewport that the run of the full pipe is for
  picture,   \* what the backbuf shows: a version of both
  missed     \* history: the pipe called its result valid over a pending change

guiVars == <<history, view, gui, redraw>>
flagVars == <<stamp, status, changed, zoomed, seen>>
workVars == <<asked, at, nodes, region, picture, missed>>
pixelVars == <<guiVars, flagVars, workVars>>

PipesInit ==
  /\ history = 0 /\ view = 0 /\ stamp = 0
  /\ gui = "idle" /\ redraw = FALSE
  /\ status = [p \in Pipes |-> "valid"]
  /\ changed = [p \in Pipes |-> FALSE] /\ zoomed = FALSE
  /\ seen = [p \in Pipes |-> 0]
  /\ asked = [p \in Pipes |-> FALSE]
  /\ at = [p \in Pipes |-> "idle"]
  /\ nodes = [p \in Pipes |-> 0] /\ region = 0
  /\ picture = [p \in Pipes |-> [of |-> 0, view |-> 0]]
  /\ missed = [p \in Pipes |-> FALSE]

-----------------------------------------------------------------------------
(* The main loop.                                                          *)

\* The history is written and the pipes are told, under history_mutex, ...
Edit ==
  /\ gui = "idle" /\ history < MaxHistory /\ stamp < MaxStamp
  /\ history' = history + 1
  /\ changed' = [p \in Pipes |-> TRUE]
  /\ gui' = "edited"
  /\ UNCHANGED <<view, redraw, stamp, status, zoomed, seen, workVars>>

\* ... and then dt_dev_invalidate_all, under it too: both pipes are dirty, ...
DirtyAll ==
  /\ gui = "edited"
  /\ status' = [p \in Pipes |-> "dirty"]
  /\ gui' = "dirtied"
  /\ UNCHANGED <<history, view, redraw, stamp, changed, zoomed, seen, workVars>>

\* ... the time goes on, and the view is to be drawn again.
StampAll ==
  /\ gui = "dirtied"
  /\ stamp' = stamp + 1
  /\ gui' = "idle" /\ redraw' = TRUE
  /\ UNCHANGED <<history, view, status, changed, zoomed, seen, workVars>>

HistoryIsLocked == gui \in {"edited", "dirtied"}

\* The user pans or zooms.
Pan ==
  /\ gui = "idle" /\ view < MaxView
  /\ view' = view + 1
  /\ redraw' = TRUE
  /\ UNCHANGED <<history, gui, flagVars, workVars>>

\* dt_dev_invalidate: the full pipe is dirty, ...
DirtyCenter ==
  /\ gui = "idle" /\ stamp < MaxStamp
  /\ status' = [status EXCEPT !["full"] = "dirty"]
  /\ gui' = "recentred"
  /\ UNCHANGED <<history, view, redraw, stamp, changed, zoomed, seen, workVars>>

\* ... and the preview is taken for as new as the time.
StampCenter ==
  /\ gui = "recentred"
  /\ stamp' = stamp + 1
  /\ seen' = [seen EXCEPT !["preview"] = stamp + 1]
  /\ gui' = "idle" /\ redraw' = TRUE
  /\ UNCHANGED <<history, view, status, changed, zoomed, workVars>>

\* expose(): a picture that does not fit the viewport is to be zoomed.
Paint ==
  /\ gui = "idle" /\ redraw
  /\ redraw' = FALSE
  /\ gui' = "painted"
  /\ IF picture["full"].view # view
     THEN /\ zoomed' = TRUE
          /\ status' = [status EXCEPT !["full"] = IF @ = "valid" THEN "dirty" ELSE @]
     ELSE UNCHANGED <<zoomed, status>>
  /\ UNCHANGED <<history, view, stamp, changed, seen, workVars>>

FullRequest == status["full"] = "dirty" \/ seen["full"] < seen["preview"]

\* Mutant: the time stamps are not compared.
PreviewIsDirty == status["preview"] = "dirty"

PreviewRequest == status["preview"] = "dirty" \/ seen["full"] > seen["preview"]

\* A job for a pipe replaces one that its worker has not taken.  A full pipe
\* that is processing is not asked: it looks at its flags itself.
AskFull ==
  /\ gui = "painted"
  /\ asked' = [asked EXCEPT !["full"] = @ \/ (FullRequest /\ at["full"] # "process")]
  /\ gui' = "full asked"
  /\ UNCHANGED <<history, view, redraw, flagVars, at, nodes, region, picture, missed>>

AskPreview ==
  /\ gui = "full asked"
  /\ asked' = [asked EXCEPT !["preview"] = @ \/ PreviewRequest]
  /\ gui' = "idle"
  /\ UNCHANGED <<history, view, redraw, flagVars, at, nodes, region, picture, missed>>

-----------------------------------------------------------------------------
(* dt_dev_process_image_job, on the worker of a pipe.                      *)

Goes(p, here, there) == at[p] = here /\ at' = [at EXCEPT ![p] = there]

Pending(p) == changed[p] \/ (p = "full" /\ zoomed)

TakeJob(p) ==
  /\ asked[p] /\ Goes(p, "idle", "begin")
  /\ asked' = [asked EXCEPT ![p] = FALSE]
  /\ UNCHANGED <<guiVars, flagVars, nodes, region, picture, missed>>

Begin(p) ==
  /\ Goes(p, "begin", "restart")
  /\ seen' = [seen EXCEPT ![p] = stamp]
  /\ status' = [status EXCEPT ![p] = "running"]
  /\ UNCHANGED <<guiVars, stamp, changed, zoomed, asked, nodes, region, picture,
                 missed>>

Restart(p) ==
  /\ Goes(p, "restart", IF Pending(p) THEN "change" ELSE "fit")
  /\ seen' = IF p = "full" THEN [seen EXCEPT ![p] = stamp] ELSE seen
  /\ UNCHANGED <<guiVars, stamp, status, changed, zoomed, asked, nodes, region,
                 picture, missed>>

\* dt_dev_pixelpipe_change, under history_mutex.
Synch(p) ==
  /\ Goes(p, "change", "fit") /\ ~HistoryIsLocked
  /\ nodes' = [nodes EXCEPT ![p] = IF changed[p] THEN history ELSE @]
  /\ changed' = [changed EXCEPT ![p] = FALSE]
  /\ zoomed' = (zoomed /\ p # "full")
  /\ missed' = [missed EXCEPT ![p] = FALSE]
  /\ UNCHANGED <<guiVars, stamp, status, seen, asked, region, picture>>

Fit(p) ==
  /\ Goes(p, "fit", "process")
  /\ region' = IF p = "full" THEN view ELSE region
  /\ UNCHANGED <<guiVars, flagVars, asked, nodes, picture, missed>>

\* dt_iop_breakpoint between two modules.
Abort(p) ==
  /\ Goes(p, "process", "aborted") /\ Pending(p)
  /\ UNCHANGED <<guiVars, flagVars, asked, nodes, region, picture, missed>>

Complete(p) ==
  /\ Goes(p, "process", "completed")
  /\ picture' = [picture EXCEPT ![p] = [of |-> nodes[p],
                                        view |-> IF p = "full" THEN region ELSE 0]]
  /\ UNCHANGED <<guiVars, flagVars, asked, nodes, region, missed>>

Again(p) == p = "full" /\ Pending(p)

\* The full pipe starts again if there was an edit in the meantime.
Settle(p) ==
  /\ at[p] \in {"aborted", "completed"}
  /\ at' = [at EXCEPT ![p] = IF Again(p) THEN "restart" ELSE "end"]
  /\ redraw' = (redraw \/ (Again(p) /\ at[p] = "completed"))
  /\ UNCHANGED <<history, view, gui, flagVars, asked, nodes, region, picture,
                 missed>>

CallValid(p) ==
  /\ Goes(p, "end", "idle")
  /\ status' = [status EXCEPT ![p] = "valid"]
  /\ missed' = [missed EXCEPT ![p] = @ \/ Pending(p)]
  /\ redraw' = TRUE
  /\ UNCHANGED <<history, view, gui, stamp, changed, zoomed, seen, asked, nodes,
                 region, picture>>

-----------------------------------------------------------------------------
PipeStep(p) ==
  \/ TakeJob(p) \/ Begin(p) \/ Restart(p) \/ Synch(p) \/ Fit(p)
  \/ Abort(p) \/ Complete(p) \/ Settle(p) \/ CallValid(p)

\* What the main loop does of its own accord.
GuiStep ==
  DirtyAll \/ StampAll \/ StampCenter \/ Paint \/ AskFull \/ AskPreview

PipesNext ==
  \/ Edit \/ Pan \/ DirtyCenter
  \/ GuiStep
  \/ \E p \in Pipes : PipeStep(p)

PipesFairness == WF_pixelVars(GuiStep) /\ \A p \in Pipes : WF_pixelVars(PipeStep(p))

PipesSpec == PipesInit /\ [][PipesNext]_pixelVars /\ PipesFairness

IsCurrent(p) == picture[p] = [of |-> history, view |-> IF p = "full" THEN view ELSE 0]

Other(p) == IF p = "full" THEN "preview" ELSE "full"

-----------------------------------------------------------------------------
(* What holds of the flags at all times.                                   *)

PipesTypeOK ==
  /\ {history, view, stamp} \subseteq Nat
  /\ gui \in {"idle", "edited", "dirtied", "recentred", "painted", "full asked"}
  /\ redraw \in BOOLEAN
  /\ status \in [Pipes -> {"valid", "dirty", "running"}]
  /\ changed \in [Pipes -> BOOLEAN] /\ zoomed \in BOOLEAN
  /\ seen \in [Pipes -> Nat]
  /\ asked \in [Pipes -> BOOLEAN]
  /\ at \in [Pipes -> {"idle", "begin", "restart", "change", "fit", "process",
                       "aborted", "completed", "end"}]
  /\ nodes \in [Pipes -> Nat] /\ region \in Nat
  /\ picture \in [Pipes -> [of : Nat, view : Nat]]
  /\ missed \in [Pipes -> BOOLEAN]

\* The main loop is still to look whether the pipe is behind.
WillAsk(p) ==
  \/ redraw
  \/ gui \in {"edited", "dirtied", "recentred", "painted"}
  \/ p = "preview" /\ gui = "full asked"

Works(p) == at[p] # "idle"

DirtyIsAsked ==
  \A p \in Pipes : status[p] = "dirty" => WillAsk(p) \/ asked[p] \/ Works(p)

RunningWorks == \A p \in Pipes : status[p] = "running" => Works(p)

\* A pending change has a dirty pipe, or a run that may still see it, or a run
\* that has called its result valid over it.
PendingIsKnown ==
  \A p \in Pipes : Pending(p) =>
    gui = "edited" \/ status[p] = "dirty" \/ Works(p) \/ missed[p]

BehindIsAsked ==
  \A p \in Pipes : seen[p] < seen[Other(p)] =>
    WillAsk(p) \/ asked[p] \/ Works(p) \/ Works(Other(p))

NodesAreCurrent == \A p \in Pipes : changed[p] \/ nodes[p] = history

PictureOfNodes ==
  \A p \in Pipes :
    \/ Pending(p)
    \/ picture[p].of = nodes[p] /\ at[p] # "aborted"
    \/ at[p] \in {"fit", "process"}

PictureOfView ==
  /\ picture["preview"].view = 0
  /\ \/ picture["full"].view = view
     \/ redraw \/ Pending("full")
     \/ at["full"] \in {"fit", "process", "completed", "end"}

PipesInv ==
  /\ PipesTypeOK
  /\ DirtyIsAsked /\ RunningWorks /\ PendingIsKnown /\ BehindIsAsked
  /\ NodesAreCurrent /\ PictureOfNodes /\ PictureOfView

AtRest ==
  gui = "idle" /\ ~redraw /\ \A p \in Pipes : ~asked[p] /\ ~Works(p)

(***************************************************************************)
(* Where neither the main loop nor a worker has a step left, a pipe whose  *)
(* picture is out of date has called it valid over a change that had just  *)
(* come (develop.c:520), and the pipes agree on how new they are, so that  *)
(* neither would be asked for the sake of the other: what PicturesFollow   *)
(* ends in, without the fairness that leads there.                         *)
(***************************************************************************)
RestIsSettled ==
  AtRest => /\ seen["full"] = seen["preview"]
            /\ \A p \in Pipes : IsCurrent(p) \/ missed[p]

(***************************************************************************)
(* When the user and the agent have made their edits, the pipes come to    *)
(* rest, and both pictures show the history and the viewport as they are:  *)
(* no edit is lost between a flag and a run, no redraw between a request   *)
(* and a worker that is busy, and the pipes do not ask for each other for  *)
(* ever.  A pipe may call its result valid over an edit that has just come *)
(* (develop.c:520); it is then asked for again if the other pipe has taken *)
(* a later time.                                                           *)
(***************************************************************************)
PicturesFollow ==
  <>[](\A p \in Pipes :
         IsCurrent(p) \/ (missed[p] /\ seen[Other(p)] <= seen[p]))
=============================================================================
