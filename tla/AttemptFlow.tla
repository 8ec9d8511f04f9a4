---------------------------- MODULE AttemptFlow ----------------------------
(***************************************************************************)
(* One tab of the web application: the free and the verified training      *)
(* screens, the history screen, the session storage that outlives them,    *)
(* and the upload and polling hooks the two trainings share.               *)
(*                                                                         *)
(* An action is one handler: a button, an effect that sends a request, or  *)
(* the arrival of an answer with the render it causes.  What the page      *)
(* remembers of a request is kept with the request: `heard` while its      *)
(* controller is the active one and is not aborted, and `current` while    *)
(* neither the flow nor the upload generation has moved since it was sent  *)
(* (they only grow, and only a reconciliation outlives a move of either).  *)
(*                                                                         *)
(* The server answers about the training it was asked about and in its     *)
(* mode: the branches for other answers are left out, as are progress,     *)
(* focus, messages and the length of the polling pause.                    *)
(***************************************************************************)
EXTENDS AttemptServer

CONSTANTS
  Modes,       \* "free" and "verified", of the trainings of the tab
  MaxUploads,  \* bound: uploads begun
  MaxVisits    \* bound: times the training screen is opened

ASSUME FlowAssumption ==
  /\ Modes \subseteq {"free", "verified"}
  /\ MaxUploads \in Nat /\ MaxVisits \in Nat

VARIABLES
  mode,     \* of the trainings of this behaviour
  page,     \* the screen and its state; nothing of it survives a reload
  storage,  \* sessionStorage: "ok", "full" (no writes) or "gone"
  owner,    \* revelai.free-training.owner.v1
  intent,   \* revelai.free-training.create-intent.v1
  given,    \* origins whose training the athlete left for another
  spent     \* uploads, visits and keys so far

tabVars == <<storage, owner, intent>>
flowVars == <<serverVars, calls, faults, mode, page, tabVars, given, spent>>

Screens ==
  {"away", "creating", "challenge", "setup", "issuing", "readying", "capture",
   "uploading", "pending", "terminal", "deleting"}

(* Fresh state of a screen.  `notice` is a message the screen shows;       *)
(* `known` is the outcome last applied, `result` the terminal one shown,   *)
(* `cleanup` the history screen's ownershipCleanup, and `overtaken` notes  *)
(* that an upload began beside a reconciliation of the one before it.      *)
FreshPage(screen) ==
  [screen |-> screen, mine |-> NoTraining, session |-> NoOrigin,
   media |-> FALSE, known |-> "none", result |-> "none", notice |-> FALSE,
   started |-> FALSE, blocked |-> FALSE, dirty |-> FALSE,
   overtaken |-> FALSE, cleanup |-> NoTraining]
Beginning == IF mode = "free" THEN "creating" ELSE "challenge"

FlowInit ==
  /\ ServerInit
  /\ mode \in Modes /\ page = FreshPage("away")
  /\ storage = "ok" /\ owner = NoTraining /\ intent = NoOrigin
  /\ given = {}
  /\ spent = [uploads |-> 0, visits |-> 0, keys |-> 0]

-----------------------------------------------------------------------------
(* Requests and the render that follows a change of the page.              *)

Abort(cs, kinds) ==
  {c \in cs : c.kind \notin kinds}
    \cup UNION {Forgotten(c) : c \in {d \in cs : d.kind \in kinds}}
NewGeneration(cs) == {[c EXCEPT !.current = FALSE] : c \in cs}

(* isCurrent.  A bug: a reconciliation is applied whatever was sent after  *)
(* it.                                                                     *)
HeardIsEnough(c) == c.heard
Heeded(c) == c.heard /\ c.current

(* The clean-ups of the effects of a screen that is left.                  *)
Leaving(cs, screen) ==
  Abort(cs, (IF screen = "uploading" THEN {} ELSE {"upload"})
              \cup (IF screen = "pending" THEN {} ELSE {"poll"})
              \cup (IF screen = "capture" THEN {} ELSE {"create-verified"}))

Show(p, cs) ==
  /\ page' = p
  /\ calls' = Leaving(cs, p.screen)

(* resolveUploadReconciliation and applyUploadOutcome.                     *)
Applied(p, shown) ==
  CASE shown = "awaiting-upload" ->
         [p EXCEPT !.known = shown, !.screen = "capture"]
    [] shown = "received" ->
         [p EXCEPT !.known = shown, !.screen = "pending", !.media = FALSE]
    [] shown = "ended" ->
         [p EXCEPT !.known = shown, !.screen = "terminal", !.media = FALSE,
                   !.result = shown]

Succeeded(c) == c.reply.code = "ok"

-----------------------------------------------------------------------------
(* owner.ts: the storage of the tab.  A probe writes, reads and removes.   *)

Healthy == storage = "ok"
Removable == storage # "gone"

(* clearFreeTrainingOwnership: both removals are tried even if the probe   *)
(* fails; only a healthy storage makes it "cleared".                       *)
ClearOwnership ==
  /\ owner' = IF Removable THEN NoTraining ELSE owner
  /\ intent' = IF Removable THEN NoOrigin ELSE intent

(* Two bugs: any training's deletion clears what is stored; the key of an  *)
(* earlier try is not used again.                                          *)
OwnsAnything(t) == Healthy
NoStoredIntent == {}

(* clearFreeTrainingOwnershipForAttempt: probe, then match, then clear.    *)
Owns(t) == Healthy /\ owner = t
ClearOwnershipFor(t) ==
  IF Owns(t) THEN ClearOwnership ELSE UNCHANGED <<owner, intent>>

PersistOwner(t) == owner' = IF Healthy THEN t ELSE owner

(* beginFreeTrainingCreateIntent: a key is written once and used again.    *)
StoredIntent == {intent} \ {NoOrigin}

-----------------------------------------------------------------------------
(* The free training screen: create or recover.                            *)

Halted(p) == [p EXCEPT !.started = FALSE, !.notice = TRUE]
Blocked(p) == [Halted(p) EXCEPT !.blocked = TRUE]
MustClean(p) == [Blocked(p) EXCEPT !.dirty = TRUE]

(* create(), after a read of the owner found none or its training gone.    *)
BeginCreate(p, stored, cs) ==
  IF ~Healthy THEN Show(Blocked(p), cs) /\ UNCHANGED <<intent, spent>>
  ELSE \E key \in IF stored # {} THEN stored ELSE {spent.keys + 1} \cap Origins :
         /\ intent' = key
         /\ spent' = [spent EXCEPT !.keys = IF key > @ THEN key ELSE @]
         /\ Show(p, cs \cup {Sent("create", key)})

CreateOrRecover ==
  LET p == [page EXCEPT !.started = TRUE]
  IN /\ page.screen = "creating"
     /\ ~page.started /\ ~page.blocked /\ ~page.notice
     /\ IF storage # "gone" /\ owner # NoTraining
        THEN /\ Show(p, calls \cup {Sent("recover", owner)})
             /\ UNCHANGED <<intent, spent>>
        ELSE BeginCreate(p, StoredIntent, calls)
     /\ UNCHANGED <<serverVars, faults, mode, storage, owner, given>>

(* adopt                                                                   *)
Adopt(c) ==
  LET p == [page EXCEPT !.mine = c.reply.training]
  IN /\ Show(Applied(p, c.reply.shown), calls \ {c})
     /\ PersistOwner(c.reply.training)
     /\ UNCHANGED <<intent, spent>>

CreateAnswered(c) ==
  CASE Succeeded(c) -> Adopt(c)
    [] c.reply.code = "not-found" ->
         /\ ClearOwnership /\ UNCHANGED spent
         /\ Show(IF Healthy THEN [Blocked(page) EXCEPT !.dirty = FALSE]
                 ELSE MustClean(page), calls \ {c})
    [] OTHER -> /\ Show(Halted(page), calls \ {c})
                /\ UNCHANGED <<owner, intent, spent>>

RecoverAnswered(c) ==
  CASE Succeeded(c) -> Adopt(c)
    [] c.reply.code = "not-found" /\ Owns(c.of) ->
         /\ owner' = NoTraining
         /\ BeginCreate([page EXCEPT !.dirty = FALSE], {}, calls \ {c})
    [] c.reply.code = "not-found" /\ ~Owns(c.of) ->
         /\ Show(MustClean(page), calls \ {c})
         /\ UNCHANGED <<owner, intent, spent>>
    [] OTHER -> /\ Show(Halted(page), calls \ {c})
                /\ UNCHANGED <<owner, intent, spent>>

(* The button of a creating screen with a message.                         *)
TryAgain ==
  LET cleared == ~page.dirty \/ Healthy
  IN /\ page.screen = "creating" /\ page.notice
     /\ IF page.dirty THEN ClearOwnership ELSE UNCHANGED <<owner, intent>>
     /\ page' = IF cleared
                THEN [page EXCEPT !.dirty = FALSE, !.blocked = FALSE,
                                  !.started = FALSE, !.notice = FALSE]
                ELSE page
     /\ UNCHANGED <<serverVars, calls, faults, mode, storage, given, spent>>

-----------------------------------------------------------------------------
(* The verified training screen: set-up.                                   *)

PrepareChallenge ==
  /\ page.screen = "challenge"
  /\ page' = [page EXCEPT !.screen = "setup", !.notice = FALSE]
  /\ UNCHANGED <<serverVars, calls, faults, mode, tabVars, given, spent>>

(* "Continuar" at the last gate; the gates are the athlete's own word.     *)
IssueSessions ==
  /\ page.screen = "setup" /\ \E o \in Origins : session[o] = "none"
  /\ Show([page EXCEPT !.screen = "issuing", !.notice = FALSE],
          calls \cup {Sent("issue", NoOrigin)})
  /\ UNCHANGED <<serverVars, faults, mode, tabVars, given, spent>>

BackToSetup == [page EXCEPT !.screen = "setup", !.notice = TRUE]

IssueAnswered(c) ==
  IF Succeeded(c)
  THEN Show([page EXCEPT !.screen = "readying", !.session = c.reply.training],
            (calls \ {c}) \cup {Sent("ready", c.reply.training)})
  ELSE Show(BackToSetup, calls \ {c})
ReadyAnswered(c) ==
  Show(IF Succeeded(c) THEN [page EXCEPT !.screen = "capture"] ELSE BackToSetup,
       calls \ {c})

(* The capture screen asks for the attempt of its session.                 *)
CreateVerifiedAttempt ==
  /\ mode = "verified" /\ page.screen = "capture"
  /\ ~page.started /\ ~page.notice
  /\ Show([page EXCEPT !.started = TRUE],
          calls \cup {Sent("create-verified", page.session)})
  /\ UNCHANGED <<serverVars, faults, mode, tabVars, given, spent>>

CreateVerifiedAnswered(c) ==
  Show(IF Succeeded(c) THEN [page EXCEPT !.mine = c.reply.training]
       ELSE Halted(page), calls \ {c})

(* "Tentar preparar tentativa"                                             *)
PrepareAgain ==
  /\ mode = "verified" /\ page.screen = "capture"
  /\ page.mine = NoTraining /\ page.notice /\ ~page.started
  /\ page' = [page EXCEPT !.notice = FALSE]
  /\ UNCHANGED <<serverVars, calls, faults, mode, tabVars, given, spent>>

-----------------------------------------------------------------------------
(* Both screens: upload.                                                   *)

ChooseMedia ==
  /\ page.screen = "capture" /\ page.mine # NoTraining /\ ~page.media
  /\ page' = [page EXCEPT !.media = TRUE]
  /\ UNCHANGED <<serverVars, calls, faults, mode, tabVars, given, spent>>

(* The file is discarded, rejected or given up for a recording.            *)
DropMedia ==
  /\ page.screen = "capture" /\ page.media
  /\ page' = [page EXCEPT !.media = FALSE]
  /\ UNCHANGED <<serverVars, calls, faults, mode, tabVars, given, spent>>

(* "Enviar video", and the effect of the screen it leads to.               *)
SendUpload ==
  /\ page.screen = "capture" /\ page.media /\ spent.uploads < MaxUploads
  /\ spent' = [spent EXCEPT !.uploads = @ + 1]
  /\ Show([page EXCEPT !.screen = "uploading", !.notice = FALSE],
          NewGeneration(calls) \cup {Sent("upload", page.mine)})
  /\ UNCHANGED <<serverVars, faults, mode, tabVars, given>>

(* A recording that was going on ends, and the effect begins anew with it. *)
ReplaceMedia ==
  /\ mode = "verified" /\ page.screen = "uploading" /\ spent.uploads < MaxUploads
  /\ spent' = [spent EXCEPT !.uploads = @ + 1]
  /\ Show([page EXCEPT !.overtaken = @ \/ \E c \in calls : c.kind = "reconcile" /\ Heeded(c)],
          Abort(calls, {"upload"}) \cup {Sent("upload", page.mine)})
  /\ UNCHANGED <<serverVars, faults, mode, tabVars, given>>

(* reconcile: the request before it is aborted.                            *)
Reconciling(cs, t) == Abort(cs, {"reconcile"}) \cup {Sent("reconcile", t)}

CancelUpload ==
  /\ page.screen = "uploading"
  /\ Show([page EXCEPT !.screen = "capture", !.notice = TRUE],
          Reconciling(NewGeneration(calls), page.mine))
  /\ UNCHANGED <<serverVars, faults, mode, tabVars, given, spent>>

BackToCapture == [page EXCEPT !.screen = "capture", !.notice = TRUE]

(* isAmbiguousUploadError: already attached, or no answer at all.          *)
UploadAnswered(c) ==
  CASE Succeeded(c) -> Show(Applied(page, c.reply.shown), calls \ {c})
    [] c.reply.code \in {"duplicate", "lost"} ->
         Show(page, Reconciling(calls \ {c}, c.of))
    [] OTHER -> Show(BackToCapture, calls \ {c})

ReconcileAnswered(c) ==
  Show(IF Succeeded(c) THEN Applied(page, c.reply.shown) ELSE BackToCapture,
       calls \ {c})

-----------------------------------------------------------------------------
(* Both screens: polling.  A timer, the focus, the visibility or the       *)
(* button ask; one that finds a request in flight does nothing.            *)

(* A bug: a failed poll is not followed by another.                        *)
PollDueUntilItFails ==
  page.screen = "pending" /\ ~page.notice /\ ~\E c \in calls : c.kind = "poll"

PollDue == page.screen = "pending" /\ ~\E c \in calls : c.kind = "poll"

SendPoll ==
  /\ PollDue
  /\ Show(page, calls \cup {Sent("poll", page.mine)})
  /\ UNCHANGED <<serverVars, faults, mode, page, tabVars, given, spent>>

(* A pending answer only replaces the outcome, whatever its status.        *)
PollAnswered(c) ==
  Show(IF ~Succeeded(c) THEN [page EXCEPT !.notice = TRUE]
       ELSE IF c.reply.shown = "ended" THEN Applied(page, "ended")
       ELSE [page EXCEPT !.known = c.reply.shown, !.notice = FALSE],
       calls \ {c})

-----------------------------------------------------------------------------
(* Leaving a training.                                                     *)

(* "Comecar outro treino livre" and "Iniciar outro desafio".               *)
Reset ==
  LET fresh == FreshPage(Beginning)
      others == {"create", "recover", "delete", "poll"}
  IN /\ page.screen \in {"pending", "terminal"}
     /\ IF mode = "free" THEN ClearOwnership ELSE UNCHANGED <<owner, intent>>
     /\ given' = given \cup {origin[page.mine]}
     /\ Show(IF mode = "free" /\ ~Healthy THEN MustClean(fresh) ELSE fresh,
             NewGeneration(Abort(calls, others)))
     /\ UNCHANGED <<serverVars, faults, mode, storage, spent>>

DeleteTraining ==
  /\ mode = "free" /\ page.screen = "terminal" /\ page.result # "none"
  /\ Show([page EXCEPT !.screen = "deleting", !.notice = FALSE],
          calls \cup {Sent("delete", page.mine)})
  /\ UNCHANGED <<serverVars, faults, mode, tabVars, given, spent>>

(* A success leads to the history, unless the storage must be cleaned.     *)
DeleteAnswered(c) ==
  IF Succeeded(c)
  THEN /\ ClearOwnershipFor(c.of)
       /\ Show(IF Healthy THEN FreshPage("away") ELSE MustClean(FreshPage("creating")),
               calls \ {c})
  ELSE /\ Show([page EXCEPT !.screen = "terminal", !.notice = TRUE], calls \ {c})
       /\ UNCHANGED <<owner, intent>>

Open ==
  /\ page.screen = "away" /\ spent.visits < MaxVisits
  /\ spent' = [spent EXCEPT !.visits = @ + 1]
  /\ page' = FreshPage(Beginning)
  /\ UNCHANGED <<serverVars, calls, faults, mode, tabVars, given>>

(* Navigation, which a deletion begun in the history survives, or a reload. *)
Leave ==
  /\ page.screen # "away" \/ \E c \in calls : c.heard
  /\ page' = FreshPage("away")
  /\ \E kept \in {{}, {"erase"}} :
       calls' = {c \in calls : c.kind \in kept}
                  \cup UNION {Forgotten(c) : c \in {d \in calls : d.kind \notin kept}}
  /\ UNCHANGED <<serverVars, faults, mode, tabVars, given, spent>>

-----------------------------------------------------------------------------
(* The history screen: deletion.                                           *)

Erase(t) ==
  /\ page.screen = "away" /\ page.cleanup = NoTraining
  /\ status[t] # "none" /\ ~\E c \in calls : c.kind = "erase" /\ c.heard
  /\ calls' = calls \cup {Sent("erase", t)}
  /\ UNCHANGED <<serverVars, faults, mode, page, tabVars, given, spent>>

EraseAnswered(c) ==
  /\ calls' = calls \ {c}
  /\ page' = IF Succeeded(c) /\ ~Healthy /\ page.screen = "away"
             THEN [page EXCEPT !.cleanup = c.of] ELSE page
  /\ IF Succeeded(c) THEN ClearOwnershipFor(c.of) ELSE UNCHANGED <<owner, intent>>

(* "Concluir limpeza"                                                      *)
RetryCleanup ==
  /\ page.cleanup # NoTraining /\ Healthy
  /\ ClearOwnershipFor(page.cleanup)
  /\ page' = [page EXCEPT !.cleanup = NoTraining]
  /\ UNCHANGED <<serverVars, calls, faults, mode, storage, given, spent>>

-----------------------------------------------------------------------------
(* The storage, which only a free training uses, fails or works again.     *)
StorageChanges ==
  /\ mode = "free"
  /\ \/ storage = "ok" /\ storage' \in {"full", "gone"} /\ Fault
     \/ storage # "ok" /\ storage' = "ok" /\ UNCHANGED faults
  /\ UNCHANGED <<serverVars, calls, mode, page, owner, intent, given, spent>>

Handled(c) ==
  \/ c.kind = "create" /\ CreateAnswered(c)
  \/ c.kind = "recover" /\ RecoverAnswered(c)
  \/ /\ \/ c.kind = "delete" /\ DeleteAnswered(c)
        \/ c.kind = "erase" /\ EraseAnswered(c)
     /\ UNCHANGED spent
  \/ /\ \/ c.kind = "issue" /\ IssueAnswered(c)
        \/ c.kind = "ready" /\ ReadyAnswered(c)
        \/ c.kind = "create-verified" /\ CreateVerifiedAnswered(c)
        \/ c.kind = "upload" /\ UploadAnswered(c)
        \/ c.kind = "reconcile" /\ ReconcileAnswered(c)
        \/ c.kind = "poll" /\ PollAnswered(c)
     /\ UNCHANGED <<owner, intent, spent>>

Receive(c) ==
  /\ c.heard /\ Answered(c)
  /\ IF Heeded(c) THEN Handled(c)
     ELSE calls' = calls \ {c} /\ UNCHANGED <<page, owner, intent, spent>>
  /\ UNCHANGED <<serverVars, faults, mode, storage, given>>

ServerStep ==
  /\ \/ \E c \in calls : Serve(c) \/ FinishUpload(c) \/ FailUpload(c) \/ Refuse(c)
                         \/ LoseConnection(c) \/ Vanish(c)
     \/ \E t \in Trainings : Recover(t) \/ Analyse(t) \/ DeleteElsewhere(t)
  /\ UNCHANGED <<mode, page, tabVars, given, spent>>

PageStep ==
  \/ CreateOrRecover \/ TryAgain \/ PrepareChallenge \/ IssueSessions
  \/ CreateVerifiedAttempt \/ PrepareAgain \/ ChooseMedia \/ DropMedia
  \/ SendUpload \/ ReplaceMedia \/ CancelUpload \/ SendPoll \/ Reset \/ DeleteTraining \/ Open \/ Leave
  \/ \E t \in Trainings : Erase(t)
  \/ RetryCleanup

FlowNext ==
  \/ ServerStep \/ PageStep \/ StorageChanges
  \/ \E c \in calls : Receive(c)

FlowSpec == FlowInit /\ [][FlowNext]_flowVars

(* The timer polls, and its request is answered or fails in the end.       *)
PollProgress ==
  \/ SendPoll
  \/ \E c \in calls :
       /\ c.kind = "poll"
       /\ \/ Serve(c) /\ UNCHANGED <<mode, page, tabVars, given, spent>>
          \/ Receive(c)

FairFlowSpec == FlowSpec /\ WF_flowVars(PollProgress)

-----------------------------------------------------------------------------
(* Properties.                                                             *)

(* Types, and what a screen needs: an upload has its training and its      *)
(* file, a received one has given its file up, a result is a shown one.    *)
FlowTypeOK ==
  /\ ServerTypeOK
  /\ page.screen \in Screens /\ page.mine \in Trainings \cup {NoTraining}
  /\ storage \in {"ok", "full", "gone"}
  /\ owner \in Trainings \cup {NoTraining} /\ intent \in Origins \cup {NoOrigin}
  /\ page.screen = "uploading" => page.mine # NoTraining /\ page.media
  /\ page.screen = "pending" => page.mine # NoTraining /\ ~page.media
  /\ page.result # "none" => page.screen \in {"terminal", "deleting"}

(* Whatever fails (the connection, the storage, a reload in the middle) a  *)
(* free training of this tab that still exists is the one its next visit   *)
(* finds again, unless the athlete asked for another: the stored key is    *)
(* the key that made it.  Hence there is at most one (owner.ts,            *)
(* free-training/tracer.tsx, history.tsx).                                 *)
TrainingIsNeverLost ==
  mode = "free" =>
    \A t \in Trainings :
      Exists(t) /\ origin[t] \notin given => intent = origin[t]

(* A screen that showed an upload as received does not offer to upload for *)
(* the same training again: an earlier reconciliation, which may have read *)
(* the training before the upload, does not undo it (upload-lifecycle.ts), *)
(* unless that upload was of a recording which ended during the            *)
(* reconciliation and so began without a generation of its own.            *)
AcceptedUploadStays ==
  [][page.screen = "pending" /\ ~page.overtaken
       => page'.screen \notin {"capture", "uploading"}]_flowVars

(* A screen that waits for a training whose analysis has ended shows its   *)
(* result or is left, unless the training is deleted elsewhere, whatever   *)
(* polls fail and whoever triggers them (pending-polling.ts).              *)
PendingEnds ==
  (page.screen = "pending" /\ status[page.mine] = "ended")
    ~> (page.screen # "pending" \/ status[page.mine] = "deleted")

(* "`awaiting-upload` returns to the capture" (task-W4-report.md:197): a   *)
(* page that was told so does not go on waiting.                           *)
AwaitingUploadReturnsToCapture ==
  ~(page.screen = "pending" /\ page.known = "awaiting-upload")
=============================================================================
