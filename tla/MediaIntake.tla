---------------------------- MODULE MediaIntake ----------------------------
(***************************************************************************)
(* One upload request of the API, from its first byte to its answer: the   *)
(* multipart stream (http/streamed-multipart.ts), the part loop            *)
(* (media/multipart-intake.ts), the staged file (local-media-storage.ts),  *)
(* the frames (local-frame-extraction.ts) and their publication            *)
(* (media/media-pipeline.ts), up to the transaction that attaches the      *)
(* media.  What follows the attachment is the subject of MediaDelivery.    *)
(*                                                                         *)
(* Every awaited call is a step of its own.  It may fail, and the process  *)
(* may stop before it.  A body is a sequence of tokens: the header of a    *)
(* part, one unit of a file's bytes, the closing boundary or a premature   *)
(* end.  Each token counts one towards the limit of the envelope.          *)
(***************************************************************************)
EXTENDS FrameBundle

CONSTANTS
  Bodies,             \* the bodies clients send
  MaxUploadBytes,     \* units a media file may have
  MaxMultipartBytes,  \* tokens a body may have
  MaxFaults           \* bound: calls that fail, removals apart, and crashes

PartHeaders == {"media", "other", "field"}
Tokens == PartHeaders \cup {"data", "end", "cut"}

ASSUME IntakeAssumption ==
  /\ \A body \in Bodies :
       /\ body \in Seq(Tokens) /\ body # <<>>
       /\ \A i \in DOMAIN body : body[i] \in {"end", "cut"} <=> i = Len(body)
  /\ MaxUploadBytes \in Nat \ {0}
  /\ MaxMultipartBytes \in Nat \ {0}
  /\ MaxFaults \in Nat

VARIABLES
  client,     \* the sender: where it is and what it has yet to send
  wire,       \* who reads the body, and how much of it was counted
  parts,      \* MultipartPartQueue
  file,       \* the body stream of the media part, as the parser feeds it
  request,    \* the handler: the call it is about to make and what it counted
  disk,       \* temporary/, originals/ and frames/ of this upload
  facts,      \* its records in retention_cleanup_records
  late,       \* those whose deadline has passed
  scavenger,  \* the retention pass and the records it listed; missed: a
              \* deletion it did could not be acknowledged
  context,    \* the processing context of the attempt, or NoContext
  database,   \* "open", or "closed" under the handler by a shutdown
  residue,    \* a removal failed
  faults

transport == <<client, wire, parts, file>>
stored == <<disk, facts, context>>
upload == <<client, wire, parts, file, request, disk, facts, late, scavenger,
            context, database, residue, faults>>

Absent == -1
NoVideo == [mode |-> "none"]
NoSet == [pictures |-> <<>>]
NoContext == [mode |-> "none"]
NoFile == [buffered |-> 0, end |-> "none"]
NoParts == [pending |-> <<>>, failure |-> FALSE, ended |-> FALSE]
NoPass == [at |-> "idle", due |-> {}, kind |-> "temporary", missed |-> FALSE]
EmptyDisk == [uploading |-> Absent, original |-> "absent", payload |-> Absent,
              staging |-> "absent", frames |-> "absent", set |-> NoSet]

UploadInit ==
  /\ \E body \in Bodies : client = [at |-> "sending", rest |-> body]
  /\ wire = [reader |-> "nobody", counted |-> 0]
  /\ parts = NoParts
  /\ file = NoFile
  /\ request = [pc |-> "absent", bytes |-> 0, accepted |-> FALSE,
                cleanup |-> FALSE, video |-> NoVideo]
  /\ disk = EmptyDisk
  /\ facts = {} /\ late = {}
  /\ scavenger = NoPass
  /\ context = NoContext /\ database = "open" /\ residue = FALSE
  /\ faults = 0

(* The attempt references the media. *)
attached == context # NoContext

At(pc) == request.pc = pc
Goto(pc) == request' = [request EXCEPT !.pc = pc]

Fault == faults < MaxFaults /\ faults' = faults + 1
Sound == faults' = faults

(* A call of the repository: answered, or refused. *)
Stores == Sound /\ database = "open"
Refuses == Fault \/ (Sound /\ database = "closed")

(* The set of frames and receipt is in one of two directories. *)
Swept(left) ==
  IF left.staging = "ready" \/ left.frames \in {"moved", "complete"} THEN left
  ELSE [left EXCEPT !.set = NoSet]

(* A removal: done, or failed and the thing stays.  Bound: one fails. *)
RemovalFails == ~residue /\ residue' = TRUE /\ Sound
Removed(gone) ==
  \/ Sound /\ disk' = Swept(gone) /\ residue' = residue
  \/ RemovalFails /\ disk' = disk

(***************************************************************************)
(* The stream.  The parser reads the body while the file stream has room;  *)
(* the part queue holds the parts the handler has not taken.               *)
(***************************************************************************)
Received == [at |-> IF Len(client.rest) = 1 THEN "sent" ELSE "sending",
             rest |-> Tail(client.rest)]

(* A bug: a failure that no part waits for is dropped. *)
FailedUnheard(queue) == queue
Failed(queue) == IF queue.ended THEN queue ELSE [queue EXCEPT !.failure = TRUE]
Broken(body) == IF body.end = "none" THEN body ELSE [body EXCEPT !.end = "broken"]
Ended(body) == IF body.end = "open" THEN [body EXCEPT !.end = "ended"] ELSE body

OverLimit == wire.counted + 1 > MaxMultipartBytes

(* The first byte above the envelope limit destroys the monitored payload. *)
EnvelopeOverflows ==
  /\ OverLimit
  /\ parts' = Failed(parts) /\ file' = Broken(file)
  /\ UNCHANGED <<client, wire>>

HeaderParsed ==
  /\ Head(client.rest) \in PartHeaders
  /\ parts' = [parts EXCEPT !.pending = Append(@, Head(client.rest))]
  /\ file' = IF file = NoFile /\ Head(client.rest) = "media"
               THEN [file EXCEPT !.end = "open"] ELSE Ended(file)

DataParsed ==
  /\ Head(client.rest) = "data"
  /\ IF file.end = "open"
       THEN file.buffered = 0 /\ file' = [file EXCEPT !.buffered = 1]
       ELSE file' = file
  /\ UNCHANGED parts

BodyEnds ==
  /\ Head(client.rest) = "end"
  /\ parts' = [parts EXCEPT !.ended = TRUE]
  /\ file' = Ended(file)

BodyIsCut ==
  /\ Head(client.rest) = "cut"
  /\ parts' = Failed(parts) /\ file' = Broken(file)

ParserReads ==
  /\ wire.reader = "parser" /\ client.at = "sending"
  /\ ~parts.failure
  /\ \/ EnvelopeOverflows
     \/ /\ ~OverLimit
        /\ (HeaderParsed \/ DataParsed \/ BodyEnds \/ BodyIsCut)
        /\ client' = Received
        /\ wire' = [wire EXCEPT !.counted = @ + 1]
  /\ UNCHANGED <<request, stored, late, scavenger, residue, faults>>

(* drainSource: the rest of a refused body is discarded up to the limit of *)
(* the envelope; above it the connection is closed.                        *)
DrainReads ==
  /\ wire.reader = "drain" /\ client.at = "sending"
  /\ IF OverLimit
       THEN client' = [at |-> "closed", rest |-> <<>>] /\ UNCHANGED wire
       ELSE /\ client' = Received
            /\ wire' = [wire EXCEPT !.counted = @ + 1]
  /\ UNCHANGED <<parts, file, request, stored, late, scavenger, residue, faults>>

(* The connection breaks.  Only a parser that is already attached hears of *)
(* it: before that, the payload's error reaches nobody who waits.          *)
Gone == IF client.at = "sent" THEN "left"
        ELSE IF wire.reader = "nobody" THEN "unheard" ELSE "gone"

ClientLeaves ==
  /\ ~At("absent") /\ client.at \in {"sending", "sent"}
  /\ client' = [at |-> Gone, rest |-> <<>>]
  /\ IF wire.reader = "parser" /\ client.at = "sending"
       THEN parts' = Failed(parts) /\ file' = Broken(file)
       ELSE UNCHANGED <<parts, file>>
  /\ UNCHANGED <<wire, request, stored, late, scavenger, residue, faults>>

(***************************************************************************)
(* Opening the session: onRequest, then createUploadSession.  A failure    *)
(* here is answered at once: there is no session to abort yet.             *)
(***************************************************************************)
Arrive ==
  /\ At("absent") /\ Goto("preflight")
  /\ UNCHANGED <<transport, stored, late, scavenger, residue, faults>>

Preflight ==
  /\ At("preflight")
  /\ Goto("initialize") \/ Goto("answer")
  /\ UNCHANGED <<transport, stored, late, scavenger, residue, faults>>

Initialize ==
  /\ At("initialize")
  /\ \/ Sound /\ Goto("schedule")
     \/ Fault /\ Goto("answer")
  /\ UNCHANGED <<transport, stored, late, scavenger, residue>>

ScheduleTemporary ==
  /\ At("schedule")
  /\ \/ Stores /\ facts' = facts \cup {"temporary"} /\ Goto("open")
     \/ Refuses /\ facts' = facts /\ Goto("answer")
  /\ UNCHANGED <<transport, disk, context, late, scavenger, residue>>

OpenTemporary ==
  /\ At("open")
  /\ \/ /\ Sound /\ Goto("secure")
        /\ disk' = [disk EXCEPT !.uploading = 0]
     \/ Fault /\ Goto("answer") /\ disk' = disk
  /\ UNCHANGED <<transport, facts, context, late, scavenger, residue>>

(* The mode is set; the handler asks for the first part, which creates the *)
(* parser and connects it to the body.                                     *)
SecureTemporary ==
  /\ At("secure")
  /\ \/ /\ Sound /\ Goto("awaitPart")
        /\ wire' = [wire EXCEPT !.reader = "parser"]
     \/ Fault /\ Goto("unsecured") /\ UNCHANGED wire
  /\ UNCHANGED <<client, parts, file, stored, late, scavenger, residue>>

UnsecuredRemoved ==
  /\ At("unsecured") /\ Goto("answer")
  /\ Removed([disk EXCEPT !.uploading = Absent])
  /\ UNCHANGED <<transport, facts, context, late, scavenger>>

(***************************************************************************)
(* acceptSingleMediaPart.                                                  *)
(***************************************************************************)
(* A refusal leaves the loop early: the generator detaches the parser and  *)
(* discards what the client still sends, then the session is aborted.      *)
RefuseParts ==
  /\ Goto("abort")
  /\ wire' = [wire EXCEPT !.reader = "drain"]
  /\ parts' = NoParts /\ file' = NoFile

(* MultipartPartQueue.next: a failure comes before the parts still pending. *)
NextPart == IF parts.failure THEN "failure"
            ELSE IF parts.pending # <<>> THEN Head(parts.pending)
            ELSE IF parts.ended THEN "done" ELSE "wait"

TakePart ==
  /\ At("awaitPart")
  /\ \/ /\ NextPart = "media" /\ ~request.accepted
        /\ Goto("reading")
        /\ parts' = [parts EXCEPT !.pending = Tail(@)]
        /\ UNCHANGED <<wire, file>>
     \/ /\ \/ NextPart \in {"failure", "field", "other"}
           \/ NextPart = "media" /\ request.accepted
        /\ RefuseParts
     \/ /\ NextPart = "done"
        /\ Goto(IF request.accepted THEN "inspect" ELSE "abort")
        /\ UNCHANGED <<wire, parts, file>>
  /\ UNCHANGED <<client, stored, late, scavenger, residue, faults>>

(* Bytes written to a file the scavenger has unlinked are lost. *)
Written(units) ==
  IF units = Absent THEN Absent ELSE units + 1

ReadChunk ==
  /\ At("reading") /\ file.end # "broken" /\ file.buffered = 1
  /\ \/ /\ Sound /\ request.bytes < MaxUploadBytes
        /\ request' = [request EXCEPT !.bytes = @ + 1]
        /\ disk' = [disk EXCEPT !.uploading = Written(@)]
        /\ file' = [file EXCEPT !.buffered = 0]
        /\ UNCHANGED <<wire, parts>>
     \/ /\ \/ Sound /\ request.bytes = MaxUploadBytes
           \/ Fault
        /\ RefuseParts /\ disk' = disk
  /\ UNCHANGED <<client, facts, context, late, scavenger, residue>>

ReadBroken ==
  /\ At("reading") /\ file.end = "broken"
  /\ RefuseParts
  /\ UNCHANGED <<client, stored, late, scavenger, residue, faults>>

ReadEnd ==
  /\ At("reading") /\ file.end = "ended" /\ file.buffered = 0
  /\ IF request.bytes = 0
       THEN RefuseParts
       ELSE /\ request' = [request EXCEPT !.pc = "awaitPart", !.accepted = TRUE]
            /\ UNCHANGED <<wire, parts, file>>
  /\ UNCHANGED <<client, stored, late, scavenger, residue, faults>>

(***************************************************************************)
(* LocalUploadSession.inspect, then LocalFrameExtraction.extract.          *)
(***************************************************************************)
(* The file is closed, sniffed, probed under a time-out and admitted for   *)
(* the mode of the attempt, or not.                                        *)
Inspect ==
  /\ At("inspect")
  /\ \/ disk.uploading # Absent /\ Admitted # {} /\ Goto("scheduleFrames")
     \/ Goto("abort")
  /\ UNCHANGED <<transport, stored, late, scavenger, residue, faults>>

ScheduleFrames ==
  /\ At("scheduleFrames")
  /\ \/ Stores /\ facts' = facts \cup {"frame"} /\ Goto("stage")
     \/ Refuses /\ facts' = facts /\ Goto("abort")
  /\ UNCHANGED <<transport, disk, context, late, scavenger, residue>>

(* The staged file is there and has the digest that was inspected. *)
Stage ==
  /\ At("stage")
  /\ \/ /\ Sound /\ disk.uploading = request.bytes
        /\ disk' = [disk EXCEPT !.staging = "owned"] /\ Goto("decode")
     \/ /\ \/ Sound /\ disk.uploading # request.bytes
           \/ Fault
        /\ disk' = disk /\ Goto("abort")
  /\ UNCHANGED <<transport, facts, context, late, scavenger, residue>>

(* FFmpeg runs under a time-out; of what it leaves frames are selected, or *)
(* the upload is refused.                                                  *)
Decode ==
  /\ At("decode")
  /\ \/ \E video \in Selectable :
          request' = [request EXCEPT !.pc = "materialize", !.video = video]
     \/ Goto("dropStaging")
  /\ UNCHANGED <<transport, stored, late, scavenger, residue, faults>>

(* The selected frames are written under their final names and what else   *)
(* was decoded removed; then the manifest is made of them.                 *)
Materialize ==
  /\ At("materialize")
  /\ \/ Sound /\ Goto(IF request.video \in Extractable THEN "receipt"
                      ELSE "dropStaging")
     \/ Fault /\ Goto("dropStaging")
  /\ UNCHANGED <<transport, stored, late, scavenger, residue>>

Receipt == ReceiptOf(request.video, request.bytes)
WriteReceipt ==
  /\ At("receipt")
  /\ \/ /\ Sound /\ Goto("reserveFrames")
        /\ disk' = [disk EXCEPT !.staging = "ready",
                      !.set = [receipt |-> Receipt, pictures |-> Pictures(request.video)]]
     \/ Fault /\ disk' = disk /\ Goto("dropStaging")
  /\ UNCHANGED <<transport, facts, context, late, scavenger, residue>>

(* publishFrameSet: reserve the directory, move the set, mark it complete. *)
ReserveFrames ==
  /\ At("reserveFrames")
  /\ \/ /\ Sound /\ disk' = [disk EXCEPT !.frames = "partial"]
        /\ Goto("moveFrames")
     \/ Fault /\ disk' = disk /\ Goto("dropStaging")
  /\ UNCHANGED <<transport, facts, context, late, scavenger, residue>>

MoveFrames ==
  /\ At("moveFrames")
  /\ \/ /\ Sound
        /\ disk' = [disk EXCEPT !.frames = "moved", !.staging = "owned"]
        /\ Goto("completeFrames")
     \/ Fault /\ disk' = disk /\ Goto("dropFrames")
  /\ UNCHANGED <<transport, facts, context, late, scavenger, residue>>

CompleteFrames ==
  /\ At("completeFrames")
  /\ \/ /\ Sound /\ disk' = [disk EXCEPT !.frames = "complete"]
        /\ Goto("unstage")
     \/ Fault /\ disk' = disk /\ Goto("dropFrames")
  /\ UNCHANGED <<transport, facts, context, late, scavenger, residue>>

(* Once the set is published the cleanup capability exists. *)
Unstage ==
  /\ At("unstage")
  /\ request' = [request EXCEPT !.pc = "reserve", !.cleanup = TRUE]
  /\ Removed([disk EXCEPT !.staging = "absent"])
  /\ UNCHANGED <<transport, facts, context, late, scavenger>>

DropFrames ==
  /\ At("dropFrames") /\ Goto("dropStaging")
  /\ Removed([disk EXCEPT !.frames = "absent"])
  /\ UNCHANGED <<transport, facts, context, late, scavenger>>

DropStaging ==
  /\ At("dropStaging") /\ Goto("abort")
  /\ Removed([disk EXCEPT !.staging = "absent"])
  /\ UNCHANGED <<transport, facts, context, late, scavenger>>

(***************************************************************************)
(* LocalUploadSession.publish and abort.                                   *)
(***************************************************************************)
(* publishNoReplace: the final directory is made, then its owner file. *)
Reserve ==
  /\ At("reserve")
  /\ \/ Sound /\ disk' = [disk EXCEPT !.original = "owned"] /\ Goto("rename")
     \/ /\ Fault /\ Goto("abort")
        /\ disk' \in {disk, [disk EXCEPT !.original = "unowned"]}
  /\ UNCHANGED <<transport, facts, context, late, scavenger, residue>>

Rename ==
  /\ At("rename")
  /\ \/ /\ Sound /\ disk.uploading # Absent /\ disk.original # "absent"
        /\ disk' = [disk EXCEPT !.payload = disk.uploading, !.uploading = Absent]
        /\ Goto("disown")
     \/ /\ \/ Sound /\ (disk.uploading = Absent \/ disk.original = "absent")
           \/ Fault
        /\ disk' = disk /\ Goto("abort")
  /\ UNCHANGED <<transport, facts, context, late, scavenger, residue>>

(* The mode of the payload is set and the owner file removed. *)
Disown ==
  /\ At("disown")
  /\ \/ /\ Sound /\ disk.original # "absent"
        /\ disk' = [disk EXCEPT !.original = "unowned"] /\ Goto("attach")
     \/ /\ Sound /\ disk.original = "absent"
        /\ disk' = disk /\ Goto("abort")
     \/ /\ Fault /\ Goto("abort")
        /\ \/ disk' = disk
           \/ /\ disk.original # "absent"
              /\ disk' = [disk EXCEPT !.original = "unowned"]
  /\ UNCHANGED <<transport, facts, context, late, scavenger, residue>>

(* After the abort the pipeline uses the cleanup capability, if it has it. *)
(* A bug: the abort is taken to be all there is to clean up.               *)
AfterAbortOnly == "answer"
AfterAbort == IF request.cleanup THEN "cleanup" ELSE "answer"

AbortTemporary ==
  /\ At("abort")
  /\ \/ /\ Sound /\ Goto("abortPublication")
        /\ disk' = [disk EXCEPT !.uploading = Absent] /\ UNCHANGED residue
     \/ RemovalFails /\ Goto(AfterAbort) /\ disk' = disk
  /\ UNCHANGED <<transport, facts, context, late, scavenger>>

(* removeOwnedPublication: a directory without the owner file is not       *)
(* touched and the temporary fact stays.  A bug: it is taken for clean.    *)
PublicationLeftAlone == TRUE
PublicationClean == disk.original # "unowned"

AbortPublication ==
  /\ At("abortPublication")
  /\ \/ /\ Sound /\ UNCHANGED residue
        /\ Goto(IF PublicationClean THEN "acknowledge" ELSE AfterAbort)
        /\ disk' = IF disk.original = "unowned" THEN disk
                   ELSE [disk EXCEPT !.original = "absent", !.payload = Absent]
     \/ RemovalFails /\ Goto(AfterAbort) /\ disk' = disk
  /\ UNCHANGED <<transport, facts, context, late, scavenger>>

AcknowledgeTemporary ==
  /\ At("acknowledge") /\ Goto(AfterAbort)
  /\ \/ Stores /\ facts' = facts \ {"temporary"}
     \/ Refuses /\ facts' = facts
  /\ UNCHANGED <<transport, disk, context, late, scavenger, residue>>

(* AcceptedMediaCleanup: both deletions run, whether or not one fails. *)
WithoutOriginal == [disk EXCEPT !.original = "absent", !.payload = Absent]
WithoutFrames == Swept([disk EXCEPT !.frames = "absent", !.staging = "absent"])

Cleanup ==
  /\ At("cleanup") /\ Goto("answer")
  /\ \/ /\ Sound /\ UNCHANGED residue
        /\ disk' = [WithoutFrames EXCEPT !.original = "absent", !.payload = Absent]
     \/ /\ RemovalFails
        /\ disk' \in {disk, WithoutOriginal, WithoutFrames}
  /\ UNCHANGED <<transport, facts, context, late, scavenger>>

(* attachPreparedMedia: one transaction that also takes over the temporary *)
(* fact, and is refused when that fact is gone.  A bug: it is not needed.  *)
AttachAllowedWithoutFact == database = "open"
AttachAllowed == database = "open" /\ "temporary" \in facts

Attach ==
  /\ At("attach")
  /\ \/ /\ AttachAllowed /\ Goto("answer")
        /\ context' = ContextOf(Receipt, request.video.mode, request.bytes)
        /\ facts' = facts \ {"temporary"}
     \/ Goto("cleanup") /\ UNCHANGED <<context, facts>>
  /\ UNCHANGED <<transport, disk, late, scavenger, residue, faults>>

(* The answer; onResponse discards a body that nobody has read to its end. *)
Answer ==
  /\ At("answer")
  /\ request' = [request EXCEPT !.pc = "answered", !.video = NoVideo]
  /\ wire' = IF client.at = "sending" THEN [wire EXCEPT !.reader = "drain"]
             ELSE wire
  /\ UNCHANGED <<client, parts, file, stored, late, scavenger, residue, faults>>

(***************************************************************************)
(* The retention pass over the two records of this upload, and crashes.    *)
(***************************************************************************)
Running == request.pc \notin {"absent", "answered", "lost"}

(* The temporary deadline is an hour after the preflight: it can pass while *)
(* the body arrives or is worked on.  The frames' is 23 hours after it.    *)
DeadlinePasses(kind) ==
  /\ kind \in facts \ late /\ ~attached
  /\ (Running => kind = "temporary" /\ wire.reader # "nobody")
  /\ late' = late \cup {kind}
  /\ UNCHANGED <<transport, request, stored, scavenger, residue, faults>>

(* The pass lists what is due once, and works from that list. *)
PassLists ==
  /\ scavenger.at = "idle" /\ database = "open" /\ facts \cap late # {}
  /\ scavenger' = [scavenger EXCEPT !.at = "next", !.due = facts \cap late]
  /\ UNCHANGED <<transport, request, stored, late, residue, faults>>

PassTakes(kind) ==
  /\ scavenger.at = "next" /\ kind \in scavenger.due
  /\ scavenger' = [scavenger EXCEPT !.at = "first", !.kind = kind, !.due = @ \ {kind}]
  /\ UNCHANGED <<transport, request, stored, late, residue, faults>>

PassEnds ==
  /\ scavenger.at = "next" /\ scavenger.due = {}
  /\ scavenger' = [scavenger EXCEPT !.at = "idle"]
  /\ UNCHANGED <<transport, request, stored, late, residue, faults>>

(* deleteTemporary: the upload, then the original of the same identifier.  *)
(* deleteFrame: the published set, then its staging.                       *)
FirstDeletion ==
  IF scavenger.kind = "temporary" THEN [disk EXCEPT !.uploading = Absent]
  ELSE Swept([disk EXCEPT !.frames = "absent"])
SecondDeletion ==
  IF scavenger.kind = "temporary" THEN WithoutOriginal
  ELSE Swept([disk EXCEPT !.staging = "absent"])

PassDeletes ==
  /\ scavenger.at \in {"first", "second"}
  /\ \/ /\ Sound
        /\ disk' = IF scavenger.at = "first" THEN FirstDeletion ELSE SecondDeletion
        /\ scavenger' = [scavenger EXCEPT
                          !.at = IF @ = "first" THEN "second" ELSE "acknowledge"]
     \/ Fault /\ disk' = disk /\ scavenger' = [scavenger EXCEPT !.at = "next"]
  /\ UNCHANGED <<transport, request, facts, context, late, residue>>

PassAcknowledges ==
  /\ scavenger.at = "acknowledge"
  /\ \/ /\ Stores /\ facts' = facts \ {scavenger.kind}
        /\ scavenger' = [scavenger EXCEPT !.at = "next"]
     \/ /\ Refuses /\ facts' = facts
        /\ scavenger' = [scavenger EXCEPT !.at = "next", !.missed = TRUE]
  /\ UNCHANGED <<transport, request, disk, context, late, residue>>

(* Everything in memory is gone; files and records stay. *)
ProcessStops ==
  /\ Running /\ Fault
  /\ request' = [request EXCEPT !.pc = "lost", !.video = NoVideo]
  /\ client' = [at |-> IF client.at = "sending" THEN "gone" ELSE client.at,
                rest |-> <<>>]
  /\ wire' = [wire EXCEPT !.reader = "nobody"]
  /\ parts' = NoParts /\ file' = NoFile
  /\ scavenger' = NoPass
  /\ UNCHANGED <<stored, late, residue>>

----------------------------------------------------------------------------
StreamStep == (ParserReads \/ DrainReads) /\ UNCHANGED database
OpenStep ==
  \/ Preflight \/ Initialize \/ ScheduleTemporary \/ OpenTemporary
  \/ SecureTemporary \/ UnsecuredRemoved
ReceiveStep == TakePart \/ ReadChunk \/ ReadBroken \/ ReadEnd
ExtractStep ==
  \/ Inspect \/ ScheduleFrames \/ Stage
  \/ Decode \/ Materialize \/ WriteReceipt
  \/ ReserveFrames \/ MoveFrames \/ CompleteFrames \/ Unstage
  \/ DropFrames \/ DropStaging
PublishStep == Reserve \/ Rename \/ Disown \/ Attach
AbortStep ==
  AbortTemporary \/ AbortPublication \/ AcknowledgeTemporary \/ Cleanup
RequestStep ==
  /\ \/ OpenStep \/ ReceiveStep \/ ExtractStep \/ PublishStep \/ AbortStep
     \/ Answer
  /\ UNCHANGED database
PassStep ==
  /\ \/ \E kind \in {"temporary", "frame"} : PassTakes(kind)
     \/ PassLists \/ PassDeletes \/ PassAcknowledges \/ PassEnds
  /\ UNCHANGED database
OutsideStep ==
  /\ ClientLeaves \/ \E kind \in {"temporary", "frame"} : DeadlinePasses(kind)
  /\ UNCHANGED database

UploadNext ==
  \/ StreamStep \/ RequestStep \/ PassStep \/ OutsideStep
  \/ (Arrive \/ ProcessStops) /\ UNCHANGED database

(* What the host drives runs on; a client need not leave, a deadline need  *)
(* not pass, but a client that stays sends its whole body.                 *)
UploadSpec == UploadInit /\ [][UploadNext]_upload
FairUploadSpec ==
  UploadSpec /\ WF_upload(StreamStep) /\ WF_upload(RequestStep)

----------------------------------------------------------------------------
NoBytes == disk = EmptyDisk

(* What the processor of a claimed attempt reads: the receipt and frames   *)
(* of a set that was marked complete, and the original.  A missing or      *)
(* spoiled one fails the attempt for good.                                 *)
SetReadable == disk.frames = "complete"
OriginalReadable == disk.payload # Absent
WorkerProceeds ==
  /\ Claimable(context) /\ SetReadable /\ OriginalReadable
  /\ Reconstructs(context.kept, disk.set.receipt, disk.set.pictures, disk.payload)

(* An upload ends whole or not at all.  Accepted: the whole body arrived,  *)
(* it was one media file within the limits, its published original and its *)
(* frames are complete and nothing is left in temporary/; and as long as   *)
(* the original is there, what the receipt and the row say of the upload   *)
(* lets a worker make the extraction again.  Refused or given up: nothing  *)
(* of it is on disk, whichever call failed on the way, unless a removal    *)
(* itself failed.  (An original that the retention pass has taken is       *)
(* excluded here and is the subject of AttachedBytesAreThere.)             *)
UploadIsAllOrNothing ==
  At("answered") =>
    /\ attached =>
         /\ client.at \in {"sent", "left"}
         /\ disk.payload \in {request.bytes, Absent} /\ request.bytes > 0
         /\ disk.payload = Absent => "temporary" \in late
         /\ SetReadable
         /\ OriginalReadable => WorkerProceeds
         /\ disk.uploading = Absent
         /\ disk.staging = "absent" \/ residue
    /\ ~attached => NoBytes \/ residue

(* No byte is on disk without a record that will have it deleted, at any   *)
(* step, whatever fails and wherever the process stops.                    *)
EveryFileHasAFact ==
  /\ disk.uploading # Absent => "temporary" \in facts
  /\ disk.payload # Absent => "temporary" \in facts \/ attached
  /\ (disk.staging # "absent" \/ disk.frames # "absent") => "frame" \in facts

(* An upload whose first deadline passed while it was still worked on.  It *)
(* is attached only while its record is there: its bytes can then be gone  *)
(* only between their deletion and the acknowledgement of the record, or   *)
(* when that failed.  Once it is attached only a pass that listed the      *)
(* record before still deletes the original.                               *)
AttachedBytesAreThere ==
  [][/\ attached' /\ ~attached =>
          \/ disk.payload # Absent
          \/ scavenger.kind = "temporary" /\ scavenger.at = "acknowledge"
          \/ scavenger.missed
     /\ attached /\ disk'.payload # disk.payload =>
          scavenger.kind = "temporary" /\ scavenger.at = "second"
     /\ attached => "temporary" \notin scavenger'.due \ scavenger.due]_upload

(* Every upload is answered and no client is left sending to nobody,       *)
(* unless the client left before anyone listened to its body.              *)
UploadEnds ==
  Running ~> client.at = "unheard" \/ (~Running /\ client.at # "sending")

(* docs/specs/2026-08-30-revelai-mvp.md on a cancelled upload: the server  *)
(* "stops reading, removes the temporary file".                            *)
CancelledUploadEnds == client.at \in {"gone", "unheard"} ~> ~Running
=============================================================================
