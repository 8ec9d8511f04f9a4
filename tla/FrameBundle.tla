---------------------------- MODULE FrameBundle ----------------------------
(***************************************************************************)
(* The frames of an upload: which decoded frames are selected, what the    *)
(* receipt published with them says, and what a worker later demands of    *)
(* receipt, frames and original before it analyses them                    *)
(* (local-frame-extraction.ts, extraction-manifest.ts).                    *)
(*                                                                         *)
(* A decoding is a video: what its first bytes and FFprobe say of it, and  *)
(* what one run of FFmpeg prints and leaves: the frames with their         *)
(* instants and pictures, and the scene scores of the active part.         *)
(* Instants are whole numbers, pictures stand for their bytes and digests. *)
(* References, identifiers and the upload's generation are left out: they  *)
(* are the same in everything that is written for one upload.              *)
(***************************************************************************)
EXTENDS Integers, Sequences, SequencesExt

CONSTANTS
  Decodings,      \* what FFmpeg may make of the video of an upload
  Lead,           \* frames of the pre-roll of a verified video
  Active,         \* frames after it
  Step,           \* time between two of them
  MaxGap,         \* the longest time allowed between two
  CutScore,       \* the scene score that is a cut
  Required,       \* of a video of either mode: length, picture, frame rate
  FewestSamples,  \* frames of the shortest free video
  MostSamples,    \* and of the longest
  SampleEvery     \* time per sample of a free video between those

ASSUME BundleAssumption ==
  /\ Lead \in Nat \ {0} /\ Active \in Nat \ {0} /\ Step \in Nat \ {0}
  /\ MaxGap \in Nat /\ CutScore \in Nat /\ SampleEvery \in Nat \ {0}
  /\ FewestSamples \in Nat \ {0, 1} /\ MostSamples \in Nat
  /\ FewestSamples <= MostSamples
  /\ \A video \in Decodings :
       /\ video.mode \in {"free", "verified"}
       /\ video.probe.duration \in Int
       /\ video.decoded \in Seq([at : Int, picture : STRING])
       /\ video.scenes \in Seq([at : Int, score : Int])

(* freeSampleTimestamps(duration).length *)
Samples(duration) ==
  Min({MostSamples, Max({FewestSamples,
                         (duration + SampleEvery - 1) \div SampleEvery})})
Count(video) ==
  IF video.mode = "verified" THEN Lead + Active ELSE Samples(video.probe.duration)

Instants(frames) == [i \in DOMAIN frames |-> frames[i].at]
Increasing(times) == \A i \in 2..Len(times) : times[i - 1] < times[i]

-----------------------------------------------------------------------------
(* What the file is, and whether the mode of the attempt admits it.        *)

(* parseRotation: what the display matrix says, else the tag, else nothing. *)
Turn(probe) == IF probe.turns = <<>> THEN 0 ELSE Head(probe.turns) % 360
QuarterTurn(probe) == Turn(probe) % 180 = 90

Display(probe) ==
  [width |-> IF QuarterTurn(probe) THEN probe.height ELSE probe.width,
   height |-> IF QuarterTurn(probe) THEN probe.width ELSE probe.height]

(* parseFfprobePayload: one video stream, that is a film in the clear of a *)
(* known codec.                                                            *)
ProbeParses(probe) ==
  /\ probe.films = <<"clear">> /\ Turn(probe) \in {0, 90, 180, 270}
  /\ \A n \in {probe.duration, probe.width, probe.height, probe.rate} : n > 0

(* The first bytes and FFprobe agree; of an ISO file the bytes decide.     *)
Iso == {"mp4", "mov"}
ContainerAgrees(probe) ==
  probe.named = probe.magic \/ {probe.named, probe.magic} \subseteq Iso

(* isMediaProbeAdmissible *)
Admissible(probe, mode) ==
  LET shown == Display(probe)
      sides == {shown.width, shown.height}
      need == Required[mode]
  IN /\ need.shortest <= probe.duration /\ probe.duration <= need.longest
     /\ probe.rate >= need.rate
     /\ IF mode = "free" THEN \A side \in sides : side >= need.side
        ELSE /\ shown.width >= need.width /\ shown.height >= need.height
             /\ shown.width > shown.height
             /\ 10 * shown.width >= 13 * shown.height
             /\ shown.width <= 2 * shown.height

Admitted ==
  {video \in Decodings :
     /\ ProbeParses(video.probe) /\ ContainerAgrees(video.probe)
     /\ Admissible(video.probe, video.mode)}

-----------------------------------------------------------------------------
(* Extraction.                                                             *)

(* parseEvidence *)
EvidenceParses(video) ==
  /\ video.decoded # <<>> /\ \A f \in Range(video.decoded) : f.at >= 0
  /\ Increasing(Instants(video.decoded)) /\ Increasing(Instants(video.scenes))

(* How far an instant is from the i-th target, times the number of gaps    *)
(* between targets.                                                        *)
Distance(video, at, i) ==
  LET gaps == Count(video) - 1
      first == IF video.mode = "verified" THEN 0 ELSE video.decoded[1].at
      last == IF video.mode = "verified" THEN gaps * Step
              ELSE Last(video.decoded).at
      off == (at - first) * gaps - (last - first) * (i - 1)
  IN IF off < 0 THEN -off ELSE off

(* The nearest of the frames not yet passed by, the earlier of two.        *)
Nearest(video, from, i) ==
  CHOOSE k \in from..Len(video.decoded) :
    \A j \in from..Len(video.decoded) :
      LET dk == Distance(video, video.decoded[k].at, i)
          dj == Distance(video, video.decoded[j].at, i)
      IN dk < dj \/ (dk = dj /\ k <= j)

(* selectDecodedFrames: greedily, one for each target; there is no such    *)
(* selection when it runs out of frames.                                   *)
Selections(video) ==
  {chosen \in [1..Count(video) -> DOMAIN video.decoded] :
     \A i \in 1..Count(video) :
       LET from == IF i = 1 THEN 1 ELSE chosen[i - 1] + 1
       IN from <= Len(video.decoded) /\ chosen[i] = Nearest(video, from, i)}

Selected ==
  [video \in Decodings |->
     IF Selections(video) = {} THEN <<>>
     ELSE LET chosen == CHOOSE c \in Selections(video) : TRUE
          IN [i \in 1..Count(video) |-> video.decoded[chosen[i]]]]

(* Every frame of a verified video is in its part, and none is missing.    *)
InParts(times) ==
  /\ \A i \in DOMAIN times :
       IF i <= Lead THEN times[i] < Lead * Step
       ELSE times[i] >= Lead * Step /\ times[i] < (Lead + Active) * Step
  /\ \A i \in 2..Len(times) : times[i] - times[i - 1] <= MaxGap

ActiveTimes(times) == SubSeq(times, Lead + 1, Len(times))

(* hasVerifiedSceneEvidence: one score for each active frame, no cut.      *)
NoCut(scenes, times) ==
  /\ Instants(scenes) = ActiveTimes(times) /\ Len(scenes) = Active
  /\ \A s \in Range(scenes) : s.score >= 0 /\ s.score < CutScore

Selectable ==
  {video \in Admitted :
     LET times == Instants(Selected[video]) IN
     /\ EvidenceParses(video)
     /\ Len(video.decoded) >= Count(video) /\ Len(times) = Count(video)
     /\ video.mode = "verified" => InParts(times) /\ NoCut(video.scenes, times)}

(* isJpeg: a baseline picture that decodes.                                *)
IsJpeg(picture) == picture # "spoiled"
Materializable(video) == \A f \in Range(Selected[video]) : IsJpeg(f.picture)

(* assertVerifiedFrames, assertFreeFrames: of a manifest when it is made   *)
(* and whenever it is read back.                                           *)
TimelineHolds(manifest) ==
  LET times == manifest.times IN
  /\ Len(times) = Count(manifest) /\ Increasing(times)
  /\ IF manifest.mode = "verified"
     THEN InParts(times) /\ times[1] >= 0
     ELSE \A t \in Range(times) : t >= 0 /\ t <= manifest.probe.duration

Pictures(video) ==
  [i \in DOMAIN Selected[video] |-> Selected[video][i].picture]

(* framedRawPreRollSha256: of the bytes of each frame of the pre-roll.      *)
PreRoll(mode, pictures) ==
  IF mode = "verified" THEN SubSeq(pictures, 1, Lead) ELSE <<>>

(* createExtractionManifest *)
Manifest(mode, probe, times, pictures) ==
  [mode |-> mode, probe |-> probe, display |-> Display(probe), times |-> times,
   preRoll |-> PreRoll(mode, pictures)]
ManifestOf(video) ==
  Manifest(video.mode, video.probe, Instants(Selected[video]), Pictures(video))

Extractable ==
  {video \in Selectable : Materializable(video) /\ TimelineHolds(ManifestOf(video))}

-----------------------------------------------------------------------------
(* The receipt, and the context that refers to it.                         *)

NoScenes == <<>>

(* Whose upload, of which bytes: what the preflight read of the attempt.   *)
UploadContextOf(mode) ==
  [mode |-> mode, session |-> IF mode = "verified" THEN "ready" ELSE "none"]
AuthorityOf(mode, bytes) == [upload |-> UploadContextOf(mode), source |-> bytes]

(* A bug: the scenes are kept whatever the mode.                           *)
ReceiptWithScenes(video, bytes) ==
  [authority |-> AuthorityOf(video.mode, bytes), manifest |-> ManifestOf(video),
   digests |-> Pictures(video), scenes |-> video.scenes]

(* createLocalStorageExtractionReceipt *)
ReceiptOf(video, bytes) ==
  [authority |-> AuthorityOf(video.mode, bytes), manifest |-> ManifestOf(video),
   digests |-> Pictures(video),
   scenes |-> IF video.mode = "verified" THEN video.scenes ELSE NoScenes]

(* parsePersistedUploadContext: a session for a verified upload only.      *)
UploadParses(context) ==
  /\ context.mode \in {"free", "verified"}
  /\ (context.session = "none") = (context.mode = "free")

(* readProbe, readDisplay *)
ProbeHolds(manifest) ==
  /\ manifest.display = Display(manifest.probe)
  /\ \A n \in {manifest.probe.duration, manifest.probe.rate,
              manifest.display.width, manifest.display.height} : n > 0

(* parseExtractionManifest *)
ManifestParses(manifest) ==
  /\ manifest.mode \in {"free", "verified"} /\ ProbeHolds(manifest)
  /\ \A t \in Range(manifest.times) : t >= 0
  /\ TimelineHolds(manifest)
  /\ (manifest.preRoll = <<>>) = (manifest.mode = "free")

(* parseStorageExtractionReceipt *)
ReceiptParses(receipt) ==
  LET manifest == receipt.manifest IN
  /\ ManifestParses(manifest) /\ Len(receipt.digests) = Len(manifest.times)
  /\ receipt.authority.upload.mode = manifest.mode
  /\ UploadParses(receipt.authority.upload)
  /\ (receipt.scenes = NoScenes) = (manifest.mode = "free")
  /\ manifest.mode = "verified" => NoCut(receipt.scenes, manifest.times)

(* The row of the attached upload: its columns, and the context it keeps,  *)
(* with the receipt by its digest.                                         *)
ContextOf(receipt, mode, bytes) ==
  [mode |-> mode, source |-> bytes, receipt |-> receipt,
   kept |-> [upload |-> UploadContextOf(mode), source |-> bytes,
             receipt |-> receipt]]

(* assertClaimableProcessingRow: what the row keeps reads well and is of   *)
(* the upload that its columns speak of.                                   *)
Claimable(context) ==
  LET kept == context.kept IN
  /\ UploadParses(kept.upload) /\ kept.upload = UploadContextOf(context.mode)
  /\ kept.source = context.source /\ kept.receipt = context.receipt

(* authorityFor: of the context a worker has claimed.                      *)
AuthorityFor(kept) == [upload |-> kept.upload, source |-> kept.source]

(* sameExtractionAuthority: the extraction made from the frames again.     *)
SameExtraction(manifest, pictures) ==
  manifest = Manifest(manifest.mode, manifest.probe, manifest.times, pictures)

(* attestVerifiedExtractionContinuity: only so is it one that a verified   *)
(* analysis takes.                                                         *)
Attested(receipt) ==
  IF receipt.manifest.mode = "free" THEN receipt.scenes = NoScenes
  ELSE /\ NoCut(receipt.scenes, receipt.manifest.times)
       /\ Increasing(Instants(receipt.scenes))

(* reconstructDurableProcessingContext: the stored receipt is the one the  *)
(* row names and reads well; it speaks of this upload, of the original as  *)
(* it is, and of the frames as they are; and the extraction made from them *)
(* again is the same.                                                      *)
Reconstructs(kept, receipt, pictures, original) ==
  /\ kept.receipt = receipt /\ ReceiptParses(receipt)
  /\ receipt.authority = AuthorityFor(kept)
  /\ original = receipt.authority.source
  /\ \A i \in DOMAIN pictures : IsJpeg(pictures[i])
  /\ receipt.digests = pictures
  /\ SameExtraction(receipt.manifest, pictures) /\ Attested(receipt)
=============================================================================
