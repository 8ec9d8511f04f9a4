---------------------------- MODULE ProcessProofs ----------------------------
(***************************************************************************)
(* An upload in the process that serves it, for any bodies, videos, limits *)
(* and faults and any number of applications composed over one database.   *)
(***************************************************************************)
EXTENDS ApiProcess, SequenceTheorems, FiniteSetTheorems, TLAPS

-----------------------------------------------------------------------------
(* What is extracted from a video can be read back.                        *)

Shot == [at : Int, picture : STRING]

(* A set of positions has a first one.                                     *)
LEMMA FirstPosition ==
  ASSUME NEW S \in SUBSET Nat, S # {}
  PROVE  \E i \in S : \A j \in S : i <= j
<1> DEFINE upTo == {1..n : n \in S}
<1>1. upTo \subseteq FiniteSubsetsOf(Nat)
  BY FS_Interval DEF FiniteSubsetsOf
<1>2. upTo # {}
  OBVIOUS
<1>3. PICK U \in upTo : \A V \in upTo : <<V, U>> \notin StrictSubsetOrdering(Nat)
  BY <1>1, <1>2, FS_StrictSubsetOrderingWellFounded, WFMin
<1>4. PICK i \in S : U = 1..i
  OBVIOUS
<1>5. ASSUME NEW j \in S, j < i PROVE FALSE
  <2>1. (1..j) \subseteq 1..i /\ i \in 1..i /\ i \notin 1..j
    BY <1>5
  <2>2. <<1..j, 1..i>> \in StrictSubsetOrdering(Nat)
    BY <2>1 DEF StrictSubsetOrdering
  <2> QED BY <2>2, <1>3, <1>4
<1> QED BY <1>5

(* Of instants in order, the first bounds all.                             *)
LEMMA FirstInstantBounds ==
  ASSUME NEW times \in Seq(Int), Increasing(times), times # <<>>, times[1] >= 0
  PROVE  \A t \in Range(times) : t >= 0
<1> DEFINE Bad == {i \in 1..Len(times) : times[i] < 0}
<1>1. Bad = {}
  <2> SUFFICES ASSUME Bad # {} PROVE FALSE
    OBVIOUS
  <2>1. PICK i \in Bad : \A j \in Bad : i <= j
    <3>1. Bad \in SUBSET Nat
      OBVIOUS
    <3> HIDE DEF Bad
    <3> QED BY <3>1, FirstPosition
  <2>2. i \in 2..Len(times) /\ i - 1 \in 1..Len(times)
    BY <2>1
  <2>3. times[i - 1] < times[i] /\ times[i] < 0
    BY <2>1, <2>2 DEF Increasing
  <2>4. times[i - 1] \in Int /\ times[i] \in Int
    BY <2>2
  <2>5. i - 1 \in Bad
    BY <2>2, <2>3, <2>4
  <2> QED BY <2>1, <2>5
<1>2. \A i \in 1..Len(times) : times[i] \in Int /\ ~(times[i] < 0)
  BY <1>1
<1> QED BY <1>2 DEF Range

LEMMA CountIsNatural ==
  ASSUME NEW video \in Decodings
  PROVE  Count(video) \in Nat
<1> USE BundleAssumption
<1> DEFINE wanted == (video.probe.duration + SampleEvery - 1) \div SampleEvery
           most == Max({FewestSamples, wanted})
<1>1. wanted \in Int
  OBVIOUS
<1> HIDE DEF wanted
<1>2. most \in Int /\ most >= FewestSamples
  <2>1. \E greatest \in {FewestSamples, wanted} :
          \A n \in {FewestSamples, wanted} : greatest >= n
    BY <1>1
  <2>2. /\ most \in {FewestSamples, wanted}
        /\ \A n \in {FewestSamples, wanted} : most >= n
    BY <2>1 DEF Max
  <2> QED BY <2>2, <1>1
<1> HIDE DEF most
<1>3. Min({MostSamples, most}) \in Nat
  <2>1. \E least \in {MostSamples, most} :
          \A n \in {MostSamples, most} : least <= n
    BY <1>2
  <2>2. Min({MostSamples, most}) \in {MostSamples, most}
    BY <2>1 DEF Min
  <2> QED BY <2>2, <1>2
<1>4. Samples(video.probe.duration) = Min({MostSamples, most})
  BY DEF Samples, most, wanted
<1> QED BY <1>3, <1>4 DEF Count

LEMMA SelectedShots ==
  ASSUME NEW video \in Decodings
  PROVE  /\ Selected[video] \in Seq(Shot)
         /\ Instants(Selected[video]) \in Seq(Int)
         /\ Len(Instants(Selected[video])) = Len(Selected[video])
         /\ Pictures(video) \in Seq(STRING)
         /\ Len(Pictures(video)) = Len(Selected[video])
<1>1. Selected[video] \in Seq(Shot)
  <2>1. CASE Selections(video) = {}
    BY <2>1 DEF Selected
  <2>2. CASE Selections(video) # {}
    <3> DEFINE chosen == CHOOSE c \in Selections(video) : TRUE
    <3>1. chosen \in [1..Count(video) -> DOMAIN video.decoded]
      BY <2>2 DEF Selections
    <3> HIDE DEF chosen
    <3>2. video.decoded \in Seq(Shot)
      BY BundleAssumption DEF Shot
    <3>3. Selected[video] = [i \in 1..Count(video) |-> video.decoded[chosen[i]]]
      BY <2>2 DEF Selected, chosen
    <3>4. \A i \in 1..Count(video) : video.decoded[chosen[i]] \in Shot
      BY <3>1, <3>2
    <3> QED BY <3>3, <3>4, CountIsNatural
  <2> QED BY <2>1, <2>2
<1>2. \A i \in 1..Len(Selected[video]) :
        Selected[video][i].at \in Int /\ Selected[video][i].picture \in STRING
  <2>1. \A s \in Seq(Shot) : \A i \in 1..Len(s) : s[i] \in Shot
    OBVIOUS
  <2> QED BY <1>1, <2>1 DEF Shot
<1>3. DOMAIN Selected[video] = 1..Len(Selected[video]) /\ Len(Selected[video]) \in Nat
  BY <1>1
<1> QED BY <1>1, <1>2, <1>3 DEF Instants, Pictures

(* What reconstructDurableProcessingContext demands holds of whatever was  *)
(* extracted, as long as nobody touches the files.                         *)
LEMMA ReceiptReadsBack ==
  ASSUME NEW video \in Extractable, NEW bytes \in Nat
  PROVE  LET receipt == ReceiptOf(video, bytes)
             row == ContextOf(receipt, video.mode, bytes)
         IN /\ row.mode \in {"free", "verified"}
            /\ Claimable(row)
            /\ Reconstructs(row.kept, receipt, Pictures(video), bytes)
<1> DEFINE receipt == ReceiptOf(video, bytes)
           row == ContextOf(receipt, video.mode, bytes)
           manifest == ManifestOf(video)
           times == Instants(Selected[video])
<1>1. /\ video \in Decodings /\ video \in Selectable
      /\ Materializable(video) /\ TimelineHolds(manifest)
  BY DEF Extractable, Selectable, Admitted
<1>2. /\ ProbeParses(video.probe) /\ EvidenceParses(video)
      /\ Len(times) = Count(video)
      /\ video.mode = "verified" => InParts(times) /\ NoCut(video.scenes, times)
  BY <1>1 DEF Selectable, Admitted
<1>3. video.mode \in {"free", "verified"}
  BY <1>1, BundleAssumption
<1>4. /\ manifest.mode = video.mode /\ manifest.probe = video.probe
      /\ manifest.display = Display(video.probe) /\ manifest.times = times
      /\ manifest.preRoll = PreRoll(video.mode, Pictures(video))
      /\ manifest = Manifest(video.mode, video.probe, times, Pictures(video))
  BY DEF ManifestOf, Manifest
<1>5. /\ times \in Seq(Int) /\ Pictures(video) \in Seq(STRING)
      /\ Len(Pictures(video)) = Len(times)
  BY <1>1, SelectedShots
<1>6. ProbeHolds(manifest)
  BY <1>2, <1>4 DEF ProbeHolds, ProbeParses, Display
<1>7. \A t \in Range(times) : t >= 0
  <2>1. CASE video.mode = "free"
    BY <2>1, <1>1, <1>4 DEF TimelineHolds
  <2>2. CASE video.mode = "verified"
    <3>1. Len(times) = Lead + Active
      BY <2>2, <1>2 DEF Count
    <3>2. times # <<>> /\ times[1] >= 0 /\ Increasing(times)
      BY <2>2, <3>1, <1>1, <1>4, BundleAssumption DEF TimelineHolds
    <3> QED BY <3>2, <1>5, FirstInstantBounds
  <2> QED BY <1>3, <2>1, <2>2
<1>8. (manifest.preRoll = <<>>) = (video.mode = "free")
  <2>1. CASE video.mode = "free"
    BY <2>1, <1>4 DEF PreRoll
  <2>2. CASE video.mode = "verified"
    <3>1. Len(Pictures(video)) = Lead + Active
      BY <2>2, <1>2, <1>5 DEF Count
    <3>2. Len(SubSeq(Pictures(video), 1, Lead)) = Lead
      BY <3>1, <1>5, BundleAssumption
    <3>3. SubSeq(Pictures(video), 1, Lead) # <<>>
      BY <3>2, BundleAssumption
    <3> QED BY <2>2, <3>3, <1>4 DEF PreRoll
  <2> QED BY <1>3, <2>1, <2>2
<1>9. (receipt.scenes = NoScenes) = (video.mode = "free")
  <2>1. CASE video.mode = "free"
    BY <2>1 DEF ReceiptOf
  <2>2. CASE video.mode = "verified"
    <3>1. Len(video.scenes) = Active
      BY <2>2, <1>2 DEF NoCut
    <3>2. video.scenes # <<>>
      BY <3>1, BundleAssumption
    <3> QED BY <2>2, <3>2 DEF ReceiptOf, NoScenes
  <2> QED BY <1>3, <2>1, <2>2
<1>10. /\ receipt.manifest = manifest /\ receipt.digests = Pictures(video)
       /\ receipt.authority = AuthorityOf(video.mode, bytes)
       /\ video.mode = "verified" => receipt.scenes = video.scenes
       /\ video.mode = "free" => receipt.scenes = NoScenes
  BY <1>3 DEF ReceiptOf
<1>11. /\ row.mode = video.mode /\ row.source = bytes /\ row.receipt = receipt
       /\ row.kept = [upload |-> UploadContextOf(video.mode), source |-> bytes,
                      receipt |-> receipt]
  BY DEF ContextOf
<1>12. UploadParses(UploadContextOf(video.mode))
  BY <1>3 DEF UploadParses, UploadContextOf
<1> HIDE DEF receipt, row, manifest, times
<1>13. ReceiptParses(receipt)
  <2>1. ManifestParses(manifest)
    BY <1>1, <1>3, <1>4, <1>6, <1>7, <1>8 DEF ManifestParses
  <2>2. receipt.authority.upload = UploadContextOf(video.mode)
    BY <1>10 DEF AuthorityOf
  <2>3. receipt.authority.upload.mode = video.mode
    BY <2>2 DEF UploadContextOf
  <2> QED BY <2>1, <2>2, <2>3, <1>2, <1>4, <1>5, <1>9, <1>10, <1>12 DEF ReceiptParses
<1>14. Attested(receipt)
  BY <1>2, <1>3, <1>4, <1>10 DEF Attested, EvidenceParses
<1>15. \A i \in DOMAIN Pictures(video) : IsJpeg(Pictures(video)[i])
  BY <1>1 DEF Pictures, Materializable, Range
<1>16. SameExtraction(receipt.manifest, Pictures(video))
  BY <1>4, <1>10 DEF SameExtraction
<1>17. Claimable(row)
  BY <1>11, <1>12 DEF Claimable
<1>18. Reconstructs(row.kept, receipt, Pictures(video), bytes)
  <2>1. row.kept.receipt = receipt /\ AuthorityFor(row.kept) = AuthorityOf(video.mode, bytes)
    BY <1>11 DEF AuthorityFor, AuthorityOf
  <2>2. receipt.authority.source = bytes
    BY <1>10 DEF AuthorityOf
  <2> QED BY <2>1, <2>2, <1>10, <1>13, <1>14, <1>15, <1>16 DEF Reconstructs
<1> QED BY <1>3, <1>11, <1>17, <1>18 DEF receipt, row
-----------------------------------------------------------------------------
(* The inductive invariant of one upload.  Where the request has got to    *)
(* says what is on disk, which records cover it and what the client has    *)
(* sent; only the retention pass and a failed removal take away from that. *)

FactKinds == {"temporary", "frame"}
Opening == {"absent", "preflight", "initialize", "schedule", "open"}
Unstaged == Opening \cup {"secure", "unsecured", "awaitPart", "reading", "inspect",
                          "scheduleFrames", "stage"}
WithReceipt == {"reserveFrames", "moveFrames", "completeFrames", "unstage",
                "reserve", "rename", "disown", "attach"}
Publishing == {"reserve", "rename", "disown", "attach"}
Whole == WithReceipt \cup {"inspect", "scheduleFrames", "stage", "decode",
                           "materialize", "receipt"}
Dropping == {"dropFrames", "dropStaging"}
Aborting == {"abort", "abortPublication", "acknowledge"}
Finished == {"answer", "answered"}
Steps == Unstaged \cup Whole \cup Dropping \cup Aborting \cup Finished
           \cup {"cleanup", "lost"}

SetOf(video, bytes) ==
  [receipt |-> ReceiptOf(video, bytes), pictures |-> Pictures(video)]
Sets == {SetOf(video, bytes) : video \in Extractable, bytes \in Nat}

RequestType ==
  [pc : Steps, bytes : Nat, accepted : BOOLEAN, cleanup : BOOLEAN,
   video : Decodings \cup {NoVideo}]
DiskType ==
  [uploading : Nat \cup {Absent}, payload : Nat \cup {Absent},
   original : {"absent", "owned", "unowned"}, staging : {"absent", "owned", "ready"},
   frames : {"absent", "partial", "moved", "complete"}, set : Sets \cup {NoSet}]

TransportTypes ==
  /\ client \in [at : {"sending", "sent", "left", "gone", "unheard", "closed"},
                 rest : Seq(Tokens)]
  /\ wire \in [reader : {"nobody", "parser", "drain"}, counted : Nat]
  /\ parts \in [pending : Seq(PartHeaders), failure : BOOLEAN, ended : BOOLEAN]
  /\ file \in [buffered : {0, 1}, end : {"none", "open", "ended", "broken"}]
PassTypes ==
  /\ facts \in SUBSET FactKinds /\ late \in SUBSET FactKinds
  /\ scavenger \in [at : {"idle", "next", "first", "second", "acknowledge"},
                    due : SUBSET FactKinds, kind : FactKinds, missed : BOOLEAN]
  /\ residue \in BOOLEAN
UploadTypes ==
  TransportTypes /\ request \in RequestType /\ disk \in DiskType /\ PassTypes

(* The last token of a body ends it, and only that.                        *)
BodyRuns ==
  client.at = "sending" =>
    /\ client.rest # <<>>
    /\ \A i \in 1..Len(client.rest) :
         client.rest[i] \in {"end", "cut"} <=> i = Len(client.rest)

(* What is accepted has come to its end, and is not empty.                 *)
BodyIsWhole ==
  /\ parts.ended \/ request.pc \in Whole => client.at \in {"sent", "left"}
  /\ request.accepted => request.bytes > 0
  /\ At("reading") => ~request.accepted
  /\ request.pc \in Whole => request.accepted
  /\ request.pc \in Opening => request.bytes = 0

(* The bytes on disk are those that were counted.                          *)
BytesAreCounted ==
  /\ disk.uploading \in {request.bytes, Absent}
  /\ disk.payload \in {request.bytes, Absent}

(* Before anything is written nothing has to be deleted.                   *)
NothingYet ==
  /\ request.pc \in Opening => disk = EmptyDisk /\ late = {} /\ scavenger.at = "idle"
  /\ request.pc \in Opening \cup {"secure"} => wire.reader = "nobody"
  /\ request.pc \in Opening \ {"open"} => facts = {}
  /\ At("open") => facts = {"temporary"}

(* What the retention pass takes for deleted is.                           *)
PassKnows ==
  /\ scavenger.due \subseteq late
  /\ scavenger.at \in {"first", "second", "acknowledge"} => scavenger.kind \in late
  /\ scavenger.kind = "temporary" =>
       /\ scavenger.at \in {"second", "acknowledge"} => disk.uploading = Absent
       /\ scavenger.at = "acknowledge" => disk.payload = Absent
  /\ scavenger.kind = "frame" =>
       /\ scavenger.at \in {"second", "acknowledge"} => disk.frames = "absent"
       /\ scavenger.at = "acknowledge" => disk.staging = "absent"
  /\ "frame" \in late => ~Running /\ ~At("absent") /\ ~attached

(* What each step finds on disk.                                           *)
FramesByStep ==
  /\ request.pc \in Unstaged => disk.staging = "absent" /\ disk.frames = "absent"
  /\ At("stage") => "frame" \in facts
  /\ request.pc \in {"decode", "materialize", "receipt"} =>
       disk.staging = "owned" /\ disk.frames = "absent"
  /\ At("reserveFrames") => disk.staging = "ready" /\ disk.frames = "absent"
  /\ At("moveFrames") => disk.staging = "ready"
  /\ At("completeFrames") => disk.frames = "moved"
  /\ At("unstage") => disk.frames = "complete"
  /\ request.pc \in Publishing =>
       disk.frames = "complete" /\ (disk.staging = "absent" \/ residue)
  /\ At("dropStaging") => disk.frames = "absent" \/ residue
  /\ request.pc \in Aborting \cup {"cleanup"} /\ ~request.cleanup =>
       (disk.frames = "absent" /\ disk.staging = "absent") \/ residue
  /\ disk.staging = "ready" \/ disk.frames \in {"moved", "complete"} \/ disk.set = NoSet

OriginalByStep ==
  /\ request.pc \in Publishing => request.cleanup
  /\ request.pc \in Unstaged \cup Dropping \cup (Whole \ Publishing) =>
       disk.original = "absent" /\ disk.payload = Absent
  /\ request.pc \in Aborting /\ ~request.cleanup =>
       disk.original = "absent" /\ disk.payload = Absent
  /\ request.cleanup => request.pc \notin Unstaged
  /\ request.pc \in {"disown", "attach", "abortPublication"} => disk.uploading = Absent
  /\ At("acknowledge") =>
       disk.uploading = Absent /\ disk.original = "absent" /\ disk.payload = Absent
  /\ At("cleanup") => disk.uploading = Absent \/ residue
  /\ request.pc \in {"disown", "attach"} /\ disk.payload = Absent =>
       /\ "temporary" \in late
       /\ "temporary" \in facts =>
            \/ scavenger.kind = "temporary" /\ scavenger.at = "acknowledge"
            \/ scavenger.missed

(* The receipt was made of the video whose frames are beside it.           *)
ReceiptByStep ==
  /\ At("materialize") => request.video \in Selectable
  /\ request.pc \in WithReceipt \cup {"receipt"} => request.video \in Extractable
  /\ request.pc \in WithReceipt => disk.set = SetOf(request.video, request.bytes)

AttachedIsWhole ==
  attached =>
    /\ request.pc \in Finished \cup {"lost"} /\ client.at \in {"sent", "left"}
    /\ request.bytes > 0 /\ "temporary" \notin facts
    /\ disk.uploading = Absent /\ disk.frames = "complete"
    /\ disk.staging = "absent" \/ residue
    /\ disk.payload = Absent => "temporary" \in late
    /\ \E video \in Extractable :
         /\ disk.set = SetOf(video, request.bytes)
         /\ context = ContextOf(ReceiptOf(video, request.bytes), video.mode,
                                request.bytes)

RefusedIsGone == request.pc \in Finished /\ ~attached => NoBytes \/ residue

UploadInv ==
  /\ UploadTypes /\ BodyRuns /\ BodyIsWhole /\ BytesAreCounted /\ NothingYet
  /\ EveryFileHasAFact /\ PassKnows /\ FramesByStep /\ OriginalByStep
  /\ ReceiptByStep /\ AttachedIsWhole /\ RefusedIsGone

LEMMA UploadStarts == ASSUME UploadInit PROVE UploadInv
<1> USE UploadInit DEF UploadInit
<1>1. PICK body \in Bodies : client = [at |-> "sending", rest |-> body]
  OBVIOUS
<1>2. /\ body \in Seq(Tokens) /\ body # <<>>
      /\ \A i \in 1..Len(body) : body[i] \in {"end", "cut"} <=> i = Len(body)
  BY IntakeAssumption
<1>3. UploadTypes
  <2>1. client \in [at : {"sending", "sent", "left", "gone", "unheard", "closed"},
                    rest : Seq(Tokens)]
    BY <1>1, <1>2
  <2>2. /\ parts \in [pending : Seq(PartHeaders), failure : BOOLEAN, ended : BOOLEAN]
        /\ wire \in [reader : {"nobody", "parser", "drain"}, counted : Nat]
        /\ file \in [buffered : {0, 1}, end : {"none", "open", "ended", "broken"}]
    BY DEF NoParts, NoFile
  <2>3. request \in RequestType
    BY DEF RequestType, Steps, Unstaged, Opening
  <2>4. disk \in DiskType
    BY DEF EmptyDisk, DiskType
  <2>5. PassTypes
    <3>1. scavenger \in [at : {"idle", "next", "first", "second", "acknowledge"},
                         due : SUBSET FactKinds, kind : FactKinds, missed : BOOLEAN]
      BY DEF NoPass, FactKinds
    <3>2. facts \in SUBSET FactKinds /\ late \in SUBSET FactKinds /\ residue \in BOOLEAN
      OBVIOUS
    <3> QED BY <3>1, <3>2 DEF PassTypes
  <2> QED BY <2>1, <2>2, <2>3, <2>4, <2>5 DEF UploadTypes, TransportTypes
<1>4. BodyRuns
  BY <1>1, <1>2 DEF BodyRuns
<1>5. BodyIsWhole /\ BytesAreCounted /\ NothingYet
  BY DEF BodyIsWhole, BytesAreCounted, NothingYet, NoParts, At, Whole, WithReceipt,
     Opening, EmptyDisk, NoPass, Absent
<1>6. EveryFileHasAFact /\ PassKnows /\ FramesByStep
  BY DEF EveryFileHasAFact, PassKnows, FramesByStep, EmptyDisk, NoPass, At, Unstaged,
     Opening, Publishing, Aborting
<1>7. OriginalByStep /\ ReceiptByStep /\ AttachedIsWhole /\ RefusedIsGone
  BY DEF OriginalByStep, ReceiptByStep, AttachedIsWhole, RefusedIsGone, attached,
     NoBytes, EmptyDisk, At, Unstaged, Opening, Publishing, Aborting, Dropping, Whole,
     WithReceipt, Finished
<1> QED BY <1>3, <1>4, <1>5, <1>6, <1>7 DEF UploadInv

-----------------------------------------------------------------------------
(* Steps of the stream and of the client.                                  *)

LEMMA BodyGoesOn ==
  ASSUME UploadTypes, BodyRuns, client.at = "sending"
  PROVE  /\ Received \in [at : {"sending", "sent"}, rest : Seq(Tokens)]
         /\ Head(client.rest) \in {"end", "cut"} <=> Received.at = "sent"
         /\ Received.at = "sending" =>
              /\ Received.rest # <<>>
              /\ \A i \in 1..Len(Received.rest) :
                   Received.rest[i] \in {"end", "cut"} <=> i = Len(Received.rest)
<1> DEFINE rest == client.rest
<1>1. /\ rest \in Seq(Tokens) /\ rest # <<>>
      /\ \A i \in 1..Len(rest) : rest[i] \in {"end", "cut"} <=> i = Len(rest)
  BY DEF UploadTypes, TransportTypes, BodyRuns
<1>2. Received = [at |-> IF Len(rest) = 1 THEN "sent" ELSE "sending",
                  rest |-> Tail(rest)]
  BY DEF Received
<1> HIDE DEF rest
<1>3. Len(rest) \in Nat /\ Len(rest) > 0 /\ Head(rest) = rest[1]
  BY <1>1
<1>4. Tail(rest) \in Seq(Tokens) /\ Len(Tail(rest)) = Len(rest) - 1
  BY <1>1
<1>5. \A i \in 1..Len(Tail(rest)) : Tail(rest)[i] = rest[i + 1]
  BY <1>1, HeadTailProperties
<1>6. Len(rest) # 1 => Tail(rest) # <<>>
  <2>1. Len(rest) # 1 => Len(Tail(rest)) # 0
    BY <1>3, <1>4
  <2> QED BY <2>1
<1> QED BY <1>1, <1>2, <1>3, <1>4, <1>5, <1>6 DEF rest

LEMMA TransportKeeps ==
  ASSUME UploadInv, ParserReads \/ DrainReads \/ ClientLeaves
  PROVE  UploadInv'
<1> USE DEF UploadInv
<1>1. UNCHANGED <<request, disk, facts, context, late, scavenger, residue>>
  BY DEF ParserReads, DrainReads, ClientLeaves, stored
<1>2. /\ \/ client' = client /\ UNCHANGED wire
         \/ /\ client.at = "sending" /\ client' = Received
            /\ wire' = [wire EXCEPT !.counted = @ + 1]
         \/ /\ client' \in [at : {"left", "gone", "unheard", "closed"}, rest : {<<>>}]
            /\ client.at = "sent" => client'.at = "left"
            /\ client.at \in {"sending", "sent"} /\ UNCHANGED wire
  <2>1. CASE ParserReads
    BY <2>1 DEF ParserReads, EnvelopeOverflows
  <2>2. CASE DrainReads
    BY <2>2 DEF DrainReads
  <2>3. CASE ClientLeaves
    BY <2>3 DEF ClientLeaves, Gone
  <2> QED BY <2>1, <2>2, <2>3
<1>3. /\ parts' \in [pending : Seq(PartHeaders), failure : BOOLEAN, ended : BOOLEAN]
      /\ file' \in [buffered : {0, 1}, end : {"none", "open", "ended", "broken"}]
      /\ parts'.ended /\ ~parts.ended => client'.at = "sent"
  <2>1. /\ Failed(parts) \in [pending : Seq(PartHeaders), failure : BOOLEAN,
                              ended : BOOLEAN]
        /\ Failed(parts).ended = parts.ended
    BY DEF Failed, UploadTypes, TransportTypes
  <2>2. /\ Broken(file) \in [buffered : {0, 1}, end : {"none", "open", "ended", "broken"}]
        /\ Ended(file) \in [buffered : {0, 1}, end : {"none", "open", "ended", "broken"}]
    BY DEF Broken, Ended, UploadTypes, TransportTypes
  <2>3. CASE ClientLeaves \/ DrainReads
    BY <2>1, <2>2, <2>3 DEF ClientLeaves, DrainReads, UploadTypes, TransportTypes
  <2>4. CASE ParserReads /\ EnvelopeOverflows
    BY <2>1, <2>2, <2>4 DEF EnvelopeOverflows
  <2>5. CASE HeaderParsed
    <3>1. Append(parts.pending, Head(client.rest)) \in Seq(PartHeaders)
      BY <2>5 DEF HeaderParsed, UploadTypes, TransportTypes
    <3> QED BY <3>1, <2>2, <2>5 DEF HeaderParsed, UploadTypes, TransportTypes, NoFile
  <2>6. CASE DataParsed
    BY <2>6 DEF DataParsed, UploadTypes, TransportTypes
  <2>7. CASE BodyEnds /\ ParserReads /\ ~EnvelopeOverflows
    <3>1. client.at = "sending" /\ client' = Received /\ Head(client.rest) = "end"
      BY <2>7 DEF ParserReads, BodyEnds
    <3>2. client'.at = "sent"
      BY <3>1, BodyGoesOn
    <3> QED BY <3>2, <2>2, <2>7 DEF BodyEnds, UploadTypes, TransportTypes
  <2>8. CASE BodyIsCut
    BY <2>1, <2>2, <2>8 DEF BodyIsCut
  <2> QED BY <2>3, <2>4, <2>5, <2>6, <2>7, <2>8 DEF ParserReads
<1>4. UploadTypes' /\ BodyRuns'
  <2>1. CASE client' = client
    BY <2>1, <1>1, <1>2, <1>3 DEF UploadTypes, TransportTypes, PassTypes, BodyRuns
  <2>2. CASE client.at = "sending" /\ client' = Received
    <3>1. /\ client' \in [at : {"sending", "sent", "left", "gone", "unheard", "closed"},
                          rest : Seq(Tokens)]
          /\ BodyRuns'
      BY <2>2, BodyGoesOn DEF BodyRuns
    <3>2. wire' \in [reader : {"nobody", "parser", "drain"}, counted : Nat]
      BY <1>2 DEF UploadTypes, TransportTypes
    <3> QED BY <3>1, <3>2, <1>1, <1>3 DEF UploadTypes, TransportTypes, PassTypes
  <2>3. CASE client' \in [at : {"left", "gone", "unheard", "closed"}, rest : {<<>>}]
    <3>1. PICK at \in {"left", "gone", "unheard", "closed"} :
            client' = [at |-> at, rest |-> <<>>]
      BY <2>3
    <3>2. wire' \in [reader : {"nobody", "parser", "drain"}, counted : Nat]
      BY <1>2 DEF UploadTypes, TransportTypes
    <3>3. client' \in [at : {"sending", "sent", "left", "gone", "unheard", "closed"},
                       rest : Seq(Tokens)]
      BY <3>1
    <3>4. BodyRuns'
      BY <3>1 DEF BodyRuns
    <3> QED BY <3>2, <3>3, <3>4, <1>1, <1>3 DEF UploadTypes, TransportTypes, PassTypes
  <2> QED BY <2>1, <2>2, <2>3, <1>2
<1>5. client.at \in {"sent", "left"} => client'.at \in {"sent", "left"}
  BY <1>2 DEF UploadTypes, TransportTypes
<1>6. BodyIsWhole'
  BY <1>1, <1>3, <1>5 DEF BodyIsWhole, At
<1>7. NothingYet'
  BY <1>1, <1>2 DEF NothingYet, At, UploadTypes, TransportTypes
<1>8. AttachedIsWhole'
  BY <1>1, <1>5 DEF AttachedIsWhole, attached
<1>9. /\ BytesAreCounted' /\ EveryFileHasAFact' /\ PassKnows' /\ FramesByStep'
      /\ OriginalByStep' /\ ReceiptByStep' /\ RefusedIsGone'
  BY <1>1 DEF BytesAreCounted, EveryFileHasAFact, PassKnows, FramesByStep,
     OriginalByStep, ReceiptByStep, RefusedIsGone, At, Running, attached, NoBytes
<1> QED BY <1>4, <1>6, <1>7, <1>8, <1>9

-----------------------------------------------------------------------------
(* Steps of the request.                                                   *)

LEMMA GoesTo ==
  ASSUME request \in RequestType, NEW pc \in Steps, Goto(pc)
  PROVE  /\ request' \in RequestType /\ request'.pc = pc
         /\ request'.bytes = request.bytes /\ request'.accepted = request.accepted
         /\ request'.cleanup = request.cleanup /\ request'.video = request.video
BY DEF RequestType, Goto

(* A removal takes away, or leaves a residue.                              *)
LEMMA SweptKeeps ==
  ASSUME NEW left \in DiskType
  PROVE  /\ Swept(left) \in DiskType
         /\ Swept(left).uploading = left.uploading /\ Swept(left).payload = left.payload
         /\ Swept(left).original = left.original /\ Swept(left).staging = left.staging
         /\ Swept(left).frames = left.frames
         /\ \/ left.staging = "ready" \/ left.frames \in {"moved", "complete"}
            \/ Swept(left).set = NoSet
         /\ left.staging = "ready" \/ left.frames \in {"moved", "complete"} =>
              Swept(left) = left
BY DEF Swept, DiskType

LEMMA OpeningKeeps ==
  ASSUME UploadInv, Arrive \/ OpenStep
  PROVE  UploadInv'
<1> USE DEF UploadInv, UploadTypes
<1>1. /\ request \in RequestType /\ disk \in DiskType
      /\ UNCHANGED <<client, parts, file, context, late, scavenger>>
      /\ request.pc \in Opening \cup {"secure", "unsecured"}
      /\ disk.staging = "absent" /\ disk.frames = "absent" /\ disk.original = "absent"
      /\ disk.payload = Absent /\ ~request.cleanup /\ ~attached
  BY DEF Arrive, OpenStep, Preflight, Initialize, ScheduleTemporary, OpenTemporary,
     SecureTemporary, UnsecuredRemoved, transport, stored, At, Opening, Unstaged,
     FramesByStep, OriginalByStep, AttachedIsWhole, Finished
<1>2. /\ request' \in RequestType
      /\ request'.bytes = request.bytes /\ request'.accepted = request.accepted
      /\ request'.cleanup = request.cleanup /\ request'.video = request.video
  BY <1>1, GoesTo DEF Arrive, OpenStep, Preflight, Initialize, ScheduleTemporary,
     OpenTemporary, SecureTemporary, UnsecuredRemoved, Steps, Unstaged, Opening, Finished
<1> USE DEF At, Running, attached, NoBytes, Steps, Opening, Unstaged, Whole, WithReceipt,
        Publishing, Dropping, Aborting, Finished
<1>3. CASE /\ UNCHANGED <<wire, disk, facts, residue>>
           /\ \/ request.pc = "absent" /\ request'.pc = "preflight"
              \/ request.pc = "preflight" /\ request'.pc \in {"initialize", "answer"}
              \/ request.pc = "initialize" /\ request'.pc \in {"schedule", "answer"}
              \/ request.pc \in {"schedule", "open"} /\ request'.pc = "answer"
  <2>1. TransportTypes' /\ PassTypes' /\ disk' \in DiskType /\ BodyRuns' /\ BodyIsWhole'
    BY <1>1, <1>2, <1>3 DEF TransportTypes, PassTypes, BodyRuns, BodyIsWhole
  <2>2. BytesAreCounted' /\ NothingYet' /\ EveryFileHasAFact' /\ PassKnows'
    BY <1>1, <1>2, <1>3 DEF BytesAreCounted, NothingYet, EveryFileHasAFact, PassKnows
  <2>3. FramesByStep' /\ OriginalByStep' /\ ReceiptByStep'
    BY <1>1, <1>2, <1>3 DEF FramesByStep, OriginalByStep, ReceiptByStep
  <2>4. AttachedIsWhole' /\ RefusedIsGone'
    BY <1>1, <1>2, <1>3 DEF AttachedIsWhole, RefusedIsGone, NothingYet
  <2> QED BY <1>2, <2>1, <2>2, <2>3, <2>4
<1>4. CASE /\ request.pc = "schedule" /\ request'.pc = "open"
           /\ facts' = {"temporary"} /\ UNCHANGED <<wire, disk, residue>>
  <2>1. TransportTypes' /\ PassTypes' /\ disk' \in DiskType /\ BodyRuns' /\ BodyIsWhole'
    BY <1>1, <1>2, <1>4 DEF TransportTypes, PassTypes, BodyRuns, BodyIsWhole, FactKinds
  <2>2. BytesAreCounted' /\ NothingYet' /\ EveryFileHasAFact' /\ PassKnows'
    BY <1>1, <1>2, <1>4 DEF BytesAreCounted, NothingYet, EveryFileHasAFact, PassKnows
  <2>3. FramesByStep' /\ OriginalByStep' /\ ReceiptByStep'
    BY <1>1, <1>2, <1>4 DEF FramesByStep, OriginalByStep, ReceiptByStep
  <2>4. AttachedIsWhole' /\ RefusedIsGone'
    BY <1>1, <1>2, <1>4 DEF AttachedIsWhole, RefusedIsGone, NothingYet
  <2> QED BY <1>2, <2>1, <2>2, <2>3, <2>4
<1>5. CASE request.pc = "open" /\ OpenTemporary /\ request'.pc = "secure"
  <2>0. /\ disk' = [disk EXCEPT !.uploading = 0]
        /\ UNCHANGED <<wire, facts, residue>>
    BY <1>5 DEF OpenTemporary, Goto, transport, RequestType
  <2>1. /\ disk' \in DiskType /\ disk'.uploading = 0 /\ disk'.payload = disk.payload
        /\ disk'.original = disk.original /\ disk'.staging = disk.staging
        /\ disk'.frames = disk.frames /\ disk'.set = disk.set
    BY <2>0, <1>1 DEF DiskType
  <2>2. TransportTypes' /\ PassTypes' /\ BodyRuns' /\ BodyIsWhole'
    BY <1>1, <1>2, <1>5, <2>0 DEF TransportTypes, PassTypes, BodyRuns, BodyIsWhole
  <2>3. BytesAreCounted' /\ NothingYet' /\ EveryFileHasAFact' /\ PassKnows'
    BY <1>1, <1>2, <1>5, <2>0, <2>1 DEF BytesAreCounted, NothingYet, EveryFileHasAFact,
       PassKnows, BodyIsWhole
  <2>4. FramesByStep' /\ OriginalByStep' /\ ReceiptByStep'
    BY <1>1, <1>2, <1>5, <2>0, <2>1 DEF FramesByStep, OriginalByStep, ReceiptByStep
  <2>5. AttachedIsWhole' /\ RefusedIsGone'
    BY <1>1, <1>2, <1>5 DEF AttachedIsWhole, RefusedIsGone
  <2> QED BY <1>2, <2>1, <2>2, <2>3, <2>4, <2>5
<1>6. CASE request.pc = "secure" /\ SecureTemporary
  <2>1. /\ UNCHANGED <<disk, facts, residue>> /\ request'.pc \in {"awaitPart", "unsecured"}
        /\ wire' \in [reader : {"nobody", "parser", "drain"}, counted : Nat]
    BY <1>6, <1>1, GoesTo DEF SecureTemporary, stored, TransportTypes
  <2>2. TransportTypes' /\ PassTypes' /\ BodyRuns' /\ BodyIsWhole'
    BY <1>1, <1>2, <1>6, <2>1 DEF TransportTypes, PassTypes, BodyRuns, BodyIsWhole
  <2>3. BytesAreCounted' /\ NothingYet' /\ EveryFileHasAFact' /\ PassKnows'
    BY <1>1, <1>2, <1>6, <2>1 DEF BytesAreCounted, NothingYet, EveryFileHasAFact, PassKnows
  <2>4. FramesByStep' /\ OriginalByStep' /\ ReceiptByStep'
    BY <1>1, <1>2, <1>6, <2>1 DEF FramesByStep, OriginalByStep, ReceiptByStep
  <2>5. AttachedIsWhole' /\ RefusedIsGone'
    BY <1>1, <1>2, <1>6, <2>1 DEF AttachedIsWhole, RefusedIsGone
  <2> QED BY <1>1, <1>2, <2>1, <2>2, <2>3, <2>4, <2>5
<1>7. CASE request.pc = "unsecured" /\ UnsecuredRemoved
  <2>1. request'.pc = "answer" /\ UNCHANGED <<wire, facts>>
    BY <1>7, <1>1, GoesTo DEF UnsecuredRemoved, transport
  <2>2. /\ disk' \in DiskType /\ disk'.uploading \in {disk.uploading, Absent}
        /\ disk'.payload = disk.payload
        /\ disk'.original = disk.original /\ disk'.staging = disk.staging
        /\ disk'.frames = disk.frames /\ disk'.set \in {disk.set, NoSet}
        /\ residue' \in BOOLEAN
        /\ residue' \/ (disk'.uploading = Absent /\ disk'.set = NoSet)
    <3> DEFINE left == [disk EXCEPT !.uploading = Absent]
    <3>1. /\ left \in DiskType /\ left.uploading = Absent /\ left.payload = disk.payload
          /\ left.original = disk.original /\ left.staging = disk.staging
          /\ left.frames = disk.frames
      BY <1>1 DEF DiskType
    <3>2. \/ disk' = Swept(left) /\ residue' = residue
          \/ disk' = disk /\ residue' = TRUE
      BY <1>7 DEF UnsecuredRemoved, Removed, RemovalFails
    <3> HIDE DEF left
    <3> QED BY <1>1, <3>1, <3>2, SweptKeeps DEF PassTypes
  <2>3. TransportTypes' /\ PassTypes' /\ BodyRuns' /\ BodyIsWhole'
    BY <1>1, <1>2, <1>7, <2>1, <2>2 DEF TransportTypes, PassTypes, BodyRuns, BodyIsWhole
  <2>4. BytesAreCounted' /\ NothingYet' /\ EveryFileHasAFact' /\ PassKnows'
    BY <1>1, <1>2, <1>7, <2>1, <2>2 DEF BytesAreCounted, NothingYet, EveryFileHasAFact,
       PassKnows
  <2>5. FramesByStep' /\ OriginalByStep' /\ ReceiptByStep'
    BY <1>1, <1>2, <1>7, <2>1, <2>2 DEF FramesByStep, OriginalByStep, ReceiptByStep
  <2>6. AttachedIsWhole' /\ RefusedIsGone'
    BY <1>1, <1>2, <1>7, <2>1, <2>2 DEF AttachedIsWhole, RefusedIsGone, EmptyDisk, DiskType
  <2> QED BY <1>2, <2>2, <2>3, <2>4, <2>5, <2>6
<1> QED
  BY <1>1, <1>3, <1>4, <1>5, <1>6, <1>7, GoesTo DEF Arrive, OpenStep, Preflight,
     Initialize, ScheduleTemporary, OpenTemporary, SecureTemporary, UnsecuredRemoved,
     NothingYet, transport, stored

(* A call that fails, or a part or a file that is refused: nothing has     *)
(* been done by it, and what was done before is cleaned up from here on.   *)
LEMMA GivingUpKeeps ==
  ASSUME UploadInv, NEW pc \in Steps, Goto(pc), TransportTypes',
         UNCHANGED <<client, disk, facts, context, late, scavenger, residue>>,
         parts'.ended => parts.ended,
         \/ /\ request.pc \in {"awaitPart", "reading", "inspect", "scheduleFrames",
                               "stage", "reserve", "rename", "disown"}
            /\ pc = "abort"
         \/ /\ request.pc \in {"decode", "materialize", "receipt", "reserveFrames"}
            /\ pc = "dropStaging"
         \/ request.pc \in {"moveFrames", "completeFrames"} /\ pc = "dropFrames"
         \/ request.pc = "attach" /\ pc = "cleanup"
  PROVE  UploadInv'
<1> USE DEF UploadInv, UploadTypes
<1>1. /\ request' \in RequestType /\ request'.pc = pc
      /\ request'.bytes = request.bytes /\ request'.accepted = request.accepted
      /\ request'.cleanup = request.cleanup /\ request'.video = request.video
  BY GoesTo
<1> USE DEF At, Running, attached, NoBytes, Opening, Unstaged, Whole, WithReceipt,
        Publishing, Dropping, Aborting, Finished
<1>2. PassTypes' /\ disk' \in DiskType /\ BodyRuns' /\ BodyIsWhole'
  BY <1>1 DEF PassTypes, BodyRuns, BodyIsWhole
<1>3. BytesAreCounted' /\ NothingYet' /\ EveryFileHasAFact' /\ PassKnows'
  BY <1>1 DEF BytesAreCounted, NothingYet, EveryFileHasAFact, PassKnows
<1>4. FramesByStep' /\ OriginalByStep' /\ ReceiptByStep'
  BY <1>1 DEF FramesByStep, OriginalByStep, ReceiptByStep
<1>5. AttachedIsWhole' /\ RefusedIsGone'
  BY <1>1 DEF AttachedIsWhole, RefusedIsGone
<1> QED BY <1>1, <1>2, <1>3, <1>4, <1>5

LEMMA ReceivingKeeps ==
  ASSUME UploadInv, ReceiveStep
  PROVE  UploadInv'
<1> USE DEF UploadInv, UploadTypes
<1>1. /\ request \in RequestType /\ disk \in DiskType /\ TransportTypes
      /\ request.pc \in {"awaitPart", "reading"}
      /\ UNCHANGED <<client, facts, context, late, scavenger, residue>>
  BY DEF ReceiveStep, TakePart, ReadChunk, ReadBroken, ReadEnd, stored, At
<1>2. CASE RefuseParts /\ UNCHANGED disk
  <2>1. TransportTypes' /\ (parts'.ended => parts.ended)
    <3>1. wire' \in [reader : {"nobody", "parser", "drain"}, counted : Nat]
      BY <1>1, <1>2 DEF RefuseParts, TransportTypes
    <3>2. /\ parts' \in [pending : Seq(PartHeaders), failure : BOOLEAN, ended : BOOLEAN]
          /\ ~parts'.ended
          /\ file' \in [buffered : {0, 1}, end : {"none", "open", "ended", "broken"}]
      BY <1>2 DEF RefuseParts, NoParts, NoFile
    <3> QED BY <3>1, <3>2, <1>1 DEF TransportTypes
  <2>2. "abort" \in Steps /\ Goto("abort")
    BY <1>2 DEF RefuseParts, Steps, Aborting
  <2> QED BY <1>1, <1>2, <2>1, <2>2, GivingUpKeeps
<1> USE DEF At, Running, attached, NoBytes, Steps, Opening, Unstaged, Whole, WithReceipt,
        Publishing, Dropping, Aborting, Finished
<1>3. CASE TakePart /\ ~RefuseParts
  <2>1. /\ UNCHANGED <<disk, wire, file>> /\ request.pc = "awaitPart"
        /\ \/ /\ Goto("reading") /\ ~request.accepted
              /\ parts' = [parts EXCEPT !.pending = Tail(@)] /\ parts.pending # <<>>
           \/ Goto("inspect") /\ request.accepted /\ parts.ended /\ UNCHANGED parts
           \/ Goto("abort") /\ UNCHANGED parts
    <3>1. parts.pending # <<>> => Head(parts.pending) \in PartHeaders
      BY <1>1 DEF TransportTypes
    <3>2. /\ NextPart = "media" => parts.pending # <<>>
          /\ NextPart = "done" => parts.ended
      BY <3>1 DEF NextPart, PartHeaders
    <3> QED BY <1>3, <3>2 DEF TakePart, stored
  <2>2. TransportTypes' /\ (parts'.ended => parts.ended)
    <3>1. parts.pending # <<>> => Tail(parts.pending) \in Seq(PartHeaders)
      BY <1>1 DEF TransportTypes
    <3>2. CASE UNCHANGED parts
      BY <2>1, <3>2, <1>1 DEF TransportTypes
    <3>3. CASE /\ parts' = [parts EXCEPT !.pending = Tail(@)]
               /\ parts.pending # <<>>
      <4>1. parts \in [pending : Seq(PartHeaders), failure : BOOLEAN, ended : BOOLEAN]
        BY <1>1 DEF TransportTypes
      <4>2. /\ parts' \in [pending : Seq(PartHeaders), failure : BOOLEAN, ended : BOOLEAN]
            /\ parts'.ended = parts.ended
        BY <3>1, <3>3, <4>1
      <4> QED BY <2>1, <4>2, <1>1 DEF TransportTypes
    <3> QED BY <2>1, <3>2, <3>3
  <2>3. CASE Goto("abort")
    BY <2>1, <2>2, <2>3, <1>1, GivingUpKeeps
  <2>4. CASE \/ Goto("reading") /\ ~request.accepted
             \/ Goto("inspect") /\ request.accepted /\ parts.ended
    <3>1. /\ request' \in RequestType
          /\ \/ request'.pc = "reading" /\ ~request.accepted
             \/ request'.pc = "inspect" /\ request.accepted /\ parts.ended
          /\ request'.bytes = request.bytes /\ request'.accepted = request.accepted
          /\ request'.cleanup = request.cleanup /\ request'.video = request.video
      BY <2>4, <1>1, GoesTo
    <3>2. PassTypes' /\ disk' \in DiskType /\ BodyRuns' /\ BodyIsWhole'
      BY <1>1, <2>1, <2>2, <3>1 DEF PassTypes, BodyRuns, BodyIsWhole
    <3>3. BytesAreCounted' /\ NothingYet' /\ EveryFileHasAFact' /\ PassKnows'
      BY <1>1, <2>1, <3>1 DEF BytesAreCounted, NothingYet, EveryFileHasAFact, PassKnows
    <3>4. FramesByStep' /\ OriginalByStep' /\ ReceiptByStep'
      BY <1>1, <2>1, <3>1 DEF FramesByStep, OriginalByStep, ReceiptByStep
    <3>5. AttachedIsWhole' /\ RefusedIsGone'
      BY <1>1, <2>1, <3>1 DEF AttachedIsWhole, RefusedIsGone
    <3> QED BY <2>2, <3>1, <3>2, <3>3, <3>4, <3>5
  <2> QED BY <2>1, <2>3, <2>4
<1>4. CASE ReadChunk /\ ~RefuseParts
  <2>1. /\ request.pc = "reading" /\ UNCHANGED <<wire, parts>>
        /\ request' = [request EXCEPT !.bytes = @ + 1]
        /\ disk' = [disk EXCEPT !.uploading = Written(@)]
        /\ file' = [file EXCEPT !.buffered = 0]
    BY <1>4 DEF ReadChunk
  <2>2. /\ request' \in RequestType /\ request'.pc = "reading"
        /\ request'.bytes = request.bytes + 1 /\ request'.accepted = request.accepted
        /\ request'.cleanup = request.cleanup /\ request'.video = request.video
    BY <2>1, <1>1 DEF RequestType
  <2>3. disk.uploading \in {request.bytes, Absent} /\ request.bytes \in Nat
    BY <1>1 DEF BytesAreCounted, RequestType
  <2>4. /\ disk' \in DiskType
        /\ disk'.uploading = Written(disk.uploading) /\ disk'.payload = disk.payload
        /\ disk'.original = disk.original /\ disk'.staging = disk.staging
        /\ disk'.frames = disk.frames /\ disk'.set = disk.set
    BY <2>1, <2>3, <1>1 DEF DiskType, Written, Absent
  <2>5. /\ disk.uploading = Absent => disk'.uploading = Absent
        /\ disk.uploading # Absent => disk'.uploading = request'.bytes
    BY <2>2, <2>3, <2>4 DEF Written
  <2>6. TransportTypes' /\ PassTypes' /\ BodyRuns' /\ BodyIsWhole'
    <3>1. file' \in [buffered : {0, 1}, end : {"none", "open", "ended", "broken"}]
      BY <2>1, <1>1 DEF TransportTypes
    <3>2. TransportTypes' /\ PassTypes' /\ BodyRuns'
      BY <3>1, <1>1, <2>1 DEF TransportTypes, PassTypes, BodyRuns
    <3> QED BY <3>2, <1>1, <2>1, <2>2, <2>3 DEF BodyIsWhole
  <2>7. BytesAreCounted' /\ NothingYet' /\ EveryFileHasAFact' /\ PassKnows'
    BY <1>1, <2>1, <2>2, <2>4, <2>5 DEF BytesAreCounted, NothingYet, EveryFileHasAFact,
       PassKnows, OriginalByStep
  <2>8. FramesByStep' /\ OriginalByStep' /\ ReceiptByStep'
    BY <1>1, <2>1, <2>2, <2>4, <2>5 DEF FramesByStep, OriginalByStep, ReceiptByStep
  <2>9. AttachedIsWhole' /\ RefusedIsGone'
    BY <1>1, <2>1, <2>2 DEF AttachedIsWhole, RefusedIsGone
  <2> QED BY <2>2, <2>4, <2>6, <2>7, <2>8, <2>9
<1>5. CASE ReadEnd /\ ~RefuseParts
  <2>1. /\ request.pc = "reading" /\ UNCHANGED <<wire, parts, file, disk>>
        /\ request.bytes # 0
        /\ request' = [request EXCEPT !.pc = "awaitPart", !.accepted = TRUE]
    BY <1>5 DEF ReadEnd, stored
  <2>2. /\ request' \in RequestType /\ request'.pc = "awaitPart"
        /\ request'.bytes = request.bytes /\ request'.accepted
        /\ request'.cleanup = request.cleanup /\ request'.video = request.video
        /\ request.bytes > 0
    <3>1. request.bytes > 0
      BY <2>1, <1>1 DEF RequestType
    <3> QED BY <2>1, <3>1, <1>1 DEF RequestType
  <2>3. TransportTypes' /\ PassTypes' /\ BodyRuns' /\ BodyIsWhole'
    BY <1>1, <2>1, <2>2 DEF TransportTypes, PassTypes, BodyRuns, BodyIsWhole
  <2>4. BytesAreCounted' /\ NothingYet' /\ EveryFileHasAFact' /\ PassKnows'
    BY <1>1, <2>1, <2>2 DEF BytesAreCounted, NothingYet, EveryFileHasAFact, PassKnows
  <2>5. FramesByStep' /\ OriginalByStep' /\ ReceiptByStep'
    BY <1>1, <2>1, <2>2 DEF FramesByStep, OriginalByStep, ReceiptByStep
  <2>6. AttachedIsWhole' /\ RefusedIsGone'
    BY <1>1, <2>1, <2>2 DEF AttachedIsWhole, RefusedIsGone
  <2> QED BY <1>1, <2>1, <2>2, <2>3, <2>4, <2>5, <2>6
<1>6. ReceiveStep /\ RefuseParts => UNCHANGED disk
  BY <1>1 DEF ReceiveStep, TakePart, ReadChunk, ReadBroken, ReadEnd, stored, RefuseParts,
     Goto, RequestType
<1> QED BY <1>2, <1>3, <1>4, <1>5, <1>6 DEF ReceiveStep, ReadBroken

(* The steps of the extraction: of the disk they touch the frames and      *)
(* their receipt, which the retention pass does not while the request runs. *)
Extracting == {"inspect", "scheduleFrames", "stage", "decode", "materialize", "receipt",
               "reserveFrames", "moveFrames", "completeFrames", "unstage"} \cup Dropping

LEMMA ExtractionKeeps ==
  ASSUME UploadInv, request.pc \in Extracting,
         request'.pc \in Extracting \cup {"reserve", "abort"},
         request.pc \in Dropping => request'.pc \notin Whole,
         UNCHANGED <<client, wire, parts, file, context, late, scavenger>>,
         request' \in RequestType, request'.bytes = request.bytes,
         request'.accepted = request.accepted,
         disk' \in DiskType, disk'.uploading = disk.uploading,
         disk'.payload = disk.payload, facts' \in {facts, facts \cup {"frame"}},
         disk'.staging # "absent" \/ disk'.frames # "absent" => "frame" \in facts',
         residue' \in BOOLEAN, FramesByStep', OriginalByStep', ReceiptByStep'
  PROVE  UploadInv'
<1> USE DEF UploadInv, UploadTypes, At, Running, attached, NoBytes, Opening, Unstaged,
        Whole, WithReceipt, Publishing, Dropping, Aborting, Finished, Extracting
<1>1. TransportTypes' /\ PassTypes' /\ BodyRuns' /\ BodyIsWhole'
  BY DEF TransportTypes, PassTypes, BodyRuns, BodyIsWhole, FactKinds
<1>2. ~attached /\ ~attached' /\ "frame" \notin late
  BY DEF AttachedIsWhole, PassKnows
<1>3. BytesAreCounted' /\ NothingYet' /\ EveryFileHasAFact'
  BY <1>2 DEF BytesAreCounted, NothingYet, EveryFileHasAFact
<1>4. PassKnows'
  BY <1>2 DEF PassKnows
<1>5. AttachedIsWhole' /\ RefusedIsGone'
  BY <1>2 DEF AttachedIsWhole, RefusedIsGone
<1> QED BY <1>1, <1>3, <1>4, <1>5

(* A step of the extraction that does what it is for, or takes away again  *)
(* what another left: of the disk it touches the frames and their receipt. *)
LEMMA ExtractingKeeps ==
  ASSUME UploadInv, ExtractStep
  PROVE  UploadInv'
<1> USE DEF UploadInv, UploadTypes
<1> DEFINE Frames(staging, frames, set) ==
             /\ disk' \in DiskType /\ disk'.uploading = disk.uploading
             /\ disk'.payload = disk.payload /\ disk'.original = disk.original
             /\ disk'.staging = staging /\ disk'.frames = frames /\ disk'.set = set
           Same(pc) == /\ request' \in RequestType /\ request'.pc = pc
                       /\ request'.bytes = request.bytes
                       /\ request'.accepted = request.accepted
           Details == FramesByStep' /\ OriginalByStep' /\ ReceiptByStep'
<1>1. /\ request \in RequestType /\ disk \in DiskType /\ TransportTypes
      /\ UNCHANGED <<client, wire, parts, file, context, late, scavenger>>
  BY DEF ExtractStep, Inspect, ScheduleFrames, Stage, Decode, Materialize, WriteReceipt,
     ReserveFrames, MoveFrames, CompleteFrames, Unstage, DropFrames, DropStaging,
     transport, stored
<1>2. disk' = disk => Frames(disk.staging, disk.frames, disk.set)
  BY <1>1
<1>3. CASE /\ UNCHANGED <<disk, facts, residue>>
           /\ \/ request.pc \in {"inspect", "scheduleFrames", "stage"} /\ Goto("abort")
              \/ /\ request.pc \in {"decode", "materialize", "receipt", "reserveFrames"}
                 /\ Goto("dropStaging")
              \/ request.pc \in {"moveFrames", "completeFrames"} /\ Goto("dropFrames")
  <2>1. {"abort", "dropStaging", "dropFrames"} \subseteq Steps /\ TransportTypes'
    BY <1>1 DEF Steps, Aborting, Dropping, TransportTypes
  <2>2. CASE Goto("abort") /\ request.pc \in {"inspect", "scheduleFrames", "stage"}
    BY <1>1, <1>3, <2>1, <2>2, GivingUpKeeps
  <2>3. CASE /\ Goto("dropStaging")
             /\ request.pc \in {"decode", "materialize", "receipt", "reserveFrames"}
    BY <1>1, <1>3, <2>1, <2>3, GivingUpKeeps
  <2>4. CASE Goto("dropFrames") /\ request.pc \in {"moveFrames", "completeFrames"}
    BY <1>1, <1>3, <2>1, <2>4, GivingUpKeeps
  <2> QED BY <1>3, <2>2, <2>3, <2>4
<1> USE DEF At, Running, attached, NoBytes, Steps, Opening, Unstaged, Whole, WithReceipt,
        Publishing, Dropping, Aborting, Finished
<1>4. CASE Inspect /\ ~UNCHANGED request /\ request'.pc = "scheduleFrames"
  <2>1. /\ request.pc = "inspect" /\ Goto("scheduleFrames")
        /\ disk' = disk
        /\ facts' = facts /\ residue' = residue
    BY <1>4, <1>1 DEF Inspect, stored, Goto, Sound, RequestType
  <2>2. /\ Same("scheduleFrames") /\ request'.cleanup = request.cleanup
        /\ request'.video = request.video
    BY <2>1, <1>1, GoesTo
  <2>3. Frames(disk.staging, disk.frames, disk.set)
    BY <2>1, <1>2
  <2>4. Details
    BY <1>1, <2>1, <2>2, <2>3 DEF FramesByStep, OriginalByStep, ReceiptByStep
  <2>5. disk'.staging # "absent" \/ disk'.frames # "absent" => "frame" \in facts'
    BY <2>1, <2>3 DEF EveryFileHasAFact, FramesByStep
  <2>6. /\ request.pc \in Extracting /\ request'.pc \in Extracting
        /\ request.pc \notin Dropping /\ residue' \in BOOLEAN
    BY <2>1, <2>2 DEF Extracting, PassTypes
  <2> QED BY <1>1, <2>1, <2>2, <2>3, <2>4, <2>5, <2>6, ExtractionKeeps
<1>5. CASE ScheduleFrames /\ ~UNCHANGED request /\ request'.pc = "stage"
  <2>1. /\ request.pc = "scheduleFrames" /\ Goto("stage")
        /\ disk' = disk
        /\ facts' = facts \cup {"frame"} /\ residue' = residue
    BY <1>5, <1>1 DEF ScheduleFrames, Goto, Sound, RequestType
  <2>2. /\ Same("stage") /\ request'.cleanup = request.cleanup
        /\ request'.video = request.video
    BY <2>1, <1>1, GoesTo
  <2>3. Frames(disk.staging, disk.frames, disk.set)
    BY <2>1, <1>2
  <2>4. Details
    BY <1>1, <2>1, <2>2, <2>3 DEF FramesByStep, OriginalByStep, ReceiptByStep
  <2>5. disk'.staging # "absent" \/ disk'.frames # "absent" => "frame" \in facts'
    BY <2>1, <2>3 DEF EveryFileHasAFact, FramesByStep
  <2>6. /\ request.pc \in Extracting /\ request'.pc \in Extracting
        /\ request.pc \notin Dropping /\ residue' \in BOOLEAN
    BY <2>1, <2>2 DEF Extracting, PassTypes
  <2> QED BY <1>1, <2>1, <2>2, <2>3, <2>4, <2>5, <2>6, ExtractionKeeps
<1>6. CASE Stage /\ ~UNCHANGED request /\ request'.pc = "decode"
  <2>1. /\ request.pc = "stage" /\ Goto("decode")
        /\ disk' = [disk EXCEPT !.staging = "owned"]
        /\ facts' = facts /\ residue' = residue
    BY <1>6, <1>1 DEF Stage, Goto, Sound, RequestType
  <2>2. /\ Same("decode") /\ request'.cleanup = request.cleanup
        /\ request'.video = request.video
    BY <2>1, <1>1, GoesTo
  <2>3. Frames("owned", disk.frames, disk.set)
    BY <2>1, <1>1 DEF DiskType
  <2>4. Details
    BY <1>1, <2>1, <2>2, <2>3 DEF FramesByStep, OriginalByStep, ReceiptByStep
  <2>5. disk'.staging # "absent" \/ disk'.frames # "absent" => "frame" \in facts'
    BY <2>1, <2>3 DEF EveryFileHasAFact, FramesByStep
  <2>6. /\ request.pc \in Extracting /\ request'.pc \in Extracting
        /\ request.pc \notin Dropping /\ residue' \in BOOLEAN
    BY <2>1, <2>2 DEF Extracting, PassTypes
  <2> QED BY <1>1, <2>1, <2>2, <2>3, <2>4, <2>5, <2>6, ExtractionKeeps
<1>7. CASE Decode /\ ~UNCHANGED request /\ request'.pc = "materialize"
  <2>1. /\ request.pc = "decode" /\ \E video \in Selectable :
             request' = [request EXCEPT !.pc = "materialize", !.video = video]
        /\ disk' = disk
        /\ facts' = facts /\ residue' = residue
    BY <1>7, <1>1 DEF Decode, stored, Goto, Sound, RequestType
  <2>2. /\ Same("materialize") /\ request'.cleanup = request.cleanup
        /\ request'.video \in Selectable
    BY <2>1, <1>1, ZenonT(60) DEF RequestType, Selectable, Admitted
  <2>3. Frames(disk.staging, disk.frames, disk.set)
    BY <2>1, <1>2
  <2>4. Details
    BY <1>1, <2>1, <2>2, <2>3 DEF FramesByStep, OriginalByStep, ReceiptByStep
  <2>5. disk'.staging # "absent" \/ disk'.frames # "absent" => "frame" \in facts'
    BY <2>1, <2>3 DEF EveryFileHasAFact, FramesByStep
  <2>6. /\ request.pc \in Extracting /\ request'.pc \in Extracting
        /\ request.pc \notin Dropping /\ residue' \in BOOLEAN
    BY <2>1, <2>2 DEF Extracting, PassTypes
  <2> QED BY <1>1, <2>1, <2>2, <2>3, <2>4, <2>5, <2>6, ExtractionKeeps
<1>8. CASE Materialize /\ ~UNCHANGED request /\ request'.pc = "receipt"
  <2>1. /\ request.pc = "materialize" /\ Goto("receipt") /\ request.video \in Extractable
        /\ disk' = disk
        /\ facts' = facts /\ residue' = residue
    BY <1>8, <1>1 DEF Materialize, stored, Goto, Sound, RequestType
  <2>2. /\ Same("receipt") /\ request'.cleanup = request.cleanup
        /\ request'.video = request.video
    BY <2>1, <1>1, GoesTo
  <2>3. Frames(disk.staging, disk.frames, disk.set)
    BY <2>1, <1>2
  <2>4. Details
    BY <1>1, <2>1, <2>2, <2>3 DEF FramesByStep, OriginalByStep, ReceiptByStep
  <2>5. disk'.staging # "absent" \/ disk'.frames # "absent" => "frame" \in facts'
    BY <2>1, <2>3 DEF EveryFileHasAFact, FramesByStep
  <2>6. /\ request.pc \in Extracting /\ request'.pc \in Extracting
        /\ request.pc \notin Dropping /\ residue' \in BOOLEAN
    BY <2>1, <2>2 DEF Extracting, PassTypes
  <2> QED BY <1>1, <2>1, <2>2, <2>3, <2>4, <2>5, <2>6, ExtractionKeeps
<1>9. CASE WriteReceipt /\ ~UNCHANGED request /\ request'.pc = "reserveFrames"
  <2>1. /\ request.pc = "receipt" /\ Goto("reserveFrames")
        /\ disk' = [disk EXCEPT !.staging = "ready",
                      !.set = SetOf(request.video, request.bytes)]
        /\ facts' = facts /\ residue' = residue
    BY <1>9, <1>1 DEF WriteReceipt, Receipt, SetOf, Goto, Sound, RequestType
  <2>2. /\ Same("reserveFrames") /\ request'.cleanup = request.cleanup
        /\ request'.video = request.video
    BY <2>1, <1>1, GoesTo
  <2>0. SetOf(request.video, request.bytes) \in Sets
    BY <2>1, <1>1 DEF Sets, ReceiptByStep, RequestType
  <2>3. Frames("ready", disk.frames, SetOf(request.video, request.bytes))
    BY <2>1, <1>1, <2>0 DEF DiskType
  <2>4. Details
    BY <1>1, <2>1, <2>2, <2>3 DEF FramesByStep, OriginalByStep, ReceiptByStep
  <2>5. disk'.staging # "absent" \/ disk'.frames # "absent" => "frame" \in facts'
    BY <2>1, <2>3 DEF EveryFileHasAFact, FramesByStep
  <2>6. /\ request.pc \in Extracting /\ request'.pc \in Extracting
        /\ request.pc \notin Dropping /\ residue' \in BOOLEAN
    BY <2>1, <2>2 DEF Extracting, PassTypes
  <2> QED BY <1>1, <2>1, <2>2, <2>3, <2>4, <2>5, <2>6, ExtractionKeeps
<1>10. CASE ReserveFrames /\ ~UNCHANGED request /\ request'.pc = "moveFrames"
  <2>1. /\ request.pc = "reserveFrames" /\ Goto("moveFrames")
        /\ disk' = [disk EXCEPT !.frames = "partial"]
        /\ facts' = facts /\ residue' = residue
    BY <1>10, <1>1 DEF ReserveFrames, Goto, Sound, RequestType
  <2>2. /\ Same("moveFrames") /\ request'.cleanup = request.cleanup
        /\ request'.video = request.video
    BY <2>1, <1>1, GoesTo
  <2>3. Frames(disk.staging, "partial", disk.set)
    BY <2>1, <1>1 DEF DiskType
  <2>4. Details
    BY <1>1, <2>1, <2>2, <2>3 DEF FramesByStep, OriginalByStep, ReceiptByStep
  <2>5. disk'.staging # "absent" \/ disk'.frames # "absent" => "frame" \in facts'
    BY <2>1, <2>3 DEF EveryFileHasAFact, FramesByStep
  <2>6. /\ request.pc \in Extracting /\ request'.pc \in Extracting
        /\ request.pc \notin Dropping /\ residue' \in BOOLEAN
    BY <2>1, <2>2 DEF Extracting, PassTypes
  <2> QED BY <1>1, <2>1, <2>2, <2>3, <2>4, <2>5, <2>6, ExtractionKeeps
<1>11. CASE MoveFrames /\ ~UNCHANGED request /\ request'.pc = "completeFrames"
  <2>1. /\ request.pc = "moveFrames" /\ Goto("completeFrames")
        /\ disk' = [disk EXCEPT !.frames = "moved", !.staging = "owned"]
        /\ facts' = facts /\ residue' = residue
    BY <1>11, <1>1 DEF MoveFrames, Goto, Sound, RequestType
  <2>2. /\ Same("completeFrames") /\ request'.cleanup = request.cleanup
        /\ request'.video = request.video
    BY <2>1, <1>1, GoesTo
  <2>3. Frames("owned", "moved", disk.set)
    BY <2>1, <1>1 DEF DiskType
  <2>4. Details
    BY <1>1, <2>1, <2>2, <2>3 DEF FramesByStep, OriginalByStep, ReceiptByStep
  <2>5. disk'.staging # "absent" \/ disk'.frames # "absent" => "frame" \in facts'
    BY <2>1, <2>3 DEF EveryFileHasAFact, FramesByStep
  <2>6. /\ request.pc \in Extracting /\ request'.pc \in Extracting
        /\ request.pc \notin Dropping /\ residue' \in BOOLEAN
    BY <2>1, <2>2 DEF Extracting, PassTypes
  <2> QED BY <1>1, <2>1, <2>2, <2>3, <2>4, <2>5, <2>6, ExtractionKeeps
<1>12. CASE CompleteFrames /\ ~UNCHANGED request /\ request'.pc = "unstage"
  <2>1. /\ request.pc = "completeFrames" /\ Goto("unstage")
        /\ disk' = [disk EXCEPT !.frames = "complete"]
        /\ facts' = facts /\ residue' = residue
    BY <1>12, <1>1 DEF CompleteFrames, Goto, Sound, RequestType
  <2>2. /\ Same("unstage") /\ request'.cleanup = request.cleanup
        /\ request'.video = request.video
    BY <2>1, <1>1, GoesTo
  <2>3. Frames(disk.staging, "complete", disk.set)
    BY <2>1, <1>1 DEF DiskType
  <2>4. Details
    BY <1>1, <2>1, <2>2, <2>3 DEF FramesByStep, OriginalByStep, ReceiptByStep
  <2>5. disk'.staging # "absent" \/ disk'.frames # "absent" => "frame" \in facts'
    BY <2>1, <2>3 DEF EveryFileHasAFact, FramesByStep
  <2>6. /\ request.pc \in Extracting /\ request'.pc \in Extracting
        /\ request.pc \notin Dropping /\ residue' \in BOOLEAN
    BY <2>1, <2>2 DEF Extracting, PassTypes
  <2> QED BY <1>1, <2>1, <2>2, <2>3, <2>4, <2>5, <2>6, ExtractionKeeps
<1>13. CASE Unstage \/ DropFrames \/ DropStaging
  <2>1. PICK gone \in DiskType :
          /\ gone.uploading = disk.uploading /\ gone.payload = disk.payload
          /\ gone.original = disk.original
          /\ \/ /\ request.pc \in {"unstage", "dropStaging"}
                /\ gone.staging = "absent" /\ gone.frames = disk.frames
             \/ /\ request.pc = "dropFrames"
                /\ gone.staging = disk.staging /\ gone.frames = "absent"
          /\ gone.set = disk.set
          /\ \/ disk' = Swept(gone) /\ residue' = residue
             \/ disk' = disk /\ residue' = TRUE
    <3>1. CASE Unstage \/ DropStaging
      <4>1. [disk EXCEPT !.staging = "absent"] \in DiskType
        BY <1>1 DEF DiskType
      <4> QED BY <3>1, <4>1, <1>1 DEF Unstage, DropStaging, Removed, RemovalFails, DiskType
    <3>2. CASE DropFrames
      <4>1. [disk EXCEPT !.frames = "absent"] \in DiskType
        BY <1>1 DEF DiskType
      <4> QED BY <3>2, <4>1, <1>1 DEF DropFrames, Removed, RemovalFails, DiskType
    <3> QED BY <3>1, <3>2, <1>13
  <2>2. \/ disk' = disk /\ residue'
        \/ /\ Frames(gone.staging, gone.frames, Swept(gone).set)
           /\ residue' = residue
           /\ gone.staging = "ready" \/ gone.frames \in {"moved", "complete"} =>
                disk'.set = disk.set
           /\ \/ gone.staging = "ready" \/ gone.frames \in {"moved", "complete"}
              \/ disk'.set = NoSet
    BY <2>1, SweptKeeps
  <2>3. residue' \in BOOLEAN /\ facts' = facts
    BY <2>1, <1>13 DEF Unstage, DropFrames, DropStaging, PassTypes
  <2>4. CASE Unstage
    <3>1. /\ request.pc = "unstage" /\ Same("reserve") /\ request'.cleanup
          /\ request'.video = request.video
      BY <2>4, <1>1 DEF Unstage, RequestType
    <3>2. FramesByStep'
      BY <1>1, <1>2, <2>1, <2>2, <2>4, <3>1 DEF FramesByStep
    <3>4. OriginalByStep' /\ ReceiptByStep'
      BY <1>1, <1>2, <2>1, <2>2, <2>4, <3>1 DEF FramesByStep, OriginalByStep, ReceiptByStep
    <3>3. /\ disk'.staging # "absent" \/ disk'.frames # "absent" => "frame" \in facts'
          /\ disk' \in DiskType /\ disk'.uploading = disk.uploading
          /\ disk'.payload = disk.payload
      BY <1>1, <2>1, <2>2, <2>3 DEF EveryFileHasAFact
    <3> QED BY <1>1, <2>3, <3>1, <3>2, <3>3, <3>4, ExtractionKeeps DEF Extracting
  <2>5. CASE DropFrames \/ DropStaging
    <3>1. /\ \/ DropFrames /\ request.pc = "dropFrames" /\ Same("dropStaging")
             \/ DropStaging /\ request.pc = "dropStaging" /\ Same("abort")
          /\ request'.cleanup = request.cleanup /\ request'.video = request.video
      BY <2>5, <1>1, GoesTo DEF DropFrames, DropStaging
    <3>2. FramesByStep'
      BY <1>1, <1>2, <2>1, <2>2, <2>5, <3>1 DEF FramesByStep
    <3>4. OriginalByStep' /\ ReceiptByStep'
      BY <1>1, <1>2, <2>1, <2>2, <2>5, <3>1 DEF FramesByStep, OriginalByStep, ReceiptByStep
    <3>3. /\ disk'.staging # "absent" \/ disk'.frames # "absent" => "frame" \in facts'
          /\ disk' \in DiskType /\ disk'.uploading = disk.uploading
          /\ disk'.payload = disk.payload
      BY <1>1, <2>1, <2>2, <2>3 DEF EveryFileHasAFact
    <3> QED BY <1>1, <2>3, <3>1, <3>2, <3>3, <3>4, ExtractionKeeps DEF Extracting
  <2> QED BY <1>13, <2>4, <2>5
<1> QED
  BY <1>3, <1>4, <1>5, <1>6, <1>7, <1>8, <1>9, <1>10, <1>11, <1>12, <1>13, <1>1 DEF ExtractStep, Inspect,
     ScheduleFrames, Stage, Decode, Materialize, WriteReceipt, ReserveFrames, MoveFrames,
     CompleteFrames, Goto, RequestType, stored

(* The original is published beside its frames, and the media attached.    *)
LEMMA PublishingKeeps ==
  ASSUME UploadInv, PublishStep
  PROVE  UploadInv'
<1> USE DEF UploadInv, UploadTypes
<1>1. /\ request \in RequestType /\ disk \in DiskType /\ TransportTypes
      /\ UNCHANGED <<client, wire, parts, file, late, scavenger, residue>>
      /\ request.pc \in Publishing
  BY DEF PublishStep, Reserve, Rename, Disown, Attach, transport, At, Publishing
<1>2. CASE /\ UNCHANGED <<disk, facts, context>>
           /\ \/ request.pc \in {"reserve", "rename", "disown"} /\ Goto("abort")
              \/ request.pc = "attach" /\ Goto("cleanup")
  <2>1. {"abort", "cleanup"} \subseteq Steps /\ TransportTypes'
    BY <1>1 DEF Steps, Aborting, TransportTypes
  <2>2. CASE Goto("abort") /\ request.pc \in {"reserve", "rename", "disown"}
    BY <1>1, <1>2, <2>1, <2>2, GivingUpKeeps
  <2>3. CASE Goto("cleanup") /\ request.pc = "attach"
    BY <1>1, <1>2, <2>1, <2>3, GivingUpKeeps
  <2> QED BY <1>2, <2>2, <2>3
<1> USE DEF At, Running, attached, NoBytes, Steps, Opening, Unstaged, Whole, WithReceipt,
        Publishing, Dropping, Aborting, Finished
<1>3. facts' = facts => TransportTypes' /\ PassTypes' /\ BodyRuns'
  BY <1>1 DEF TransportTypes, PassTypes, BodyRuns
<1>4. CASE /\ UNCHANGED <<facts, context>>
           /\ \/ disk' = [disk EXCEPT !.original = "owned"]
              \/ disk' = [disk EXCEPT !.original = "unowned"]
           /\ \/ request.pc = "reserve" /\ Goto("rename")
              \/ request.pc = "disown" /\ Goto("attach")
              \/ request.pc \in {"reserve", "disown"} /\ Goto("abort")
  <2>1. /\ disk' \in DiskType /\ disk'.uploading = disk.uploading
        /\ disk'.payload = disk.payload /\ disk'.staging = disk.staging
        /\ disk'.frames = disk.frames /\ disk'.set = disk.set
    BY <1>1, <1>4 DEF DiskType
  <2>2. /\ request' \in RequestType
        /\ request'.bytes = request.bytes /\ request'.accepted = request.accepted
        /\ request'.cleanup = request.cleanup /\ request'.video = request.video
        /\ \/ request.pc = "reserve" /\ request'.pc = "rename"
           \/ request.pc = "disown" /\ request'.pc = "attach"
           \/ request.pc \in {"reserve", "disown"} /\ request'.pc = "abort"
    BY <1>1, <1>4, GoesTo
  <2>3. BodyIsWhole' /\ BytesAreCounted' /\ NothingYet' /\ EveryFileHasAFact' /\ PassKnows'
    BY <1>1, <1>4, <2>1, <2>2 DEF BodyIsWhole, BytesAreCounted, NothingYet,
       EveryFileHasAFact, PassKnows
  <2>4. FramesByStep' /\ OriginalByStep' /\ ReceiptByStep'
    BY <1>1, <1>4, <2>1, <2>2 DEF FramesByStep, OriginalByStep, ReceiptByStep
  <2>5. AttachedIsWhole' /\ RefusedIsGone'
    BY <1>1, <1>4, <2>2 DEF AttachedIsWhole, RefusedIsGone
  <2> QED BY <1>3, <1>4, <2>1, <2>2, <2>3, <2>4, <2>5
<1>5. CASE Rename /\ Goto("disown")
  <2>1. /\ request.pc = "rename" /\ Goto("disown") /\ disk.uploading # Absent
        /\ disk' = [disk EXCEPT !.payload = disk.uploading, !.uploading = Absent]
        /\ UNCHANGED <<facts, context>>
    BY <1>1, <1>5 DEF Rename, Goto, RequestType
  <2>2. /\ disk' \in DiskType /\ disk'.uploading = Absent
        /\ disk'.payload = disk.uploading /\ disk'.original = disk.original
        /\ disk'.staging = disk.staging /\ disk'.frames = disk.frames
        /\ disk'.set = disk.set
    BY <1>1, <2>1 DEF DiskType
  <2>3. /\ request' \in RequestType /\ request'.pc = "disown"
        /\ request'.bytes = request.bytes /\ request'.accepted = request.accepted
        /\ request'.cleanup = request.cleanup /\ request'.video = request.video
    BY <1>1, <2>1, GoesTo
  <2>4. BodyIsWhole' /\ BytesAreCounted' /\ NothingYet' /\ EveryFileHasAFact' /\ PassKnows'
    BY <1>1, <2>1, <2>2, <2>3 DEF BodyIsWhole, BytesAreCounted, NothingYet,
       EveryFileHasAFact, PassKnows
  <2>5. FramesByStep' /\ OriginalByStep' /\ ReceiptByStep'
    BY <1>1, <2>1, <2>2, <2>3 DEF FramesByStep, OriginalByStep, ReceiptByStep
  <2>6. AttachedIsWhole' /\ RefusedIsGone'
    BY <1>1, <2>1, <2>3 DEF AttachedIsWhole, RefusedIsGone
  <2> QED BY <1>3, <2>1, <2>2, <2>3, <2>4, <2>5, <2>6
<1>6. CASE Attach /\ AttachAllowed /\ Goto("answer")
  <2>1. PICK video \in Extractable : video = request.video
    BY <1>6, <1>1 DEF Attach, ReceiptByStep
  <2>2. /\ request.pc = "attach" /\ UNCHANGED disk
        /\ context' = ContextOf(ReceiptOf(video, request.bytes), video.mode, request.bytes)
        /\ facts' = facts \ {"temporary"} /\ "temporary" \in facts
    BY <1>6, <2>1, <1>1 DEF Attach, AttachAllowed, Receipt, RequestType, Goto
  <2>3. context' # NoContext
    <3>1. context'.mode = video.mode /\ NoContext.mode = "none"
      BY <2>2 DEF ContextOf, NoContext
    <3>2. video.mode \in {"free", "verified"}
      BY BundleAssumption DEF Extractable, Selectable, Admitted
    <3> QED BY <3>1, <3>2
  <2>4. /\ request' \in RequestType /\ request'.pc = "answer"
        /\ request'.bytes = request.bytes /\ request'.accepted = request.accepted
        /\ request'.cleanup = request.cleanup /\ request'.video = request.video
    BY <1>1, <1>6, GoesTo
  <2>5. /\ disk.frames = "complete" /\ (disk.staging = "absent" \/ residue)
        /\ disk.set = SetOf(video, request.bytes) /\ disk.uploading = Absent
        /\ disk.payload = Absent => "temporary" \in late
        /\ client.at \in {"sent", "left"} /\ request.bytes > 0
    BY <2>1, <2>2 DEF FramesByStep, ReceiptByStep, OriginalByStep, BodyIsWhole
  <2>6. AttachedIsWhole' /\ RefusedIsGone'
    BY <1>1, <2>2, <2>3, <2>4, <2>5 DEF AttachedIsWhole, RefusedIsGone
  <2>7. TransportTypes' /\ PassTypes' /\ BodyRuns'
    BY <1>1, <2>2 DEF TransportTypes, PassTypes, BodyRuns
  <2>8. BodyIsWhole' /\ BytesAreCounted' /\ NothingYet'
    BY <1>1, <2>2, <2>4 DEF BodyIsWhole, BytesAreCounted, NothingYet
  <2>9. EveryFileHasAFact' /\ PassKnows'
    BY <1>1, <2>2, <2>3, <2>4, <2>5 DEF EveryFileHasAFact, PassKnows
  <2>10. FramesByStep' /\ OriginalByStep' /\ ReceiptByStep'
    BY <1>1, <2>2, <2>4 DEF FramesByStep, OriginalByStep, ReceiptByStep
  <2> QED BY <1>1, <2>2, <2>4, <2>6, <2>7, <2>8, <2>9, <2>10
<1>7. CASE Reserve \/ Disown
  BY <1>1, <1>2, <1>4, <1>7 DEF Reserve, Disown
<1>8. CASE Rename \/ Attach
  BY <1>1, <1>2, <1>5, <1>6, <1>8 DEF Rename, Attach
<1> QED BY <1>7, <1>8 DEF PublishStep

(* An upload that is given up leaves nothing, unless a removal failed.     *)
LEMMA AbortingKeeps ==
  ASSUME UploadInv, AbortStep
  PROVE  UploadInv'
<1> USE DEF UploadInv, UploadTypes
<1>1. /\ request \in RequestType /\ disk \in DiskType /\ TransportTypes
      /\ UNCHANGED <<client, wire, parts, file, context, late, scavenger>>
      /\ request.pc \in Aborting \cup {"cleanup"}
      /\ residue' \in BOOLEAN /\ (residue => residue')
      /\ facts' \in {facts, facts \ {"temporary"}}
  BY DEF AbortStep, AbortTemporary, AbortPublication, AcknowledgeTemporary, Cleanup,
     transport, At, Aborting, RemovalFails, PassTypes
<1>2. TransportTypes' /\ PassTypes' /\ BodyRuns'
  BY <1>1 DEF TransportTypes, PassTypes, BodyRuns
<1>3. AfterAbort \in {"cleanup", "answer"} /\ (AfterAbort = "cleanup" <=> request.cleanup)
  BY DEF AfterAbort
<1> DEFINE Same == /\ request' \in RequestType
                   /\ request'.bytes = request.bytes
                   /\ request'.accepted = request.accepted
                   /\ request'.cleanup = request.cleanup /\ request'.video = request.video
<1> USE DEF At, Running, attached, NoBytes, Steps, Opening, Unstaged, Whole, WithReceipt,
        Publishing, Dropping, Aborting, Finished
<1>4. ~attached /\ ~attached' /\ "frame" \notin late
  BY <1>1 DEF AttachedIsWhole, PassKnows
<1>5. CASE AbortTemporary
  <2>1. /\ request.pc = "abort" /\ facts' = facts /\ Same
        /\ \/ request'.pc = "abortPublication" /\ disk' = [disk EXCEPT !.uploading = Absent]
           \/ request'.pc = AfterAbort /\ disk' = disk /\ residue'
    BY <1>1, <1>3, <1>5, GoesTo DEF AbortTemporary, RemovalFails
  <2>2. /\ disk' \in DiskType /\ disk'.payload = disk.payload
        /\ disk'.original = disk.original /\ disk'.staging = disk.staging
        /\ disk'.frames = disk.frames /\ disk'.set = disk.set
        /\ \/ request'.pc = "abortPublication" /\ disk'.uploading = Absent
           \/ request'.pc = AfterAbort /\ disk'.uploading = disk.uploading /\ residue'
    BY <1>1, <2>1 DEF DiskType
  <2>3. BodyIsWhole' /\ BytesAreCounted' /\ NothingYet' /\ EveryFileHasAFact' /\ PassKnows'
    BY <1>1, <1>3, <1>4, <2>1, <2>2 DEF BodyIsWhole, BytesAreCounted, NothingYet,
       EveryFileHasAFact, PassKnows
  <2>4. FramesByStep' /\ OriginalByStep' /\ ReceiptByStep'
    BY <1>1, <1>3, <2>1, <2>2 DEF FramesByStep, OriginalByStep, ReceiptByStep
  <2>5. AttachedIsWhole' /\ RefusedIsGone'
    BY <1>1, <1>3, <1>4, <2>1, <2>2 DEF AttachedIsWhole, RefusedIsGone
  <2> QED BY <1>2, <2>1, <2>2, <2>3, <2>4, <2>5
<1>6. CASE AbortPublication
  <2>1. /\ request.pc = "abortPublication" /\ facts' = facts /\ Same
        /\ \/ /\ request'.pc = "acknowledge"
              /\ disk' = [disk EXCEPT !.original = "absent", !.payload = Absent]
           \/ request'.pc = AfterAbort /\ disk' = disk /\ disk.original = "unowned"
           \/ request'.pc = AfterAbort /\ disk' = disk /\ residue'
    BY <1>1, <1>3, <1>6, GoesTo DEF AbortPublication, RemovalFails, PublicationClean
  <2>2. /\ disk' \in DiskType /\ disk'.uploading = disk.uploading
        /\ disk'.staging = disk.staging /\ disk'.frames = disk.frames
        /\ disk'.set = disk.set
        /\ \/ /\ request'.pc = "acknowledge" /\ disk'.original = "absent"
              /\ disk'.payload = Absent
           \/ /\ request'.pc = AfterAbort /\ disk'.original = disk.original
              /\ disk'.payload = disk.payload
              /\ residue' \/ disk.original = "unowned"
    BY <1>1, <2>1 DEF DiskType
  <2>3. BodyIsWhole' /\ BytesAreCounted' /\ NothingYet' /\ EveryFileHasAFact' /\ PassKnows'
    BY <1>1, <1>3, <1>4, <2>1, <2>2 DEF BodyIsWhole, BytesAreCounted, NothingYet,
       EveryFileHasAFact, PassKnows
  <2>4. FramesByStep' /\ OriginalByStep' /\ ReceiptByStep'
    BY <1>1, <1>3, <2>1, <2>2 DEF FramesByStep, OriginalByStep, ReceiptByStep
  <2>5. AttachedIsWhole' /\ RefusedIsGone'
    BY <1>1, <1>3, <1>4, <2>1, <2>2 DEF AttachedIsWhole, RefusedIsGone, OriginalByStep
  <2> QED BY <1>2, <2>1, <2>2, <2>3, <2>4, <2>5
<1>7. CASE AcknowledgeTemporary
  <2>1. request.pc = "acknowledge" /\ UNCHANGED <<disk, residue>> /\ Same
        /\ request'.pc = AfterAbort
    BY <1>1, <1>3, <1>7, GoesTo DEF AcknowledgeTemporary
  <2>2. disk.uploading = Absent /\ disk.payload = Absent /\ disk.original = "absent"
    BY <2>1 DEF OriginalByStep
  <2>3. BodyIsWhole' /\ BytesAreCounted' /\ NothingYet' /\ EveryFileHasAFact' /\ PassKnows'
    BY <1>1, <1>3, <1>4, <2>1, <2>2 DEF BodyIsWhole, BytesAreCounted, NothingYet,
       EveryFileHasAFact, PassKnows
  <2>4. FramesByStep' /\ OriginalByStep' /\ ReceiptByStep'
    BY <1>1, <1>3, <2>1, <2>2 DEF FramesByStep, OriginalByStep, ReceiptByStep
  <2>5. AttachedIsWhole' /\ RefusedIsGone'
    BY <1>1, <1>3, <1>4, <2>1, <2>2 DEF AttachedIsWhole, RefusedIsGone, FramesByStep,
       DiskType, EmptyDisk
  <2> QED BY <1>1, <1>2, <2>1, <2>3, <2>4, <2>5
<1>8. CASE Cleanup
  <2>1. request.pc = "cleanup" /\ Same /\ request'.pc = "answer" /\ facts' = facts
    BY <1>1, <1>8, GoesTo DEF Cleanup
  <2>2. /\ WithoutOriginal \in DiskType /\ WithoutOriginal.original = "absent"
        /\ WithoutOriginal.uploading = disk.uploading /\ WithoutOriginal.payload = Absent
        /\ WithoutOriginal.staging = disk.staging /\ WithoutOriginal.frames = disk.frames
        /\ WithoutOriginal.set = disk.set
    BY <1>1 DEF WithoutOriginal, DiskType
  <2>3. /\ WithoutFrames \in DiskType /\ WithoutFrames.original = disk.original
        /\ WithoutFrames.uploading = disk.uploading /\ WithoutFrames.payload = disk.payload
        /\ WithoutFrames.staging = "absent" /\ WithoutFrames.frames = "absent"
        /\ WithoutFrames.set = NoSet
    <3> DEFINE left == [disk EXCEPT !.frames = "absent", !.staging = "absent"]
    <3>1. /\ left \in DiskType /\ left.staging = "absent" /\ left.frames = "absent"
          /\ left.original = disk.original /\ left.uploading = disk.uploading
          /\ left.payload = disk.payload
      BY <1>1 DEF DiskType
    <3>2. WithoutFrames = Swept(left)
      BY DEF WithoutFrames
    <3> HIDE DEF left
    <3> QED BY <3>1, <3>2, SweptKeeps
  <2>4. /\ disk' \in DiskType /\ disk'.uploading = disk.uploading
        /\ disk'.payload \in {disk.payload, Absent}
        /\ \/ disk'.staging = disk.staging /\ disk'.frames = disk.frames
                /\ disk'.set = disk.set
           \/ disk'.staging = "absent" /\ disk'.frames = "absent" /\ disk'.set = NoSet
        /\ \/ residue'
           \/ /\ disk'.original = "absent" /\ disk'.payload = Absent
              /\ disk'.staging = "absent" /\ disk'.frames = "absent"
              /\ disk'.set = NoSet /\ residue' = residue
    <3>1. CASE Sound /\ UNCHANGED residue
               /\ disk' = [WithoutFrames EXCEPT !.original = "absent", !.payload = Absent]
      BY <2>3, <3>1 DEF DiskType
    <3>2. CASE RemovalFails /\ disk' \in {disk, WithoutOriginal, WithoutFrames}
      BY <2>2, <2>3, <3>2, <1>1 DEF RemovalFails
    <3> QED BY <3>1, <3>2, <1>8 DEF Cleanup
  <2>5. BodyIsWhole' /\ BytesAreCounted' /\ NothingYet' /\ EveryFileHasAFact' /\ PassKnows'
    BY <1>1, <1>4, <2>1, <2>4 DEF BodyIsWhole, BytesAreCounted, NothingYet,
       EveryFileHasAFact, PassKnows
  <2>6. FramesByStep' /\ OriginalByStep' /\ ReceiptByStep'
    BY <1>1, <2>1, <2>4 DEF FramesByStep, OriginalByStep, ReceiptByStep
  <2>7. AttachedIsWhole' /\ RefusedIsGone'
    BY <1>1, <1>4, <2>1, <2>4 DEF AttachedIsWhole, RefusedIsGone, OriginalByStep,
       DiskType, EmptyDisk
  <2> QED BY <1>2, <2>1, <2>4, <2>5, <2>6, <2>7
<1> QED BY <1>5, <1>6, <1>7, <1>8 DEF AbortStep

LEMMA AnswerKeeps ==
  ASSUME UploadInv, Answer
  PROVE  UploadInv'
<1> USE DEF UploadInv, UploadTypes
<1>1. /\ request.pc = "answer" /\ request \in RequestType
      /\ request' = [request EXCEPT !.pc = "answered", !.video = NoVideo]
      /\ UNCHANGED <<client, parts, file, disk, facts, context, late, scavenger, residue>>
      /\ wire' = wire \/ wire' = [wire EXCEPT !.reader = "drain"]
  BY DEF Answer, stored, At
<1> USE DEF At, Running, attached, NoBytes, Steps, Opening, Unstaged, Whole, WithReceipt,
        Publishing, Dropping, Aborting, Finished
<1>2. /\ request' \in RequestType /\ request'.pc = "answered"
      /\ request'.bytes = request.bytes /\ request'.accepted = request.accepted
      /\ request'.cleanup = request.cleanup
  BY <1>1 DEF RequestType
<1>3. wire' \in [reader : {"nobody", "parser", "drain"}, counted : Nat]
  BY <1>1 DEF TransportTypes
<1>4. TransportTypes' /\ PassTypes' /\ BodyRuns' /\ BodyIsWhole'
  BY <1>1, <1>2, <1>3 DEF TransportTypes, PassTypes, BodyRuns, BodyIsWhole
<1>5. BytesAreCounted' /\ NothingYet' /\ EveryFileHasAFact' /\ PassKnows'
  BY <1>1, <1>2 DEF BytesAreCounted, NothingYet, EveryFileHasAFact, PassKnows
<1>6. FramesByStep' /\ OriginalByStep' /\ ReceiptByStep'
  BY <1>1, <1>2 DEF FramesByStep, OriginalByStep, ReceiptByStep
<1>7. AttachedIsWhole' /\ RefusedIsGone'
  BY <1>1, <1>2 DEF AttachedIsWhole, RefusedIsGone
<1> QED BY <1>1, <1>2, <1>4, <1>5, <1>6, <1>7

-----------------------------------------------------------------------------
(* The retention pass, the deadlines and the end of the process.           *)

PassType == [at : {"idle", "next", "first", "second", "acknowledge"},
             due : SUBSET FactKinds, kind : FactKinds, missed : BOOLEAN]

(* A pass that moves without touching a file or a record.                  *)
LEMMA PassMoves ==
  ASSUME UploadInv, scavenger' \in PassType,
         UNCHANGED <<client, wire, parts, file, request, disk, facts, late, context,
                     residue>>,
         request.pc \notin Opening, scavenger'.due \subseteq late,
         \/ scavenger'.at \in {"idle", "next"}
         \/ scavenger'.at = "first" /\ scavenger'.kind \in late,
         scavenger.at # "acknowledge", scavenger.missed => scavenger'.missed
  PROVE  UploadInv'
<1> USE DEF UploadInv, UploadTypes, At, Running, attached, NoBytes
<1>1. TransportTypes' /\ PassTypes' /\ BodyRuns' /\ BodyIsWhole' /\ BytesAreCounted'
  BY DEF TransportTypes, PassTypes, PassType, BodyRuns, BodyIsWhole, BytesAreCounted
<1>2. NothingYet' /\ EveryFileHasAFact' /\ FramesByStep' /\ ReceiptByStep'
      /\ AttachedIsWhole' /\ RefusedIsGone'
  BY DEF NothingYet, EveryFileHasAFact, FramesByStep, ReceiptByStep, AttachedIsWhole,
     RefusedIsGone, Opening
<1>3. PassKnows'
  BY DEF PassKnows
<1>4. OriginalByStep'
  BY DEF OriginalByStep
<1> QED BY <1>1, <1>2, <1>3, <1>4

LEMMA PassListsKeeps ==
  ASSUME UploadInv, PassLists \/ PassEnds \/ \E kind \in FactKinds : PassTakes(kind)
  PROVE  UploadInv'
<1>1. /\ UNCHANGED <<client, wire, parts, file, request, disk, facts, late, context,
                     residue>>
      /\ scavenger \in PassType /\ scavenger.due \subseteq late
      /\ late \in SUBSET FactKinds
      /\ request.pc \in Opening => late = {} /\ scavenger.at = "idle"
  BY DEF PassLists, PassEnds, PassTakes, transport, stored, UploadInv, UploadTypes,
     PassTypes, PassType, PassKnows, NothingYet
<1>2. CASE PassLists
  <2>1. /\ scavenger.at = "idle" /\ facts \cap late # {}
        /\ scavenger' = [scavenger EXCEPT !.at = "next", !.due = facts \cap late]
    BY <1>2 DEF PassLists
  <2>2. facts \cap late \in SUBSET FactKinds
    BY <1>1
  <2>3. /\ scavenger' \in PassType /\ scavenger'.at = "next"
        /\ scavenger'.due = facts \cap late /\ scavenger'.missed = scavenger.missed
    BY <2>1, <2>2, <1>1 DEF PassType
  <2> QED BY <1>1, <2>1, <2>3, PassMoves
<1>3. CASE PassEnds
  <2>1. scavenger.at = "next" /\ scavenger' = [scavenger EXCEPT !.at = "idle"]
    BY <1>3 DEF PassEnds
  <2>2. /\ scavenger' \in PassType /\ scavenger'.at = "idle"
        /\ scavenger'.due = scavenger.due /\ scavenger'.missed = scavenger.missed
    BY <2>1, <1>1 DEF PassType
  <2> QED BY <1>1, <2>1, <2>2, PassMoves
<1>4. CASE \E kind \in FactKinds : PassTakes(kind)
  <2>1. PICK kind \in FactKinds :
          /\ scavenger.at = "next" /\ kind \in scavenger.due
          /\ scavenger' = [scavenger EXCEPT !.at = "first", !.kind = kind,
                                            !.due = @ \ {kind}]
    BY <1>4 DEF PassTakes
  <2>2. scavenger.due \ {kind} \in SUBSET FactKinds
    BY <1>1 DEF PassType
  <2>3. /\ scavenger' \in PassType /\ scavenger'.at = "first" /\ scavenger'.kind = kind
        /\ scavenger'.due = scavenger.due \ {kind}
        /\ scavenger'.missed = scavenger.missed
    BY <2>1, <2>2, <1>1 DEF PassType
  <2> QED BY <1>1, <2>1, <2>3, PassMoves
<1> QED BY <1>2, <1>3, <1>4

LEMMA PassAcknowledgesKeeps ==
  ASSUME UploadInv, PassAcknowledges
  PROVE  UploadInv'
<1> USE DEF UploadInv, UploadTypes, At, Running, attached, NoBytes
<1>1. /\ UNCHANGED <<client, wire, parts, file, request, disk, late, context, residue>>
      /\ scavenger.at = "acknowledge" /\ scavenger \in PassType
      /\ facts \in SUBSET FactKinds
      /\ \/ /\ facts' = facts \ {scavenger.kind}
            /\ scavenger' = [scavenger EXCEPT !.at = "next"]
         \/ /\ facts' = facts
            /\ scavenger' = [scavenger EXCEPT !.at = "next", !.missed = TRUE]
  BY DEF PassAcknowledges, transport, PassTypes, PassType
<1>2. /\ scavenger' \in PassType /\ scavenger'.at = "next"
      /\ scavenger'.due = scavenger.due /\ scavenger'.kind = scavenger.kind
      /\ scavenger.missed => scavenger'.missed
      /\ facts' = facts \ {scavenger.kind} \/ (facts' = facts /\ scavenger'.missed)
  BY <1>1 DEF PassType
<1>3. /\ scavenger.kind \in late /\ request.pc \notin Opening
      /\ scavenger.kind = "temporary" => disk.uploading = Absent /\ disk.payload = Absent
      /\ scavenger.kind = "frame" =>
           disk.staging = "absent" /\ disk.frames = "absent" /\ ~At("stage")
      /\ scavenger.kind \in FactKinds
  BY <1>1 DEF PassKnows, NothingYet, PassType
<1>4. TransportTypes' /\ PassTypes' /\ BodyRuns' /\ BodyIsWhole' /\ BytesAreCounted'
  BY <1>1, <1>2 DEF TransportTypes, PassTypes, PassType, BodyRuns, BodyIsWhole,
     BytesAreCounted
<1>5. EveryFileHasAFact' /\ PassKnows' /\ NothingYet'
  BY <1>1, <1>2, <1>3 DEF EveryFileHasAFact, PassKnows, NothingYet, Opening, FactKinds
<1>6. FramesByStep' /\ OriginalByStep' /\ ReceiptByStep'
  BY <1>1, <1>2, <1>3 DEF FramesByStep, OriginalByStep, ReceiptByStep, FactKinds
<1>7. AttachedIsWhole' /\ RefusedIsGone'
  BY <1>1, <1>2 DEF AttachedIsWhole, RefusedIsGone
<1> QED BY <1>1, <1>4, <1>5, <1>6, <1>7

LEMMA PassDeletesKeeps ==
  ASSUME UploadInv, PassDeletes
  PROVE  UploadInv'
<1> USE DEF UploadInv, UploadTypes
<1>1. /\ UNCHANGED <<client, wire, parts, file, request, facts, late, context, residue>>
      /\ scavenger \in PassType /\ scavenger.at \in {"first", "second"}
      /\ disk \in DiskType /\ scavenger.due \subseteq late /\ scavenger.kind \in late
      /\ scavenger.kind \in FactKinds
  BY DEF PassDeletes, transport, PassTypes, PassType, PassKnows
<1>2. request.pc \notin Opening
  BY <1>1 DEF NothingYet
<1>3. CASE disk' = disk /\ scavenger' = [scavenger EXCEPT !.at = "next"]
  <2>1. /\ scavenger' \in PassType /\ scavenger'.at = "next"
        /\ scavenger'.due = scavenger.due /\ scavenger'.missed = scavenger.missed
    BY <1>1, <1>3 DEF PassType
  <2> QED BY <1>1, <1>2, <1>3, <2>1, PassMoves
<1> USE DEF At, Running, attached, NoBytes
<1>4. CASE /\ disk' = IF scavenger.at = "first" THEN FirstDeletion ELSE SecondDeletion
           /\ scavenger' = [scavenger EXCEPT
                             !.at = IF @ = "first" THEN "second" ELSE "acknowledge"]
  <2>1. /\ scavenger' \in PassType
        /\ scavenger'.at = IF scavenger.at = "first" THEN "second" ELSE "acknowledge"
        /\ scavenger'.due = scavenger.due /\ scavenger'.kind = scavenger.kind
        /\ scavenger'.missed = scavenger.missed
    BY <1>1, <1>4 DEF PassType
  <2>2. /\ TransportTypes' /\ PassTypes' /\ BodyRuns' /\ BodyIsWhole'
        /\ ReceiptByStep' \/ disk'.set # disk.set
    BY <1>1, <2>1 DEF TransportTypes, PassTypes, PassType, BodyRuns, BodyIsWhole,
       ReceiptByStep
  <2>3. CASE scavenger.kind = "temporary"
    <3>1. /\ disk' \in DiskType /\ disk'.staging = disk.staging
          /\ disk'.frames = disk.frames /\ disk'.set = disk.set
          /\ \/ /\ scavenger.at = "first" /\ disk'.uploading = Absent
                /\ disk'.payload = disk.payload /\ disk'.original = disk.original
             \/ /\ scavenger.at = "second" /\ disk'.uploading = disk.uploading
                /\ disk'.payload = Absent /\ disk'.original = "absent"
      BY <1>1, <1>4, <2>3 DEF FirstDeletion, SecondDeletion, WithoutOriginal, DiskType
    <3>2. disk.uploading = Absent \/ scavenger.at = "first"
      BY <1>1, <2>3 DEF PassKnows
    <3>3. /\ BytesAreCounted' /\ NothingYet' /\ EveryFileHasAFact'
          /\ PassKnows' /\ FramesByStep'
      BY <1>1, <1>2, <2>1, <2>3, <3>1, <3>2 DEF BytesAreCounted, NothingYet,
         EveryFileHasAFact, PassKnows, FramesByStep, Opening
    <3>4. OriginalByStep'
      BY <1>1, <2>1, <2>3, <3>1 DEF OriginalByStep
    <3>5. AttachedIsWhole'
      BY <1>1, <2>3, <3>1 DEF AttachedIsWhole
    <3>6. RefusedIsGone'
      BY <1>1, <3>1 DEF RefusedIsGone, EmptyDisk, DiskType
    <3> QED BY <1>1, <2>2, <3>1, <3>3, <3>4, <3>5, <3>6
  <2>4. CASE scavenger.kind = "frame"
    <3>1. ~Running /\ ~At("absent") /\ ~attached
      BY <1>1, <2>4 DEF PassKnows
    <3>2. request.pc \in {"answered", "lost"}
      BY <3>1
    <3>3. PICK left \in DiskType :
            /\ left.uploading = disk.uploading /\ left.payload = disk.payload
            /\ left.original = disk.original /\ left.set = disk.set
            /\ \/ /\ scavenger.at = "first" /\ left.frames = "absent"
                  /\ left.staging = disk.staging
               \/ /\ scavenger.at = "second" /\ left.staging = "absent"
                  /\ left.frames = disk.frames
            /\ disk' = Swept(left)
      <4>1. CASE scavenger.at = "first"
        <5>1. [disk EXCEPT !.frames = "absent"] \in DiskType
          BY <1>1 DEF DiskType
        <5> QED BY <1>1, <1>4, <2>4, <4>1, <5>1 DEF FirstDeletion, DiskType
      <4>2. CASE scavenger.at = "second"
        <5>1. [disk EXCEPT !.staging = "absent"] \in DiskType
          BY <1>1 DEF DiskType
        <5> QED BY <1>1, <1>4, <2>4, <4>2, <5>1 DEF SecondDeletion, DiskType
      <4> QED BY <1>1, <4>1, <4>2
    <3>4. /\ disk' \in DiskType /\ disk'.uploading = disk.uploading
          /\ disk'.payload = disk.payload /\ disk'.original = disk.original
          /\ disk'.staging \in {disk.staging, "absent"}
          /\ disk'.frames \in {disk.frames, "absent"}
          /\ scavenger.at = "first" => disk'.frames = "absent"
          /\ scavenger.at = "second" =>
               disk'.staging = "absent" /\ disk'.frames = disk.frames
          /\ \/ disk'.staging = "ready" \/ disk'.frames \in {"moved", "complete"}
             \/ disk'.set = NoSet
          /\ disk'.set \in {disk.set, NoSet}
      <4>1. Swept(left).set \in {left.set, NoSet}
        BY SweptKeeps
      <4> QED BY <3>3, <4>1, SweptKeeps
    <3>5. /\ BytesAreCounted' /\ NothingYet' /\ EveryFileHasAFact'
          /\ PassKnows' /\ FramesByStep'
      BY <1>1, <1>2, <2>1, <2>4, <3>1, <3>2, <3>4 DEF BytesAreCounted, NothingYet,
         EveryFileHasAFact, PassKnows, FramesByStep, Opening, Unstaged, Publishing, Aborting
    <3>6. OriginalByStep' /\ ReceiptByStep'
      BY <1>1, <2>1, <3>2, <3>4 DEF OriginalByStep, ReceiptByStep, Publishing, Unstaged,
         Opening, Dropping, Whole, WithReceipt, Aborting
    <3>7. AttachedIsWhole'
      BY <1>1, <3>1 DEF AttachedIsWhole
    <3>8. RefusedIsGone'
      BY <1>1, <3>4 DEF RefusedIsGone, EmptyDisk, DiskType
    <3> QED BY <1>1, <2>2, <3>4, <3>5, <3>6, <3>7, <3>8
  <2> QED BY <1>1, <2>3, <2>4 DEF FactKinds
<1> QED BY <1>3, <1>4 DEF PassDeletes

LEMMA DeadlineKeeps ==
  ASSUME UploadInv, NEW kind \in FactKinds, DeadlinePasses(kind)
  PROVE  UploadInv'
<1> USE DEF UploadInv, UploadTypes, At, Running, attached, NoBytes
<1>1. /\ UNCHANGED <<client, wire, parts, file, request, disk, facts, scavenger, context,
                     residue>>
      /\ kind \in facts \ late /\ ~attached /\ late' = late \cup {kind}
      /\ Running => kind = "temporary" /\ wire.reader # "nobody"
  BY DEF DeadlinePasses, transport, stored
<1>2. request.pc \notin Opening
  BY <1>1 DEF NothingYet, Opening
<1>3. TransportTypes' /\ PassTypes' /\ BodyRuns' /\ BodyIsWhole' /\ BytesAreCounted'
  BY <1>1 DEF TransportTypes, PassTypes, BodyRuns, BodyIsWhole, BytesAreCounted
<1>4. NothingYet' /\ EveryFileHasAFact' /\ FramesByStep' /\ ReceiptByStep'
      /\ OriginalByStep'
  BY <1>1, <1>2 DEF NothingYet, EveryFileHasAFact, FramesByStep, ReceiptByStep,
     OriginalByStep, Opening
<1>5. PassKnows'
  BY <1>1, <1>2 DEF PassKnows, Opening
<1>6. AttachedIsWhole' /\ RefusedIsGone'
  BY <1>1 DEF AttachedIsWhole, RefusedIsGone
<1> QED BY <1>1, <1>3, <1>4, <1>5, <1>6

LEMMA StopKeeps ==
  ASSUME UploadInv, ProcessStops
  PROVE  UploadInv'
<1> USE DEF UploadInv, UploadTypes, At, Running, attached, NoBytes
<1>1. /\ UNCHANGED <<disk, facts, context, late, residue>>
      /\ request' = [request EXCEPT !.pc = "lost", !.video = NoVideo]
      /\ client' = [at |-> IF client.at = "sending" THEN "gone" ELSE client.at,
                    rest |-> <<>>]
      /\ wire' = [wire EXCEPT !.reader = "nobody"]
      /\ parts' = NoParts /\ file' = NoFile /\ scavenger' = NoPass
      /\ ~At("absent")
  BY DEF ProcessStops, stored
<1>2. /\ request' \in RequestType /\ request'.pc = "lost"
      /\ request'.bytes = request.bytes /\ request'.accepted = request.accepted
      /\ request'.cleanup = request.cleanup
  BY <1>1 DEF RequestType, Steps
<1>3. /\ client' \in [at : {"sending", "sent", "left", "gone", "unheard", "closed"},
                      rest : Seq(Tokens)]
      /\ client'.at # "sending"
      /\ client.at \in {"sent", "left"} => client'.at \in {"sent", "left"}
  BY <1>1 DEF TransportTypes
<1>4. /\ wire' \in [reader : {"nobody", "parser", "drain"}, counted : Nat]
      /\ parts' \in [pending : Seq(PartHeaders), failure : BOOLEAN, ended : BOOLEAN]
      /\ file' \in [buffered : {0, 1}, end : {"none", "open", "ended", "broken"}]
      /\ ~parts'.ended
  BY <1>1 DEF TransportTypes, NoParts, NoFile
<1>5. /\ scavenger' \in PassType /\ scavenger'.at = "idle" /\ scavenger'.due = {}
      /\ scavenger'.kind = "temporary"
  BY <1>1 DEF NoPass, PassType, FactKinds
<1>6. TransportTypes' /\ PassTypes' /\ BodyRuns'
  BY <1>1, <1>3, <1>4, <1>5 DEF TransportTypes, PassTypes, PassType, BodyRuns
<1> USE DEF Opening, Unstaged, Whole, WithReceipt, Publishing, Dropping, Aborting, Finished
<1>7. BodyIsWhole' /\ BytesAreCounted' /\ NothingYet' /\ EveryFileHasAFact' /\ PassKnows'
  BY <1>1, <1>2, <1>4, <1>5 DEF BodyIsWhole, BytesAreCounted, NothingYet,
     EveryFileHasAFact, PassKnows
<1>8. FramesByStep' /\ OriginalByStep' /\ ReceiptByStep'
  BY <1>1, <1>2, <1>5 DEF FramesByStep, OriginalByStep, ReceiptByStep
<1>9. AttachedIsWhole' /\ RefusedIsGone'
  BY <1>1, <1>2, <1>3 DEF AttachedIsWhole, RefusedIsGone
<1> QED BY <1>1, <1>2, <1>6, <1>7, <1>8, <1>9

-----------------------------------------------------------------------------

LEMMA UploadMoves ==
  ASSUME UploadInv,
         \/ UploadNext \/ Arrive \/ ProcessStops
         \/ UNCHANGED <<transport, request, stored, late, scavenger, residue>>
  PROVE  UploadInv'
<1>1. CASE UNCHANGED <<transport, request, stored, late, scavenger, residue>>
  BY <1>1 DEF transport, stored, UploadInv, UploadTypes, TransportTypes, PassTypes,
     BodyRuns, BodyIsWhole, BytesAreCounted, NothingYet, EveryFileHasAFact, PassKnows,
     FramesByStep, OriginalByStep, ReceiptByStep, AttachedIsWhole, RefusedIsGone, At,
     Running, attached, NoBytes
<1>2. CASE StreamStep \/ OutsideStep
  <2>1. CASE \E kind \in FactKinds : DeadlinePasses(kind)
    BY <2>1, DeadlineKeeps
  <2> QED BY <1>2, <2>1, TransportKeeps DEF StreamStep, OutsideStep, FactKinds
<1>3. CASE RequestStep
  BY <1>3, OpeningKeeps, ReceivingKeeps, ExtractingKeeps, PublishingKeeps, AbortingKeeps,
     AnswerKeeps DEF RequestStep
<1>4. CASE PassStep
  BY <1>4, PassListsKeeps, PassDeletesKeeps, PassAcknowledgesKeeps DEF PassStep, FactKinds
<1>5. CASE Arrive \/ ProcessStops
  BY <1>5, OpeningKeeps, StopKeeps
<1> QED BY <1>1, <1>2, <1>3, <1>4, <1>5 DEF UploadNext

LEMMA ProcessMovesUpload ==
  ASSUME [ProcessNext]_process
  PROVE  \/ UploadNext \/ Arrive \/ ProcessStops
         \/ UNCHANGED <<transport, request, stored, late, scavenger, residue>>
BY DEF ProcessNext, process, upload, transport, stored, Arrival, StreamRuns, RequestRuns,
   OutsideRuns, Scavenging, Crash, HostRuns, WorkIsDone, Serving, UploadNext

(* The upload keeps its invariant in the process that serves it.           *)
THEOREM UploadIsInvariant == ProcessSpec => []UploadInv
<1>1. ProcessInit => UploadInv
  BY UploadStarts DEF ProcessInit
<1>2. UploadInv /\ [ProcessNext]_process => UploadInv'
  BY UploadMoves, ProcessMovesUpload
<1> QED BY <1>1, <1>2, PTL DEF ProcessSpec

LEMMA AnsweredIsWhole ==
  ASSUME UploadInv, At("answered"), attached, OriginalReadable
  PROVE  WorkerProceeds
<1>1. /\ disk.payload = request.bytes /\ request.bytes \in Nat
      /\ disk.frames = "complete"
  BY DEF UploadInv, UploadTypes, RequestType, BytesAreCounted, AttachedIsWhole,
     OriginalReadable
<1>2. PICK video \in Extractable :
        /\ disk.set = SetOf(video, request.bytes)
        /\ context = ContextOf(ReceiptOf(video, request.bytes), video.mode, request.bytes)
  BY DEF UploadInv, AttachedIsWhole
<1>3. /\ disk.set.receipt = ReceiptOf(video, request.bytes)
      /\ disk.set.pictures = Pictures(video)
  BY <1>2 DEF SetOf
<1>4. /\ Claimable(context)
      /\ Reconstructs(context.kept, disk.set.receipt, disk.set.pictures, disk.payload)
  BY <1>1, <1>2, <1>3, ReceiptReadsBack
<1> QED BY <1>1, <1>4 DEF WorkerProceeds, SetReadable, OriginalReadable

(* An upload that is answered is either whole, and a worker can make the   *)
(* extraction again of what it left, or it has left nothing: for every     *)
(* body, video and limit, whichever call fails and whenever the retention  *)
(* pass or a shutdown comes between (media-pipeline.ts).                   *)
THEOREM AnsweredUploads == ProcessSpec => []UploadIsAllOrNothing
<1>1. UploadInv => UploadIsAllOrNothing
  <2> SUFFICES ASSUME UploadInv, At("answered") PROVE UploadIsAllOrNothing
    BY DEF UploadIsAllOrNothing
  <2>1. CASE attached
    BY <2>1, AnsweredIsWhole DEF UploadIsAllOrNothing, UploadInv, AttachedIsWhole,
       BytesAreCounted, SetReadable, UploadTypes, RequestType
  <2>2. CASE ~attached
    BY <2>2 DEF UploadIsAllOrNothing, UploadInv, RefusedIsGone, At, Finished
  <2> QED BY <2>1, <2>2
<1> QED BY <1>1, UploadIsInvariant, PTL

(* Whatever is on disk has a record that will have it deleted, after every *)
(* step and every crash (local-media-storage.ts, retention-repository.ts). *)
THEOREM FilesHaveFacts == ProcessSpec => []EveryFileHasAFact
<1>1. UploadInv => EveryFileHasAFact
  BY DEF UploadInv
<1> QED BY <1>1, UploadIsInvariant, PTL

(* No upload is attached whose original somebody has deleted unseen, and   *)
(* of an attached one only a pass that had listed it before still deletes  *)
(* the original.                                                           *)
THEOREM AttachedBytes == ProcessSpec => AttachedBytesAreThere
<1> DEFINE Attaches == attached' /\ ~attached =>
                         \/ disk.payload # Absent
                         \/ scavenger.kind = "temporary" /\ scavenger.at = "acknowledge"
                         \/ scavenger.missed
           Loses == attached /\ disk'.payload # disk.payload =>
                      scavenger.kind = "temporary" /\ scavenger.at = "second"
           Lists == attached => "temporary" \notin scavenger'.due \ scavenger.due
<1>1. ASSUME UploadInv,
             \/ UploadNext \/ Arrive \/ ProcessStops
             \/ UNCHANGED <<transport, request, stored, late, scavenger, residue>>
      PROVE  Attaches /\ Loses /\ Lists
  <2>1. CASE PassStep
    <3>1. Attaches
      BY <2>1 DEF PassStep, PassTakes, PassLists, PassDeletes, PassAcknowledges, PassEnds,
         stored, attached
    <3>2. Loses
      <4>1. CASE PassDeletes /\ disk' # disk
        <5> SUFFICES ASSUME attached, disk'.payload # disk.payload
                     PROVE  scavenger.kind = "temporary" /\ scavenger.at = "second"
          OBVIOUS
        <5>1. /\ scavenger.at \in {"first", "second"} /\ disk \in DiskType
              /\ scavenger.kind = "temporary"
          BY <1>1, <4>1 DEF PassDeletes, UploadInv, UploadTypes, PassTypes, PassKnows,
             FactKinds
        <5>2. scavenger.at = "first" => disk'.payload = disk.payload
          BY <4>1, <5>1 DEF PassDeletes, FirstDeletion, DiskType
        <5> QED BY <5>1, <5>2
      <4> QED BY <2>1, <4>1 DEF PassStep, PassTakes, PassLists, PassDeletes,
            PassAcknowledges, PassEnds, stored
    <3>3. Lists
      <4> SUFFICES ASSUME attached PROVE "temporary" \notin scavenger'.due \ scavenger.due
        OBVIOUS
      <4>1. "temporary" \notin facts /\ scavenger \in PassType
        BY <1>1 DEF UploadInv, AttachedIsWhole, UploadTypes, PassTypes, PassType
      <4>2. CASE PassLists
        BY <4>1, <4>2 DEF PassLists, PassType
      <4>3. CASE \E kind \in FactKinds : PassTakes(kind)
        BY <4>1, <4>3 DEF PassTakes, PassType
      <4>4. CASE PassDeletes \/ PassAcknowledges \/ PassEnds
        <5>1. scavenger'.due = scavenger.due
          BY <4>1, <4>4 DEF PassDeletes, PassAcknowledges, PassEnds, PassType
        <5> QED BY <5>1
      <4> QED BY <2>1, <4>2, <4>3, <4>4 DEF PassStep, FactKinds
    <3> QED BY <3>1, <3>2, <3>3
  <2>2. CASE RequestStep
    <3>1. UNCHANGED scavenger
      BY <2>2 DEF RequestStep, OpenStep, ReceiveStep, ExtractStep, PublishStep, AbortStep,
         Preflight, Initialize, ScheduleTemporary, OpenTemporary, SecureTemporary,
         UnsecuredRemoved, TakePart, ReadChunk, ReadBroken, ReadEnd, Inspect,
         ScheduleFrames, Stage, Decode, Materialize, WriteReceipt, ReserveFrames,
         MoveFrames, CompleteFrames, Unstage, DropFrames, DropStaging, Reserve, Rename,
         Disown, Attach, AbortTemporary, AbortPublication, AcknowledgeTemporary, Cleanup,
         Answer
    <3>2. context' = context \/ Attach
      BY <2>2 DEF RequestStep, OpenStep, ReceiveStep, ExtractStep, PublishStep, AbortStep,
         Preflight, Initialize, ScheduleTemporary, OpenTemporary, SecureTemporary,
         UnsecuredRemoved, TakePart, ReadChunk, ReadBroken, ReadEnd, Inspect,
         ScheduleFrames, Stage, Decode, Materialize, WriteReceipt, ReserveFrames,
         MoveFrames, CompleteFrames, Unstage, DropFrames, DropStaging, Reserve, Rename,
         Disown, AbortTemporary, AbortPublication, AcknowledgeTemporary, Cleanup, Answer,
         stored
    <3>3. Attaches
      BY <1>1, <3>2 DEF Attach, AttachAllowed, attached, UploadInv, OriginalByStep, At
    <3>4. Loses
      <4>1. attached => request.pc \in {"answer", "answered", "lost"}
        BY <1>1 DEF UploadInv, AttachedIsWhole, Finished
      <4>2. attached => Answer
        BY <2>2, <4>1 DEF RequestStep, OpenStep, ReceiveStep, ExtractStep, PublishStep,
           AbortStep, Preflight, Initialize, ScheduleTemporary, OpenTemporary,
           SecureTemporary, UnsecuredRemoved, TakePart, ReadChunk, ReadBroken, ReadEnd,
           Inspect, ScheduleFrames, Stage, Decode, Materialize, WriteReceipt,
           ReserveFrames, MoveFrames, CompleteFrames, Unstage, DropFrames, DropStaging,
           Reserve, Rename, Disown, Attach, AbortTemporary, AbortPublication,
           AcknowledgeTemporary, Cleanup, At
      <4> QED BY <4>2 DEF Answer, stored
    <3> QED BY <3>1, <3>3, <3>4
  <2>3. CASE \/ StreamStep \/ OutsideStep \/ Arrive
             \/ UNCHANGED <<transport, request, stored, late, scavenger, residue>>
    BY <2>3 DEF StreamStep, ParserReads, DrainReads, OutsideStep, ClientLeaves,
       DeadlinePasses, Arrive, stored, attached
  <2>4. CASE ProcessStops
    BY <2>4 DEF ProcessStops, NoPass, stored, attached
  <2> QED BY <1>1, <2>1, <2>2, <2>3, <2>4 DEF UploadNext
<1>2. UploadInv /\ [ProcessNext]_process => [Attaches /\ Loses /\ Lists]_upload
  BY <1>1, ProcessMovesUpload
<1> QED BY <1>2, UploadIsInvariant, PTL DEF ProcessSpec, AttachedBytesAreThere

-----------------------------------------------------------------------------
(* The inductive invariant of the host: the stage of an application says   *)
(* what its runtimes are, a runtime that is anything is owned, and who     *)
(* starts or closes does so alone.                                         *)

Stages == {"none", "failed", "built", "listening", "abandoned"} \cup Starting \cup Closing
States == {"none", "reserved", "registered", "active", "stopping", "stopped"}
AllWork == Kinds \cup {"job", "probe"}
Served == {"workers", "built", "listening", "http", "stop workers", "stop runtimes"}
Owning == {"reserved", "registered", "active", "stopping"}

HostTypes ==
  /\ app \in [Apps -> Stages]
  /\ runtime \in [Apps -> [Kinds -> States]]
  /\ timers \in [Apps -> SUBSET Kinds]
  /\ owner \in [Kinds -> Apps \cup {Nobody}]
  /\ users \in [Apps -> SUBSET AllWork]
  /\ database \in {"open", "closed"}

OwnersHold ==
  \A i \in Apps, k \in Kinds : owner[k] = i <=> runtime[i][k] \in Owning

All(i, states) == \A k \in Kinds : runtime[i][k] \in states
RuntimesFit(i) ==
  /\ app[i] \in {"none", "reserve recovery"} => All(i, {"none"})
  /\ app[i] = "reserve retention" =>
       runtime[i]["recovery"] = "reserved" /\ runtime[i]["retention"] = "none"
  /\ app[i] = "register recovery" => All(i, {"reserved"})
  /\ app[i] = "register retention" =>
       runtime[i]["recovery"] = "registered" /\ runtime[i]["retention"] = "reserved"
  /\ app[i] = "activate" => All(i, {"registered"})
  /\ app[i] = "rollback" => All(i, {"none", "reserved", "registered"})
  /\ app[i] \in Served => All(i, {"active"})
  /\ app[i] = "drain" => All(i, {"stopping", "stopped"})
  /\ app[i] = "abandoned" => All(i, {"active"}) \/ All(i, {"stopping", "stopped"})
  /\ app[i] \in {"failed", "stop probes", "close resources", "closed"} =>
       All(i, {"stopped"})

UsersFit(i) ==
  /\ \A k \in Kinds : k \in users[i] => runtime[i][k] \in {"active", "stopping"}
  /\ app[i] \in {"none", "failed"} \cup Starting => users[i] \subseteq Kinds
  /\ app[i] \in {"stop runtimes", "drain", "stop probes", "close resources", "closed"} =>
       "job" \notin users[i]
  /\ app[i] \in {"close resources", "closed"} => "probe" \notin users[i]

OneAtATime ==
  \A i, j \in Apps : i # j =>
    /\ app[i] \in Starting => app[j] \notin Starting \cup Closing
    /\ app[i] \in Closing => app[j] \in {"none", "failed", "abandoned"}

ClosedForGood ==
  database = "closed" =>
    \A i \in Apps : app[i] \in {"none", "failed", "abandoned", "closed"}

HostInv ==
  /\ HostTypes /\ OwnersHold /\ OneAtATime /\ ClosedForGood
  /\ \A i \in Apps : RuntimesFit(i) /\ UsersFit(i)

LEMMA HostStarts == ASSUME HostInit PROVE HostInv
<1> USE HostInit DEF HostInit
<1>1. HostTypes
  BY DEF HostTypes, Stages, States
<1>2. OwnersHold
  BY DEF OwnersHold, Owning, Nobody, Apps
<1>3. OneAtATime /\ ClosedForGood
  BY DEF OneAtATime, ClosedForGood, Starting, Closing
<1>4. \A i \in Apps : RuntimesFit(i) /\ UsersFit(i)
  BY DEF RuntimesFit, UsersFit, All, Served
<1> QED BY <1>1, <1>2, <1>3, <1>4 DEF HostInv

(* What an application does to itself: nobody else moves; it gets on only   *)
(* while nobody else is starting or closing.                               *)
Idle == {"none", "failed", "abandoned"}
Alone(i) ==
  \A j \in Apps \ {i} :
    /\ app'[j] = app[j] /\ runtime'[j] = runtime[j] /\ users'[j] = users[j]
    /\ \A k \in Kinds : owner'[k] = j <=> owner[k] = j
GetsOn(i) ==
  \/ app'[i] = app[i]
  \/ /\ \A j \in Apps \ {i} : app[j] \notin Starting \cup Closing
     /\ app'[i] \in Closing => \A j \in Apps \ {i} : app[j] \in Idle
StaysClosed(i) ==
  database' = "closed" =>
    \A j \in Apps : IF j = i THEN app'[j] \in Idle \cup {"closed"}
                    ELSE app[j] \in Idle \cup {"closed"}

LEMMA OneMoves ==
  ASSUME HostInv, HostTypes', NEW i \in Apps, Alone(i), GetsOn(i), StaysClosed(i),
         \A k \in Kinds : owner'[k] = i <=> runtime'[i][k] \in Owning,
         RuntimesFit(i)', UsersFit(i)'
  PROVE  HostInv'
<1>1. OwnersHold'
  <2> SUFFICES ASSUME NEW j \in Apps, NEW k \in Kinds
               PROVE  owner'[k] = j <=> runtime'[j][k] \in Owning
    BY DEF OwnersHold
  <2>1. CASE j = i
    BY <2>1
  <2>2. CASE j # i
    BY <2>2 DEF HostInv, OwnersHold, Alone
  <2> QED BY <2>1, <2>2
<1>2. ClosedForGood'
  BY DEF ClosedForGood, StaysClosed, Alone, Idle
<1>3. OneAtATime'
  <2> SUFFICES ASSUME NEW a \in Apps, NEW b \in Apps, a # b
               PROVE  /\ app'[a] \in Starting => app'[b] \notin Starting \cup Closing
                      /\ app'[a] \in Closing => app'[b] \in {"none", "failed", "abandoned"}
    BY DEF OneAtATime
  <2>1. CASE app'[i] = app[i]
    <3>1. app'[a] = app[a] /\ app'[b] = app[b]
      BY <2>1 DEF Alone
    <3> QED BY <3>1 DEF HostInv, OneAtATime
  <2>2. CASE /\ \A j \in Apps \ {i} : app[j] \notin Starting \cup Closing
             /\ app'[i] \in Closing => \A j \in Apps \ {i} : app[j] \in Idle
    BY <2>2 DEF Alone, Idle
  <2> QED BY <2>1, <2>2 DEF GetsOn
<1>4. \A j \in Apps : RuntimesFit(j)' /\ UsersFit(j)'
  <2> SUFFICES ASSUME NEW j \in Apps, j # i PROVE RuntimesFit(j)' /\ UsersFit(j)'
    OBVIOUS
  <2>1. app'[j] = app[j] /\ runtime'[j] = runtime[j] /\ users'[j] = users[j]
    BY DEF Alone
  <2>2. RuntimesFit(j) /\ UsersFit(j)
    BY DEF HostInv
  <2>3. RuntimesFit(j)'
    BY <2>1, <2>2, ZenonT(60) DEF RuntimesFit, All
  <2>4. UsersFit(j)'
    BY <2>1, <2>2 DEF UsersFit
  <2> QED BY <2>3, <2>4
<1> QED BY <1>1, <1>2, <1>3, <1>4 DEF HostInv

(* Whoever may close is the only one that runs.                            *)
LEMMA OneRuns ==
  ASSUME HostInv, Settled, NEW i \in Apps, app[i] \in {"built", "listening"},
         NEW j \in Apps, j # i
  PROVE  app[j] \in Idle
<1>1. app[j] \notin Starting \cup Closing
  BY DEF HostInv, OneAtATime, Settled
<1>2. app[j] \notin {"built", "listening"}
  <2>1. runtime[i]["recovery"] = "active" /\ owner["recovery"] = i
    BY DEF HostInv, RuntimesFit, All, Served, OwnersHold, Owning, Kinds
  <2>2. app[j] \in {"built", "listening"} => owner["recovery"] = j
    BY DEF HostInv, RuntimesFit, All, Served, OwnersHold, Owning, Kinds
  <2> QED BY <2>1, <2>2
<1> QED BY <1>1, <1>2 DEF HostInv, HostTypes, Stages, Idle

(* Who is starting or closing is the only one to do so.                    *)
LEMMA OneIsBusy ==
  ASSUME HostInv, NEW i \in Apps, app[i] \in Starting \cup Closing,
         NEW j \in Apps, j # i
  PROVE  /\ app[j] \notin Starting \cup Closing
         /\ app[i] \in Closing => app[j] \in Idle
BY DEF HostInv, OneAtATime, Idle, Starting, Closing

LEMMA StageMoves ==
  ASSUME HostTypes, NEW i \in Apps, NEW at \in Stages, To(i, at)
  PROVE  /\ app' \in [Apps -> Stages] /\ app'[i] = at
         /\ \A j \in Apps \ {i} : app'[j] = app[j]
BY DEF To, HostTypes

LEMMA RuntimeMoves ==
  ASSUME HostTypes, NEW i \in Apps, NEW k \in Kinds, NEW state \in States,
         Become(i, k, state)
  PROVE  /\ runtime' \in [Apps -> [Kinds -> States]] /\ runtime'[i][k] = state
         /\ \A l \in Kinds \ {k} : runtime'[i][l] = runtime[i][l]
         /\ \A j \in Apps \ {i} : runtime'[j] = runtime[j]
<1>1. runtime[i] \in [Kinds -> States]
  BY DEF HostTypes
<1>2. runtime' = [runtime EXCEPT ![i] = [runtime[i] EXCEPT ![k] = state]]
  BY DEF Become
<1> QED BY <1>1, <1>2 DEF HostTypes

LEMMA OwnersAreApps ==
  ASSUME NEW i \in Apps PROVE i # Nobody
BY DEF Apps, Nobody

-----------------------------------------------------------------------------
(* The steps of the start.                                                 *)

LEMMA StartingKeeps ==
  ASSUME HostInv, NEW i \in Apps, StartStep(i)
  PROVE  HostInv'
<1>1. HostTypes /\ RuntimesFit(i) /\ UsersFit(i) /\ OwnersHold
  BY DEF HostInv
<1>2. app[i] \in Starting
  BY DEF StartStep, ReserveOwner, Register, Activate, Rollback, StartWorkers, Starting,
     Kinds
<1>3. StaysClosed(i)
  <2>1. database = "open"
    BY <1>2 DEF HostInv, HostTypes, ClosedForGood, Starting
  <2> QED BY <2>1 DEF StartStep, ReserveOwner, Register, Activate, Rollback,
        StartWorkers, StaysClosed
<1>4. ASSUME app'[i] \notin Closing PROVE GetsOn(i)
  BY <1>2, <1>4, OneIsBusy DEF GetsOn
<1>5. ASSUME NEW k \in Kinds, ReserveOwner(i, k) PROVE HostInv'
  <2> DEFINE at == IF k = "recovery" THEN "reserve retention" ELSE "register recovery"
  <2>1. UNCHANGED <<timers, users, database>>
    BY <1>5 DEF ReserveOwner
  <2>2. /\ app[i] = IF k = "recovery" THEN "reserve recovery" ELSE "reserve retention"
        /\ k = "recovery" => \A l \in Kinds : runtime[i][l] = "none"
        /\ k = "retention" => runtime[i]["recovery"] = "reserved"
                              /\ runtime[i]["retention"] = "none"
    BY <1>1, <1>5 DEF ReserveOwner, RuntimesFit, All, Kinds
  <2>3. CASE owner[k] = Nobody /\ owner' = [owner EXCEPT ![k] = i]
             /\ Become(i, k, "reserved") /\ To(i, at)
    <3>1. /\ at \in Stages /\ "reserved" \in States
      BY DEF Stages, States, Starting
    <3>2. /\ app' \in [Apps -> Stages] /\ app'[i] = at
          /\ \A j \in Apps \ {i} : app'[j] = app[j]
      BY <1>1, <2>3, <3>1, StageMoves
    <3>3. /\ runtime' \in [Apps -> [Kinds -> States]] /\ runtime'[i][k] = "reserved"
          /\ \A l \in Kinds \ {k} : runtime'[i][l] = runtime[i][l]
          /\ \A j \in Apps \ {i} : runtime'[j] = runtime[j]
      BY <1>1, <2>3, <3>1, RuntimeMoves
    <3>4. owner' \in [Kinds -> Apps \cup {Nobody}] /\ owner'[k] = i
          /\ \A l \in Kinds \ {k} : owner'[l] = owner[l]
      BY <1>1, <2>3 DEF HostTypes
    <3>5. HostTypes'
      BY <1>1, <2>1, <3>2, <3>3, <3>4 DEF HostTypes
    <3>6. Alone(i)
      BY <2>1, <2>3, <3>2, <3>3, <3>4, OwnersAreApps DEF Alone
    <3>7. GetsOn(i)
      BY <1>4, <3>2 DEF Closing
    <3>8. \A l \in Kinds : owner'[l] = i <=> runtime'[i][l] \in Owning
      BY <1>1, <3>3, <3>4 DEF OwnersHold, Owning
    <3>9. RuntimesFit(i)'
      BY <2>2, <3>2, <3>3 DEF RuntimesFit, All, Served, Kinds
    <3>10. UsersFit(i)'
      BY <1>1, <2>1, <2>2, <3>2, <3>3 DEF UsersFit, Kinds, Starting
    <3> QED BY <1>3, <3>5, <3>6, <3>7, <3>8, <3>9, <3>10, OneMoves
  <2>4. CASE To(i, "rollback") /\ UNCHANGED <<owner, runtime>>
    <3>1. "rollback" \in Stages
      BY DEF Stages, Starting
    <3>2. /\ app' \in [Apps -> Stages] /\ app'[i] = "rollback"
          /\ \A j \in Apps \ {i} : app'[j] = app[j]
      BY <1>1, <2>4, <3>1, StageMoves
    <3>3. HostTypes' /\ Alone(i) /\ GetsOn(i)
      BY <1>1, <1>4, <2>1, <2>4, <3>2 DEF HostTypes, Alone, Closing
    <3>4. \A l \in Kinds : owner'[l] = i <=> runtime'[i][l] \in Owning
      BY <1>1, <2>4 DEF OwnersHold
    <3>5. RuntimesFit(i)'
      BY <2>2, <2>4, <3>2 DEF RuntimesFit, All, Served, Kinds
    <3>6. UsersFit(i)'
      BY <1>1, <1>2, <2>1, <2>4, <3>2 DEF UsersFit, Starting
    <3> QED BY <1>3, <3>3, <3>4, <3>5, <3>6, OneMoves
  <2> QED BY <1>5, <2>3, <2>4 DEF ReserveOwner
<1>6. ASSUME NEW k \in Kinds, Register(i, k) PROVE HostInv'
  <2> DEFINE at == IF k = "recovery" THEN "register retention" ELSE "activate"
  <2>1. /\ UNCHANGED <<owner, users, database>>
        /\ timers' \in [Apps -> SUBSET Kinds]
    <3>1. timers' \in {timers, [timers EXCEPT ![i] = timers[i] \cup {k}]}
      BY <1>6 DEF Register
    <3>2. timers \in [Apps -> SUBSET Kinds]
      BY <1>1 DEF HostTypes
    <3>3. [timers EXCEPT ![i] = timers[i] \cup {k}] \in [Apps -> SUBSET Kinds]
      BY <3>2
    <3> QED BY <1>6, <3>1, <3>2, <3>3 DEF Register
  <2>2. /\ app[i] = IF k = "recovery" THEN "register recovery" ELSE "register retention"
        /\ k = "recovery" => \A l \in Kinds : runtime[i][l] = "reserved"
        /\ k = "retention" => runtime[i]["recovery"] = "registered"
                              /\ runtime[i]["retention"] = "reserved"
    BY <1>1, <1>6 DEF Register, RuntimesFit, All, Kinds
  <2>3. CASE Become(i, k, "registered") /\ To(i, at)
    <3>1. /\ at \in Stages /\ "registered" \in States
      BY DEF Stages, States, Starting
    <3>2. /\ app' \in [Apps -> Stages] /\ app'[i] = at
          /\ \A j \in Apps \ {i} : app'[j] = app[j]
      BY <1>1, <2>3, <3>1, StageMoves
    <3>3. /\ runtime' \in [Apps -> [Kinds -> States]] /\ runtime'[i][k] = "registered"
          /\ \A l \in Kinds \ {k} : runtime'[i][l] = runtime[i][l]
          /\ \A j \in Apps \ {i} : runtime'[j] = runtime[j]
      BY <1>1, <2>3, <3>1, RuntimeMoves
    <3>4. HostTypes'
      BY <1>1, <2>1, <3>2, <3>3 DEF HostTypes
    <3>5. Alone(i)
      BY <2>1, <3>2, <3>3 DEF Alone
    <3>6. GetsOn(i)
      BY <1>4, <3>2 DEF Closing
    <3>7. RuntimesFit(i)'
      BY <2>2, <3>2, <3>3 DEF RuntimesFit, All, Served, Kinds
    <3>8. \A l \in Kinds : owner'[l] = i <=> runtime'[i][l] \in Owning
      <4>1. runtime[i][k] \in Owning /\ runtime'[i][k] \in Owning
        BY <2>2, <3>3 DEF Owning, Kinds
      <4>2. \A l \in Kinds : runtime'[i][l] \in Owning <=> runtime[i][l] \in Owning
        BY <3>3, <4>1
      <4> QED BY <1>1, <2>1, <4>2 DEF OwnersHold
    <3>9. UsersFit(i)'
      BY <1>1, <2>1, <2>2, <3>2, <3>3 DEF UsersFit, Kinds, Starting
    <3> QED BY <1>3, <3>4, <3>5, <3>6, <3>7, <3>8, <3>9, OneMoves
  <2>4. CASE To(i, "rollback") /\ UNCHANGED runtime
    <3>1. "rollback" \in Stages
      BY DEF Stages, Starting
    <3>2. /\ app' \in [Apps -> Stages] /\ app'[i] = "rollback"
          /\ \A j \in Apps \ {i} : app'[j] = app[j]
      BY <1>1, <2>4, <3>1, StageMoves
    <3>3. HostTypes' /\ Alone(i) /\ GetsOn(i)
      BY <1>1, <1>4, <2>1, <2>4, <3>2 DEF HostTypes, Alone, Closing
    <3>4. \A l \in Kinds : owner'[l] = i <=> runtime'[i][l] \in Owning
      BY <1>1, <2>1, <2>4 DEF OwnersHold
    <3>5. RuntimesFit(i)'
      BY <2>2, <2>4, <3>2 DEF RuntimesFit, All, Served, Kinds
    <3>6. UsersFit(i)'
      BY <1>1, <1>2, <2>1, <2>4, <3>2 DEF UsersFit, Starting
    <3> QED BY <1>3, <3>3, <3>4, <3>5, <3>6, OneMoves
  <2> QED BY <1>6, <2>3, <2>4 DEF Register
<1>7. ASSUME Activate(i) PROVE HostInv'
  <2>1. HostTypes'
    <3>1. app' \in [Apps -> Stages]
      BY <1>1, <1>7 DEF Activate, To, HostTypes, Stages, Starting
    <3>2. runtime' \in [Apps -> [Kinds -> States]]
      <4>1. [k \in Kinds |-> "active"] \in [Kinds -> States]
        BY DEF States
      <4> QED BY <1>1, <1>7, <4>1 DEF Activate, HostTypes
    <3>3. users' \in [Apps -> SUBSET AllWork]
      BY <1>1, <1>7 DEF Activate, HostTypes, AllWork
    <3> QED BY <1>1, <1>7, <3>1, <3>2, <3>3 DEF Activate, HostTypes
  <2>2. app'[i] \in {"workers", "rollback"}
    BY <1>1, <1>7 DEF Activate, To, HostTypes
  <2>3. Alone(i)
    BY <1>1, <1>7 DEF Activate, To, HostTypes, Alone
  <2>4. GetsOn(i)
    BY <1>4, <2>2 DEF Closing
  <2>5. RuntimesFit(i)'
    <3>1. All(i, {"registered"}) /\ app[i] = "activate"
      BY <1>1, <1>7 DEF Activate, RuntimesFit
    <3>2. CASE app'[i] = "workers"
      <4>1. \A k \in Kinds : runtime'[i][k] = "active"
        BY <1>1, <1>7, <3>2 DEF Activate, To, HostTypes
      <4> QED BY <3>2, <4>1 DEF RuntimesFit, All, Served
    <3>3. CASE app'[i] = "rollback"
      <4>1. runtime' = runtime
        BY <1>1, <1>7, <3>3 DEF Activate, To, HostTypes
      <4> QED BY <3>1, <3>3, <4>1 DEF RuntimesFit, All, Served
    <3> QED BY <2>2, <3>2, <3>3
  <2>6. \A l \in Kinds : owner'[l] = i <=> runtime'[i][l] \in Owning
    BY <1>1, <1>7 DEF Activate, HostTypes, OwnersHold, Owning, RuntimesFit, All, Kinds
  <2>7. UsersFit(i)'
    <3>1. users[i] \subseteq Kinds
      BY <1>1, <1>2 DEF UsersFit
    <3>2. users'[i] \subseteq Kinds
      BY <1>1, <1>7, <3>1 DEF Activate, HostTypes
    <3>3. \A k \in Kinds : k \in users'[i] => runtime'[i][k] \in {"active", "stopping"}
      BY <1>1, <1>7 DEF Activate, HostTypes, UsersFit
    <3> QED BY <2>2, <3>2, <3>3 DEF UsersFit
  <2> QED BY <1>3, <2>1, <2>3, <2>4, <2>5, <2>6, <2>7, OneMoves
<1>8. ASSUME Rollback(i) PROVE HostInv'
  <2>1. HostTypes'
    <3>1. timers' \in [Apps -> SUBSET Kinds]
      BY <1>1, <1>8 DEF Rollback, Cancelled, HostTypes
    <3> QED BY <3>1, <1>1, <1>8 DEF Rollback, To, HostTypes, Stages, States
  <2>2. app'[i] = "failed"
    BY <1>1, <1>8 DEF Rollback, To, HostTypes
  <2>3. Alone(i)
    BY <1>1, <1>8 DEF Rollback, To, HostTypes, Alone, Nobody, Apps
  <2>4. GetsOn(i)
    BY <1>4, <2>2 DEF Closing
  <2>5. RuntimesFit(i)'
    BY <1>1, <1>8, <2>2 DEF Rollback, HostTypes, RuntimesFit, All, Served
  <2>6. \A l \in Kinds : owner'[l] = i <=> runtime'[i][l] \in Owning
    BY <1>1, <1>8 DEF Rollback, HostTypes, Owning, Nobody, Apps
  <2>7. UsersFit(i)'
    BY <1>1, <1>2, <1>8, <2>2 DEF Rollback, HostTypes, RuntimesFit, UsersFit, All
  <2> QED BY <1>3, <2>1, <2>3, <2>4, <2>5, <2>6, <2>7, OneMoves
<1>9. ASSUME StartWorkers(i) PROVE HostInv'
  <2>1. HostTypes'
    BY <1>1, <1>9 DEF StartWorkers, To, HostTypes, Stages
  <2>2. app'[i] \in {"built", "abandoned"}
    BY <1>1, <1>9 DEF StartWorkers, To, HostTypes
  <2>3. Alone(i)
    BY <1>1, <1>9 DEF StartWorkers, To, HostTypes, Alone
  <2>4. GetsOn(i)
    BY <1>4, <2>2 DEF Closing
  <2>5. RuntimesFit(i)'
    BY <1>1, <1>9, <2>2 DEF StartWorkers, RuntimesFit, All, Served
  <2>6. \A l \in Kinds : owner'[l] = i <=> runtime'[i][l] \in Owning
    BY <1>1, <1>9 DEF StartWorkers, OwnersHold
  <2>7. UsersFit(i)'
    BY <1>1, <1>2, <1>9, <2>2 DEF StartWorkers, UsersFit, Starting
  <2> QED BY <1>3, <2>1, <2>3, <2>4, <2>5, <2>6, <2>7, OneMoves
<1> QED BY <1>5, <1>6, <1>7, <1>8, <1>9 DEF StartStep

-----------------------------------------------------------------------------
(* At work, and the steps of the shutdown.                                 *)

(* A step that changes nothing but who is at work.                         *)
LEMMA WorkingKeeps ==
  ASSUME HostInv, Settled, NEW i \in Apps,
         \/ \E k \in Kinds : TimerFires(i, k)
         \/ \E work \in {"job", "probe"} : WorkStarts(i, work)
         \/ \E work \in AllWork : WorkEnds(i, work)
  PROVE  HostInv'
<1>1. /\ HostTypes /\ RuntimesFit(i) /\ UsersFit(i) /\ OwnersHold /\ ClosedForGood
      /\ OneAtATime
  BY DEF HostInv
<1>2. UNCHANGED <<app, runtime, timers, owner, database>>
  BY DEF TimerFires, WorkStarts, WorkEnds
<1>3. PICK new \in SUBSET AllWork :
        /\ users' = [users EXCEPT ![i] = new]
        /\ \/ new \subseteq users[i]
           \/ \E k \in Kinds : runtime[i][k] = "active" /\ new = users[i] \cup {k}
           \/ /\ new = users[i] \cup {"job"}
              /\ app[i] \in {"built", "listening", "http"}
           \/ new = users[i] \cup {"probe"} /\ app[i] = "listening"
  <2>1. users[i] \in SUBSET AllWork
    BY <1>1 DEF HostTypes
  <2>2. CASE \E k \in Kinds : TimerFires(i, k)
    <3>1. PICK k \in Kinds : TimerFires(i, k)
      BY <2>2
    <3> QED BY <2>1, <3>1 DEF TimerFires, AllWork
  <2>3. CASE \E work \in {"job", "probe"} : WorkStarts(i, work)
    <3>1. PICK work \in {"job", "probe"} : WorkStarts(i, work)
      BY <2>3
    <3> QED BY <2>1, <3>1 DEF WorkStarts, AllWork
  <2>4. CASE \E work \in AllWork : WorkEnds(i, work)
    <3>1. PICK work \in AllWork : WorkEnds(i, work)
      BY <2>4
    <3> QED BY <2>1, <3>1 DEF WorkEnds
  <2> QED BY <2>2, <2>3, <2>4
<1>4. users'[i] = new /\ \A j \in Apps \ {i} : users'[j] = users[j]
  BY <1>1, <1>3 DEF HostTypes
<1>5. HostTypes'
  <2>1. users' \in [Apps -> SUBSET AllWork]
    BY <1>1, <1>3 DEF HostTypes
  <2> QED BY <1>1, <1>2, <2>1 DEF HostTypes
<1>6. Alone(i) /\ GetsOn(i) /\ StaysClosed(i)
  BY <1>1, <1>2, <1>4 DEF Alone, GetsOn, StaysClosed, ClosedForGood, Idle
<1>7. \A k \in Kinds : owner'[k] = i <=> runtime'[i][k] \in Owning
  BY <1>1, <1>2 DEF OwnersHold
<1>8. RuntimesFit(i)'
  BY <1>1, <1>2 DEF RuntimesFit, All
<1>9. UsersFit(i)'
  <2>1. "job" \notin Kinds /\ "probe" \notin Kinds
    BY DEF Kinds
  <2>2. \A k \in Kinds : k \in new => runtime[i][k] \in {"active", "stopping"}
    BY <1>1, <1>3, <2>1 DEF UsersFit
  <2>3. app[i] \in {"none", "failed"} \cup Starting => new \subseteq Kinds
    BY <1>1, <1>3 DEF UsersFit, Starting
  <2>4. app[i] \in {"stop runtimes", "drain", "stop probes", "close resources", "closed"} =>
          "job" \notin new
    BY <1>1, <1>3, <2>1 DEF UsersFit
  <2>5. app[i] \in {"close resources", "closed"} => "probe" \notin new
    BY <1>1, <1>3, <2>1 DEF UsersFit
  <2> QED BY <1>2, <1>4, <2>2, <2>3, <2>4, <2>5 DEF UsersFit
<1> QED BY <1>5, <1>6, <1>7, <1>8, <1>9, OneMoves

(* A step that changes nothing but the stage of an application.            *)
LEMMA StageKeeps ==
  ASSUME HostInv, NEW i \in Apps, NEW at \in Stages, To(i, at),
         UNCHANGED <<runtime, timers, owner, users>>, database' \in {"open", "closed"},
         StaysClosed(i), GetsOn(i),
         \/ at = "reserve recovery" /\ app[i] = "none"
         \/ at = "listening" /\ app[i] = "built"
         \/ at = "http" /\ app[i] \in {"built", "listening"}
         \/ at = "stop workers" /\ app[i] = "http"
         \/ at = "stop runtimes" /\ app[i] = "stop workers" /\ "job" \notin users[i]
         \/ at = "stop probes" /\ app[i] = "drain" /\ Among(i, "stopped") = Kinds
         \/ at = "close resources" /\ app[i] = "stop probes" /\ "probe" \notin users[i]
         \/ at = "closed" /\ app[i] = "close resources"
  PROVE  HostInv'
<1>1. HostTypes /\ RuntimesFit(i) /\ UsersFit(i) /\ OwnersHold
  BY DEF HostInv
<1>2. /\ app' \in [Apps -> Stages] /\ app'[i] = at
      /\ \A j \in Apps \ {i} : app'[j] = app[j]
  BY <1>1, StageMoves
<1>3. HostTypes' /\ Alone(i)
  BY <1>1, <1>2 DEF HostTypes, Alone
<1>4. \A k \in Kinds : owner'[k] = i <=> runtime'[i][k] \in Owning
  BY <1>1 DEF OwnersHold
<1>5. RuntimesFit(i)'
  BY <1>1, <1>2 DEF RuntimesFit, All, Served, Among
<1>6. UsersFit(i)'
  BY <1>1, <1>2 DEF UsersFit, Starting
<1> QED BY <1>3, <1>4, <1>5, <1>6, OneMoves

LEMMA OperatingKeeps ==
  ASSUME HostInv, NEW i \in Apps, OperatorStep(i)
  PROVE  HostInv'
<1>1. HostTypes /\ ClosedForGood /\ Settled
  BY DEF HostInv, OperatorStep, Begin, Listen, BeginClose, GiveUp
<1>2. CASE Begin(i)
  <2>1. "reserve recovery" \in Stages
    BY DEF Stages, Starting
  <2>2. GetsOn(i)
    BY <1>1, <1>2 DEF Begin, GetsOn, To, HostTypes, Settled, Starting, Closing
  <2>3. StaysClosed(i)
    BY <1>2 DEF Begin, StaysClosed
  <2> QED BY <1>1, <1>2, <2>1, <2>2, <2>3, StageKeeps DEF Begin, HostTypes
<1>3. CASE Listen(i) \/ BeginClose(i)
  <2>1. PICK at \in {"listening", "http"} :
          /\ To(i, at)
          /\ at = "listening" => app[i] = "built"
          /\ app[i] \in {"built", "listening"}
          /\ UNCHANGED <<runtime, timers, owner, users, database>>
    BY <1>3 DEF Listen, BeginClose
  <2>2. at \in Stages
    BY DEF Stages, Closing
  <2>3. GetsOn(i)
    <3>1. \A j \in Apps \ {i} : app[j] \in Idle
      BY <1>1, <2>1, OneRuns
    <3> QED BY <3>1 DEF GetsOn, Idle, Starting, Closing
  <2>4. StaysClosed(i)
    BY <1>1, <2>1 DEF StaysClosed, ClosedForGood
  <2> QED BY <1>1, <2>1, <2>2, <2>3, <2>4, StageKeeps DEF HostTypes
<1>4. CASE GiveUp(i)
  <2>1. UNCHANGED <<app, runtime, timers, owner, users>> /\ database' = "closed"
    BY <1>4 DEF GiveUp
  <2>2. HostTypes'
    BY <1>1, <2>1 DEF HostTypes
  <2>3. ClosedForGood'
    BY <1>4, <2>1 DEF GiveUp, ClosedForGood
  <2>4. OwnersHold' /\ OneAtATime'
    BY <2>1 DEF HostInv, OwnersHold, OneAtATime
  <2>5. \A j \in Apps : RuntimesFit(j)' /\ UsersFit(j)'
    BY <2>1, ZenonT(60) DEF HostInv, RuntimesFit, UsersFit, All
  <2> QED BY <2>2, <2>3, <2>4, <2>5 DEF HostInv
<1> QED BY <1>2, <1>3, <1>4 DEF OperatorStep

LEMMA ClosingKeeps ==
  ASSUME HostInv, NEW i \in Apps, CloseStep(i) \/ HttpEnds(i)
  PROVE  HostInv'
<1>1. /\ HostTypes /\ RuntimesFit(i) /\ UsersFit(i) /\ OwnersHold /\ ClosedForGood
      /\ Settled
  BY DEF HostInv, CloseStep, HttpEnds, WorkersStopped, StopRuntimes, RuntimesStopped,
     RuntimeDrained, ProbesSettled, CloseResources
<1>2. ASSUME app[i] \in Closing PROVE GetsOn(i)
  BY <1>2, OneIsBusy DEF GetsOn
<1>3. CASE HttpEnds(i) \/ WorkersStopped(i) \/ RuntimesStopped(i) \/ ProbesSettled(i)
  <2>1. PICK at \in {"stop workers", "stop runtimes", "stop probes", "close resources"} :
          /\ To(i, at)
          /\ \/ at = "stop workers" /\ app[i] = "http"
             \/ at = "stop runtimes" /\ app[i] = "stop workers" /\ "job" \notin users[i]
             \/ at = "stop probes" /\ app[i] = "drain" /\ Among(i, "stopped") = Kinds
             \/ at = "close resources" /\ app[i] = "stop probes" /\ "probe" \notin users[i]
          /\ UNCHANGED <<runtime, timers, owner, users, database>>
    BY <1>3 DEF HttpEnds, WorkersStopped, RuntimesStopped, ProbesSettled
  <2>2. at \in Stages /\ app[i] \in Closing
    BY <2>1 DEF Stages, Closing
  <2>3. StaysClosed(i)
    BY <1>1, <2>1 DEF StaysClosed, ClosedForGood
  <2> QED BY <1>1, <1>2, <2>1, <2>2, <2>3, StageKeeps DEF HostTypes
<1>4. CASE CloseResources(i)
  <2>1. /\ To(i, "closed") /\ app[i] = "close resources" /\ database' = "closed"
        /\ UNCHANGED <<runtime, timers, owner, users>>
    BY <1>4 DEF CloseResources
  <2>2. "closed" \in Stages /\ app[i] \in Closing
    BY <2>1 DEF Stages, Closing
  <2>3. StaysClosed(i)
    <3>1. app'[i] = "closed"
      BY <1>1, <2>1 DEF To, HostTypes
    <3> QED BY <2>2, <3>1, OneIsBusy DEF StaysClosed
  <2> QED BY <1>2, <2>1, <2>2, <2>3, StageKeeps
<1>5. CASE StopRuntimes(i)
  <2>1. /\ app[i] \in {"stop runtimes", "abandoned"} /\ Among(i, "active") # {}
        /\ runtime' = [runtime EXCEPT ![i] = [k \in Kinds |-> "stopping"]]
        /\ UNCHANGED <<owner, users, database>>
    BY <1>5 DEF StopRuntimes
  <2>2. \A k \in Kinds : runtime[i][k] = "active"
    BY <1>1, <2>1 DEF RuntimesFit, All, Served, Among
  <2>3. /\ \A k \in Kinds : runtime'[i][k] = "stopping"
        /\ \A j \in Apps \ {i} : runtime'[j] = runtime[j]
        /\ runtime' \in [Apps -> [Kinds -> States]]
    <3>1. [k \in Kinds |-> "stopping"] \in [Kinds -> States]
      BY DEF States
    <3> QED BY <1>1, <2>1, <3>1 DEF HostTypes
  <2>4. /\ app' \in [Apps -> Stages] /\ \A j \in Apps \ {i} : app'[j] = app[j]
        /\ app'[i] = IF app[i] = "abandoned" THEN "abandoned" ELSE "drain"
    BY <1>1, <1>5 DEF StopRuntimes, HostTypes, Stages, Closing
  <2>5. timers' \in [Apps -> SUBSET Kinds]
    <3>1. [timers EXCEPT ![i] = timers[i] \ Among(i, "active")] \in [Apps -> SUBSET Kinds]
      BY <1>1 DEF HostTypes
    <3> QED BY <1>1, <1>5, <3>1 DEF StopRuntimes, Cancelled, HostTypes
  <2>6. HostTypes' /\ Alone(i)
    BY <1>1, <2>1, <2>3, <2>4, <2>5 DEF HostTypes, Alone
  <2>7. GetsOn(i)
    BY <1>2, <2>1, <2>4 DEF GetsOn, Closing
  <2>8. StaysClosed(i)
    BY <1>1, <2>1, <2>4 DEF StaysClosed, ClosedForGood, Idle
  <2>9. \A k \in Kinds : owner'[k] = i <=> runtime'[i][k] \in Owning
    BY <1>1, <2>1, <2>2, <2>3 DEF OwnersHold, Owning
  <2>10. RuntimesFit(i)'
    BY <2>1, <2>3, <2>4 DEF RuntimesFit, All, Served
  <2>11. UsersFit(i)'
    BY <1>1, <2>1, <2>3, <2>4 DEF UsersFit, Starting
  <2> QED BY <2>6, <2>7, <2>8, <2>9, <2>10, <2>11, OneMoves
<1>6. ASSUME NEW k \in Kinds, RuntimeDrained(i, k) PROVE HostInv'
  <2>1. /\ runtime[i][k] = "stopping" /\ k \notin users[i] /\ Become(i, k, "stopped")
        /\ owner' = IF owner[k] = i THEN [owner EXCEPT ![k] = Nobody] ELSE owner
        /\ UNCHANGED <<app, timers, users, database>>
    BY <1>6 DEF RuntimeDrained, PassOver
  <2>2. /\ runtime' \in [Apps -> [Kinds -> States]] /\ runtime'[i][k] = "stopped"
        /\ \A l \in Kinds \ {k} : runtime'[i][l] = runtime[i][l]
        /\ \A j \in Apps \ {i} : runtime'[j] = runtime[j]
    BY <1>1, <2>1, RuntimeMoves DEF States
  <2>3. owner[k] = i
    BY <1>1, <2>1 DEF OwnersHold, Owning
  <2>4. /\ owner' \in [Kinds -> Apps \cup {Nobody}] /\ owner'[k] = Nobody
        /\ \A l \in Kinds \ {k} : owner'[l] = owner[l]
    BY <1>1, <2>1, <2>3 DEF HostTypes
  <2>5. HostTypes'
    BY <1>1, <2>1, <2>2, <2>4 DEF HostTypes
  <2>6. Alone(i)
    BY <2>1, <2>2, <2>3, <2>4, OwnersAreApps DEF Alone
  <2>7. GetsOn(i) /\ StaysClosed(i)
    BY <1>1, <2>1 DEF GetsOn, StaysClosed, ClosedForGood, Idle
  <2>8. \A l \in Kinds : owner'[l] = i <=> runtime'[i][l] \in Owning
    BY <1>1, <2>2, <2>4, OwnersAreApps DEF OwnersHold, Owning
  <2>9. app[i] \in {"drain", "abandoned"} /\ All(i, {"stopping", "stopped"})
    BY <1>1, <2>1 DEF RuntimesFit, All, Served, HostTypes, Stages, Starting, Closing, Kinds
  <2>10. RuntimesFit(i)'
    BY <2>1, <2>2, <2>9 DEF RuntimesFit, All, Served
  <2>11. UsersFit(i)'
    BY <1>1, <2>1, <2>2 DEF UsersFit
  <2> QED BY <2>5, <2>6, <2>7, <2>8, <2>10, <2>11, OneMoves
<1> QED BY <1>3, <1>4, <1>5, <1>6 DEF CloseStep

-----------------------------------------------------------------------------
(* The process.                                                            *)

LEMMA CrashKeeps == ASSUME Crash PROVE HostInv'
<1> USE Crash DEF Crash
<1>1. HostTypes'
  BY DEF HostTypes, Stages, States
<1>2. OwnersHold'
  BY DEF OwnersHold, Owning, Nobody, Apps
<1>3. OneAtATime' /\ ClosedForGood'
  BY DEF OneAtATime, ClosedForGood, Starting, Closing
<1>4. \A i \in Apps : RuntimesFit(i)' /\ UsersFit(i)'
  BY DEF RuntimesFit, UsersFit, All, Served, Starting
<1> QED BY <1>1, <1>2, <1>3, <1>4 DEF HostInv

(* A step of the process leaves the host alone, ends it, or is one of its. *)
HostMoves ==
  \/ UNCHANGED <<hosting, database>>
  \/ Crash
  \/ Settled /\ \E i \in Apps :
       \/ \E k \in Kinds : TimerFires(i, k)
       \/ \E work \in {"job", "probe"} : WorkStarts(i, work)
       \/ \E work \in AllWork : WorkEnds(i, work)
  \/ \E i \in Apps : StartStep(i) \/ CloseStep(i) \/ HttpEnds(i) \/ OperatorStep(i)

LEMMA ProcessMovesHost == ASSUME [ProcessNext]_process PROVE HostMoves
<1>1. CASE Arrival \/ StreamRuns \/ RequestRuns \/ OutsideRuns \/ Scavenging
           \/ UNCHANGED process
  BY <1>1 DEF Arrival, StreamRuns, StreamStep, RequestRuns, RequestStep, OutsideRuns,
     OutsideStep, Scavenging, PassStep, process, upload, hosting, HostMoves
<1>2. CASE HostRuns
  BY <1>2 DEF HostRuns, Serving, Progress, HostMoves
<1>3. CASE Serving(\E i \in Apps : Works(i) \/ Operated(i))
  BY <1>3 DEF Serving, Works, Operated, TimerFires, WorkStarts, HostMoves
<1>4. CASE WorkIsDone(Kinds \cup {"job", "probe"})
  BY <1>4 DEF WorkIsDone, Serving, Working, WorkEnds, AllWork, HostMoves
<1>5. CASE Crash
  BY <1>5 DEF HostMoves
<1> QED BY <1>1, <1>2, <1>3, <1>4, <1>5 DEF ProcessNext

LEMMA HostKeeps == ASSUME HostInv, [ProcessNext]_process PROVE HostInv'
<1>1. CASE UNCHANGED <<hosting, database>>
  <2>1. UNCHANGED <<app, runtime, timers, owner, users, database>>
    BY <1>1 DEF hosting
  <2>2. HostTypes' /\ OwnersHold' /\ OneAtATime' /\ ClosedForGood'
    BY <2>1 DEF HostInv, HostTypes, OwnersHold, OneAtATime, ClosedForGood
  <2>3. ASSUME NEW i \in Apps PROVE RuntimesFit(i)' /\ UsersFit(i)'
    BY <2>1 DEF HostInv, RuntimesFit, UsersFit, All
  <2> QED BY <2>2, <2>3 DEF HostInv
<1> QED BY <1>1, ProcessMovesHost, CrashKeeps, WorkingKeeps, StartingKeeps,
      ClosingKeeps, OperatingKeeps DEF HostMoves

THEOREM HostIsInvariant == ProcessSpec => []HostInv
<1>1. ProcessInit => HostInv
  BY HostStarts DEF ProcessInit
<1>2. HostInv /\ [ProcessNext]_process => HostInv'
  BY HostKeeps
<1> QED BY <1>1, <1>2, PTL DEF ProcessSpec

(* Of all the applications composed in one process only the owner of a     *)
(* runtime has a pass of it in flight or can start one, however the starts *)
(* and the shutdowns follow on each other (c8-runtime-supervisor.ts,       *)
(* retention-runtime.ts).                                                  *)
THEOREM OwnerAlone == ProcessSpec => []OwnerRunsAlone
<1>1. HostInv => OwnerRunsAlone
  <2> SUFFICES ASSUME HostInv, NEW i \in Apps, NEW k \in Kinds
               PROVE  /\ \/ k \in users[i]
                         \/ k \in timers[i] /\ runtime[i][k] = "active"
                         => owner[k] = i
                      /\ app[i] \in {"failed", "closed"} => owner[k] # i
    BY DEF OwnerRunsAlone
  <2>1. owner[k] = i <=> runtime[i][k] \in Owning
    BY DEF HostInv, OwnersHold
  <2>2. k \in users[i] => runtime[i][k] \in {"active", "stopping"}
    BY DEF HostInv, UsersFit
  <2>3. app[i] \in {"failed", "closed"} => runtime[i][k] = "stopped"
    BY DEF HostInv, RuntimesFit, All
  <2> QED BY <2>1, <2>2, <2>3 DEF Owning
<1> QED BY <1>1, HostIsInvariant, PTL

(* A request runs in an application that listens or closes; once its       *)
(* connections are over, its client is gone.                               *)
RequestIsServed ==
  Running =>
    /\ app[1] \in {"listening"} \cup Closing
    /\ app[1] \in Closing \ {"http"} => client.at \notin {"sending", "sent"}

LEMMA RequestRemainsServed ==
  ASSUME UploadInv, HostInv, RequestIsServed, [ProcessNext]_process
  PROVE  RequestIsServed'
<1>1. 1 \in Apps
  BY HostAssumption DEF Apps
<1>2. /\ client \in [at : {"sending", "sent", "left", "gone", "unheard", "closed"},
                     rest : Seq(Tokens)]
      /\ app \in [Apps -> Stages] /\ request \in RequestType
  BY DEF UploadInv, UploadTypes, TransportTypes, HostInv, HostTypes
<1>3. CASE \/ StreamRuns \/ RequestRuns \/ OutsideRuns \/ Scavenging
           \/ UNCHANGED process
  <2>1. app' = app
    BY <1>3 DEF StreamRuns, RequestRuns, OutsideRuns, Scavenging, process, hosting
  <2>2. Running' => Running
    <3>1. request' = request \/ RequestStep
      BY <1>3 DEF StreamRuns, StreamStep, ParserReads, DrainReads, RequestRuns,
         OutsideRuns, OutsideStep, ClientLeaves, DeadlinePasses, Scavenging, PassStep,
         PassTakes, PassLists, PassDeletes, PassAcknowledges, PassEnds, process, upload
    <3>2. RequestStep => Running
      BY DEF RequestStep, OpenStep, ReceiveStep, ExtractStep, PublishStep, AbortStep,
         Preflight, Initialize, ScheduleTemporary, OpenTemporary, SecureTemporary,
         UnsecuredRemoved, TakePart, ReadChunk, ReadBroken, ReadEnd, Inspect,
         ScheduleFrames, Stage, Decode, Materialize, WriteReceipt, ReserveFrames,
         MoveFrames, CompleteFrames, Unstage, DropFrames, DropStaging, Reserve, Rename,
         Disown, Attach, AbortTemporary, AbortPublication, AcknowledgeTemporary, Cleanup,
         Answer, At, Running
    <3> QED BY <3>1, <3>2 DEF Running
  <2>3. client'.at \in {"sending", "sent"} => client.at \in {"sending", "sent"}
    <3>1. client' = client \/ client.at \in {"sending", "sent"}
      BY <1>3 DEF StreamRuns, StreamStep, ParserReads, DrainReads, OutsideRuns,
         OutsideStep, ClientLeaves, DeadlinePasses, transport, Scavenging, PassStep,
         PassTakes, PassLists, PassDeletes, PassAcknowledges, PassEnds, process, upload,
         RequestRuns, RequestStep, OpenStep, ReceiveStep, ExtractStep, PublishStep,
         AbortStep, Preflight, Initialize, ScheduleTemporary, OpenTemporary,
         SecureTemporary, UnsecuredRemoved, TakePart, ReadChunk, ReadBroken, ReadEnd,
         Inspect, ScheduleFrames, Stage, Decode, Materialize, WriteReceipt,
         ReserveFrames, MoveFrames, CompleteFrames, Unstage, DropFrames, DropStaging,
         Reserve, Rename, Disown, Attach, AbortTemporary, AbortPublication,
         AcknowledgeTemporary, Cleanup, Answer
    <3> QED BY <3>1
  <2> QED BY <2>1, <2>2, <2>3 DEF RequestIsServed
<1>4. CASE Arrival
  <2>1. app'[1] = "listening"
    BY <1>4 DEF Arrival, hosting
  <2> QED BY <2>1 DEF RequestIsServed, Closing
<1>5. CASE Crash
  <2>1. ~Running'
    BY <1>2, <1>5 DEF Crash, ProcessStops, Running, RequestType
  <2> QED BY <2>1 DEF RequestIsServed
<1>6. CASE \/ HostRuns \/ Serving(\E i \in Apps : Works(i) \/ Operated(i))
           \/ WorkIsDone(Kinds \cup {"job", "probe"})
  <2> SUFFICES ASSUME Running PROVE RequestIsServed'
    BY <1>6 DEF HostRuns, WorkIsDone, Serving, RequestIsServed, Running
  <2>1. UNCHANGED <<client, request>>
    BY <1>6 DEF HostRuns, WorkIsDone, Serving, transport
  <2>2. /\ app[1] \in {"listening"} \cup Closing
        /\ app[1] \in Closing \ {"http"} => client.at \notin {"sending", "sent"}
    BY DEF RequestIsServed
  <2>3. /\ app'[1] \in {"listening"} \cup Closing
        /\ app'[1] \in Closing \ {"http"} => client.at \notin {"sending", "sent"}
    <3>1. CASE app'[1] = app[1]
      BY <2>2, <3>1
    <3>2. CASE HostRuns
      <4>1. PICK i \in Apps : Progress(i)
        BY <3>2 DEF HostRuns, Serving
      <4>2. CASE StartStep(i)
        <5>1. i # 1
          BY <2>2, <4>2 DEF StartStep, ReserveOwner, Register, Activate, Rollback,
             StartWorkers, Closing, Kinds
        <5> QED BY <1>1, <1>2, <2>2, <4>2, <5>1 DEF StartStep, ReserveOwner, Register,
              Activate, Rollback, StartWorkers, To
      <4>3. CASE CloseStep(i)
        <5>1. app[1] = "listening" => app'[1] = app[1]
          BY <1>1, <1>2, <4>3 DEF CloseStep, WorkersStopped, StopRuntimes,
             RuntimesStopped, RuntimeDrained, ProbesSettled, CloseResources, To
        <5>2. app[1] = "http" => app'[1] = app[1]
          BY <1>1, <1>2, <4>3 DEF CloseStep, WorkersStopped, StopRuntimes,
             RuntimesStopped, RuntimeDrained, ProbesSettled, CloseResources, To
        <5>3. app[1] \in Closing => app'[1] \in Closing
          BY <1>1, <1>2, <4>3 DEF CloseStep, WorkersStopped, StopRuntimes,
             RuntimesStopped, RuntimeDrained, ProbesSettled, CloseResources, To, Closing
        <5> QED BY <2>2, <5>1, <5>2, <5>3
      <4>4. CASE HttpEnds(i) /\ ~ConnectionOpen
        <5>1. CASE i # 1
          BY <1>1, <1>2, <2>2, <4>4, <5>1 DEF HttpEnds, To
        <5>2. CASE i = 1
          <6>1. app'[1] = "stop workers"
            BY <1>1, <1>2, <4>4, <5>2 DEF HttpEnds, To
          <6>2. client.at \notin {"sending", "sent"}
            BY <4>4 DEF ConnectionOpen, BodyArriving, Running, At
          <6> QED BY <6>1, <6>2 DEF Closing
        <5> QED BY <5>1, <5>2
      <4> QED BY <4>1, <4>2, <4>3, <4>4 DEF Progress
    <3>3. CASE Serving(\E i \in Apps : Works(i) \/ Operated(i))
      <4>1. PICK i \in Apps : Works(i) \/ Operated(i)
        BY <3>3 DEF Serving
      <4>2. CASE Works(i)
        BY <2>2, <4>2 DEF Works, TimerFires, WorkStarts
      <4>3. CASE OperatorStep(i)
        BY <1>1, <1>2, <2>2, <4>3 DEF OperatorStep, Begin, Listen, BeginClose, GiveUp, To,
           Closing
      <4> QED BY <4>1, <4>2, <4>3 DEF Operated
    <3>4. CASE WorkIsDone(Kinds \cup {"job", "probe"})
      BY <2>2, <3>4 DEF WorkIsDone, Serving, Working, WorkEnds
    <3> QED BY <1>6, <3>2, <3>3, <3>4
  <2> QED BY <2>1, <2>3 DEF RequestIsServed
<1> QED BY <1>3, <1>4, <1>5, <1>6 DEF ProcessNext


(* The database is closed after everything that uses it has ended, but for *)
(* the passes of an application without workers and for the handler of a   *)
(* request whose client is gone (attempt-api.ts, startup.ts).              *)
THEOREM DatabaseOutlives == ProcessSpec => []DatabaseOutlivesItsUsers
<1>1. ProcessInit => RequestIsServed
  BY DEF ProcessInit, UploadInit, RequestIsServed, Running
<1>2. UploadInv /\ HostInv /\ RequestIsServed /\ [ProcessNext]_process => RequestIsServed'
  BY RequestRemainsServed
<1>3. UploadInv /\ HostInv /\ RequestIsServed => DatabaseOutlivesItsUsers
  <2> SUFFICES ASSUME UploadInv, HostInv, RequestIsServed, database = "closed"
               PROVE  /\ \A i \in Apps : users[i] = {} \/ app[i] = "abandoned"
                      /\ Running => client.at \in {"gone", "unheard", "left", "closed"}
    BY DEF DatabaseOutlivesItsUsers
  <2>1. \A i \in Apps : app[i] \in {"none", "failed", "abandoned", "closed"}
    BY DEF HostInv, ClosedForGood
  <2>2. ASSUME NEW i \in Apps, app[i] # "abandoned" PROVE users[i] = {}
    <3>1. RuntimesFit(i) /\ UsersFit(i) /\ users[i] \subseteq AllWork
      BY DEF HostInv, HostTypes
    <3>2. \A k \in Kinds : k \notin users[i]
      BY <2>1, <2>2, <3>1 DEF RuntimesFit, UsersFit, All
    <3>3. "job" \notin users[i] /\ "probe" \notin users[i]
      BY <2>1, <2>2, <3>1, <3>2 DEF UsersFit, Kinds
    <3> QED BY <3>1, <3>2, <3>3 DEF AllWork
  <2>3. ASSUME Running PROVE client.at \in {"gone", "unheard", "left", "closed"}
    <3>1. 1 \in Apps
      BY HostAssumption DEF Apps
    <3>2. app[1] = "closed"
      BY <2>1, <2>3, <3>1 DEF RequestIsServed, Closing
    <3> QED BY <2>3, <3>2 DEF RequestIsServed, Closing, UploadInv, UploadTypes,
          TransportTypes
  <2> QED BY <2>2, <2>3
<1> QED BY <1>1, <1>2, <1>3, UploadIsInvariant, HostIsInvariant, PTL DEF ProcessSpec
=============================================================================
