----------------------- MODULE ReleasePipeline_proofs -----------------------
(***************************************************************************)
(* The inductive invariant of ReleasePipeline, and from it that what the   *)
(* gate passes is what was signed, fits together and was reviewed, for any *)
(* number of builds, runs of the generator and bundles, and any holders of *)
(* the keys; and that the approvals are independent if no one holds two.   *)
(***************************************************************************)
EXTENDS ReleasePipeline, Integers, TLAPS

\* An image manifest names the image whose SBOM it describes.
Manifests == {m \in [image : Nat, file : Scans] : m.file.image = m.image} \union {NULL}

Generators ==
  [pc : {"idle", "started", "scanned", "writing"}, image : Nat, text : Nat,
   manifest : Manifests, next : 0 .. 8]

FilesInv ==
  /\ DOMAIN candidate = Files
  /\ candidate.lock \in Locks \union {NULL}
  /\ candidate.spdx \in Documents \union {NULL}
  /\ candidate.notices \in Nat \union {NULL}
  /\ candidate.queue \in Queues \union {NULL}
  /\ candidate.imageSboms \in Scans \union {NULL}
  /\ candidate.imageManifest \in Manifests

GeneratorInv ==
  /\ build \in Builds /\ runs \in 0 .. MaxRuns
  /\ generator \in Generators
  /\ generator.next > 0 <=> generator.pc = "writing"
  /\ generator.image <= build /\ generator.text <= build
  /\ reviewed \subseteq Builds
  /\ torn \subseteq [image : Builds, text : Builds]

Present(files) == \A f \in files : candidate[f] # NULL

Required == {"licences", "lock", "cdx", "spdx", "notices", "sources"}

\* What is written stays, and the blockers are written after the rest.
ProgressInv ==
  /\ generator.next > 0 => Present({"licences"})
  /\ generator.next > 1 => Present({"lock"})
  /\ generator.next > 2 => Present({"cdx"})
  /\ generator.next > 3 => Present({"spdx"})
  /\ generator.next > 4 => Present({"notices"})
  /\ generator.next > 5 => Present({"sources"})
  /\ candidate.blockers # NULL => Present(Required)

\* The lock is the newest of the files that name the image, for it is written first,
\* and no newer than the run that writes.
OrderInv ==
  /\ candidate.lock # NULL =>
       /\ candidate.lock.image <= build /\ candidate.lock.text <= build
       /\ generator # Idle => candidate.lock.image <= generator.image
  /\ candidate.notices # NULL =>
       candidate.lock # NULL /\ candidate.notices <= candidate.lock.image
  /\ candidate.spdx # NULL =>
       candidate.lock # NULL /\ candidate.spdx.image <= candidate.lock.image
  /\ generator.next > 1 =>
       candidate.lock = [status |-> "blocked", image |-> generator.image,
                         text |-> generator.text]

\* The texts of the lock were reviewed, or its run failed.
Accounted(lock, failed, seen) ==
  lock.text \in seen \/ [image |-> lock.image, text |-> lock.text] \in failed

\* The review that is recorded is that of the lock, once its run has ended.
ReviewInv ==
  /\ candidate.lock # NULL /\ candidate.lock.status = "approved" =>
       Accounted(candidate.lock, torn, reviewed)
  /\ generator.next <= 1 /\ candidate.lock # NULL =>
       \/ candidate.queue # NULL /\ candidate.queue.text = candidate.lock.text
       \/ [image |-> candidate.lock.image, text |-> candidate.lock.text] \in torn
  /\ candidate.queue # NULL =>
       /\ candidate.queue.text <= build
       /\ candidate.queue.recorded => candidate.queue.text \in reviewed

\* The notices are no older than the SBOM, or a run for its image failed.
Noticed(spdx, notices, failed) ==
  notices >= spdx.image \/ \E run \in failed : run.image = spdx.image

NoticesInv ==
  candidate.spdx # NULL =>
    \/ candidate.notices # NULL /\ Noticed(candidate.spdx, candidate.notices, torn)
    \/ \E run \in torn : run.image = candidate.spdx.image
    \/ /\ generator.next = 4
       /\ candidate.spdx.image = generator.image /\ ~ candidate.spdx.concluded

Fits(images) == images.manifest # NULL => images.manifest.file.image = images.manifest.image

\* What is staged was true of the candidate directory when it was copied; the lock
\* in it, copied last, is no older than the notices.
StagingInv ==
  /\ preparer \in 0 .. 8
  /\ preparer > 0 => DOMAIN staging = Parts /\ Present(Required)
  /\ preparer > 1 => staging.licences # NULL
  /\ preparer > 2 => Fits(staging.images)
  /\ preparer > 3 => staging.sources # NULL
  /\ preparer > 4 => staging.cdx # NULL
  /\ preparer > 5 =>
       /\ staging.spdx \in Documents
       /\ staging.spdx.concluded => Noticed(staging.spdx, candidate.notices, torn)
  /\ preparer > 6 =>
       /\ staging.notices \in Nat /\ staging.notices <= candidate.lock.image
       /\ staging.spdx.concluded => Noticed(staging.spdx, staging.notices, torn)
  /\ preparer > 7 =>
       /\ staging.lock \in Locks /\ staging.notices <= staging.lock.image
       /\ staging.lock.status = "approved" => Accounted(staging.lock, torn, reviewed)

\* What the files of a bundle say of each other, however they came together.
Sound(files, failed, seen) ==
  /\ Fits(files.images)
  /\ files.lock \in Locks /\ files.spdx \in Documents /\ files.notices \in Nat
  /\ Accounted(files.lock, failed, seen)
  /\ files.spdx.concluded => Noticed(files.spdx, files.notices, failed)
  /\ files.notices <= files.lock.image

OutputInv ==
  output # NULL =>
    /\ output = [files |-> output.files, subject |-> output.subject]
    /\ Sound(output.files, torn, reviewed)
    /\ \A part \in Parts \ {"images"} : output.files[part] # NULL

EvidenceInv ==
  evidence # NULL =>
    /\ evidence = [files |-> evidence.files,
                   payload |-> [files |-> evidence.payload.files,
                                subject |-> evidence.payload.subject]]
    /\ Sound(evidence.files, torn, reviewed)

\* A signature was given by somebody who has the key of the role.
ApprovalsInv ==
  /\ DOMAIN approvals = Roles
  /\ \A role \in Roles : approvals[role] # NULL => approvals[role].by \in Holders[role]

ShippedInv == ShippedAsSigned /\ ShippedFitsTogether /\ ShippedWasReviewed

CandidateInv ==
  /\ FilesInv /\ GeneratorInv /\ ProgressInv /\ OrderInv /\ ReviewInv /\ NoticesInv

IInv ==
  /\ CandidateInv
  /\ StagingInv /\ OutputInv /\ EvidenceInv /\ ApprovalsInv /\ ShippedInv

-----------------------------------------------------------------------------
\* The names of the files, in the order in which they are written and copied.
LEMMA FileNames ==
  /\ Written[1] = "lock" /\ Written[2] = "cdx" /\ Written[3] = "spdx"
  /\ Written[4] = "notices" /\ Written[5] = "sources" /\ Written[6] = "imageManifest"
  /\ Written[7] = "blockers" /\ Written[8] = "queue" /\ Len(Written) = 8
  /\ Files = {"lock", "cdx", "spdx", "notices", "sources", "imageManifest", "blockers",
              "queue", "imageSboms", "licences"}
  /\ Copied[1] = "licences" /\ Copied[2] = "images" /\ Copied[3] = "sources"
  /\ Copied[4] = "cdx" /\ Copied[5] = "spdx" /\ Copied[6] = "notices"
  /\ Copied[7] = "lock" /\ Len(Copied) = 7
  /\ Parts = {"licences", "images", "sources", "cdx", "spdx", "notices", "lock"}
<1>1. /\ Written[1] = "lock" /\ Written[2] = "cdx" /\ Written[3] = "spdx"
      /\ Written[4] = "notices" /\ Written[5] = "sources" /\ Written[6] = "imageManifest"
      /\ Written[7] = "blockers" /\ Written[8] = "queue" /\ Len(Written) = 8
  BY DEF Written
<1>2. /\ Copied[1] = "licences" /\ Copied[2] = "images" /\ Copied[3] = "sources"
      /\ Copied[4] = "cdx" /\ Copied[5] = "spdx" /\ Copied[6] = "notices"
      /\ Copied[7] = "lock" /\ Len(Copied) = 7
  BY DEF Copied
<1>3. 1 .. 8 = {1, 2, 3, 4, 5, 6, 7, 8} /\ 1 .. 7 = {1, 2, 3, 4, 5, 6, 7}
  OBVIOUS
<1>4. Files = {"lock", "cdx", "spdx", "notices", "sources", "imageManifest", "blockers",
               "queue", "imageSboms", "licences"}
  <2>1. {Written[i] : i \in 1 .. 8} = {Written[1], Written[2], Written[3], Written[4],
                                       Written[5], Written[6], Written[7], Written[8]}
    BY <1>3
  <2> QED
    BY <1>1, <2>1 DEF Files
<1>5. Parts = {"licences", "images", "sources", "cdx", "spdx", "notices", "lock"}
  <2>1. {Copied[i] : i \in 1 .. 7} = {Copied[1], Copied[2], Copied[3], Copied[4],
                                      Copied[5], Copied[6], Copied[7]}
    BY <1>3
  <2> QED
    BY <1>2, <2>1 DEF Parts
<1> QED
  BY <1>1, <1>2, <1>4, <1>5

\* The initial state satisfies the invariant: there are no files.
LEMMA InitInvariant == Init => IInv
<1> SUFFICES ASSUME Init PROVE IInv
  OBVIOUS
<1> USE DEF Init
<1>1. \A f \in Files : candidate[f] = NULL
  OBVIOUS
<1>2. /\ candidate.lock = NULL /\ candidate.spdx = NULL /\ candidate.notices = NULL
      /\ candidate.queue = NULL /\ candidate.imageSboms = NULL
      /\ candidate.imageManifest = NULL /\ candidate.blockers = NULL
  BY <1>1, FileNames
<1>3. FilesInv
  BY <1>2 DEF FilesInv, Manifests
<1>4. GeneratorInv
  BY ReleaseAssumption DEF GeneratorInv, Generators, Manifests, Idle, Builds
<1>5. ProgressInv
  BY <1>2 DEF ProgressInv, Idle
<1>6. OrderInv /\ ReviewInv /\ NoticesInv
  BY <1>2 DEF OrderInv, ReviewInv, NoticesInv, Idle
<1>7. StagingInv /\ OutputInv /\ EvidenceInv /\ ApprovalsInv
  BY DEF StagingInv, OutputInv, EvidenceInv, ApprovalsInv
<1>8. ShippedInv
  BY DEF ShippedInv, ShippedAsSigned, ShippedFitsTogether, ShippedWasReviewed
<1> QED
  BY <1>3, <1>4, <1>5, <1>6, <1>7, <1>8 DEF IInv, CandidateInv

-----------------------------------------------------------------------------
(* The generator, the review and builds                                    *)

\* What these steps leave true for what was copied before.
Grown ==
  /\ torn \subseteq torn' /\ reviewed \subseteq reviewed'
  /\ Present(Required) =>
       /\ Present(Required)'
       /\ candidate.notices <= candidate'.notices
       /\ candidate.lock.image <= candidate'.lock.image

\* Numbers of the files that are there.
LEMMA Numbers ==
  ASSUME CandidateInv
  PROVE  /\ build \in Nat /\ generator.image \in Nat /\ generator.text \in Nat
         /\ generator.next \in 0 .. 8 /\ MaxBuild \in Nat
         /\ candidate.lock # NULL => candidate.lock.image \in Nat /\ candidate.lock.text \in Nat
         /\ candidate.spdx # NULL => candidate.spdx.image \in Nat
         /\ candidate.notices # NULL => candidate.notices \in Nat
  BY ReleaseAssumption
  DEF CandidateInv, GeneratorInv, FilesInv, Generators, Builds, Locks, Documents

\* A step that leaves the candidate directory alone does not take back anything.
LEMMA SameFiles ==
  ASSUME CandidateInv, candidate' = candidate, torn \subseteq torn', reviewed' = reviewed
  PROVE  Grown
<1>1. Present(Required) => candidate.notices \in Nat /\ candidate.lock.image \in Nat
  BY Numbers DEF Present, Required
<1>2. Present(Required) =>
        candidate.notices <= candidate.notices /\ candidate.lock.image <= candidate.lock.image
  BY <1>1
<1> QED
  BY <1>2 DEF Grown, Present

LEMMA StartRunStep ==
  ASSUME CandidateInv, StartRun PROVE CandidateInv' /\ Grown
<1> USE DEF StartRun, Idle
<1>1. Grown
  BY SameFiles DEF humanVars
<1>2. FilesInv'
  BY DEF CandidateInv, FilesInv
<1>3. GeneratorInv'
  <2>1. generator' = [pc |-> "started", image |-> build, text |-> 0, manifest |-> NULL,
                      next |-> 0]
    OBVIOUS
  <2>2. runs' \in 0 .. MaxRuns
    BY ReleaseAssumption DEF CandidateInv, GeneratorInv
  <2> QED
    BY <2>1, <2>2, Numbers
    DEF CandidateInv, GeneratorInv, Generators, Manifests, humanVars, Builds
<1>4. ProgressInv'
  BY DEF CandidateInv, ProgressInv, Present
<1>5. OrderInv'
  BY DEF CandidateInv, OrderInv
<1>6. ReviewInv' /\ NoticesInv'
  BY DEF CandidateInv, ReviewInv, NoticesInv, humanVars
<1> QED
  BY <1>1, <1>2, <1>3, <1>4, <1>5, <1>6 DEF CandidateInv

\* Steps of the generator that change no file but the SBOM of the image and the
\* licence texts.
LEMMA QuietStep ==
  ASSUME CandidateInv, FilesInv', GeneratorInv', Grown,
         \A f \in Files \ {"imageSboms", "licences"} : candidate'[f] = candidate[f],
         candidate.licences # NULL => candidate'.licences # NULL,
         generator'.next > 0 => candidate'.licences # NULL,
         UNCHANGED <<build, torn, reviewed>>,
         generator # Idle, generator'.image = generator.image,
         generator.next = 0, generator'.next \in {0, 1}
  PROVE  CandidateInv'
<1>1. /\ candidate'.lock = candidate.lock /\ candidate'.cdx = candidate.cdx
      /\ candidate'.spdx = candidate.spdx /\ candidate'.notices = candidate.notices
      /\ candidate'.sources = candidate.sources /\ candidate'.queue = candidate.queue
      /\ candidate'.blockers = candidate.blockers
  BY FileNames
<1>2. ProgressInv'
  BY <1>1 DEF CandidateInv, ProgressInv, Present, Required
<1>3. OrderInv'
  BY <1>1 DEF CandidateInv, OrderInv
<1>4. ReviewInv' /\ NoticesInv'
  BY <1>1 DEF CandidateInv, ReviewInv, NoticesInv
<1> QED
  BY <1>2, <1>3, <1>4 DEF CandidateInv

LEMMA ScanStep ==
  ASSUME CandidateInv, NEW known \in BOOLEAN, ScanImages(known)
  PROVE  CandidateInv' /\ Grown
<1> DEFINE sbom == [image |-> build, known |-> known]
<1>1. sbom \in Scans /\ sbom.image = build
  BY Numbers DEF Scans
<1>2. /\ generator.pc = "started"
      /\ candidate' = [candidate EXCEPT !.imageSboms = sbom]
      /\ generator' = [generator EXCEPT
           !.pc = "scanned", !.manifest = [image |-> build, file |-> sbom]]
      /\ UNCHANGED <<build, runs, torn, reviewed>>
  BY DEF ScanImages, humanVars
<1> HIDE DEF sbom
<1>3. [image |-> build, file |-> sbom] \in Manifests
  BY <1>1, Numbers DEF Manifests
<1>4. DOMAIN candidate = Files /\ candidate'.imageSboms = sbom
  BY <1>2, FileNames DEF CandidateInv, FilesInv
<1>5. \A f \in Files \ {"imageSboms"} : candidate'[f] = candidate[f]
  BY <1>2, <1>4
<1>6. /\ candidate'.lock = candidate.lock /\ candidate'.spdx = candidate.spdx
      /\ candidate'.notices = candidate.notices /\ candidate'.queue = candidate.queue
      /\ candidate'.imageManifest = candidate.imageManifest
      /\ candidate'.licences = candidate.licences
  BY <1>5, FileNames
<1>7. FilesInv'
  BY <1>1, <1>2, <1>4, <1>6 DEF CandidateInv, FilesInv
<1>8. generator \in Generators /\ generator.next = 0
  BY <1>2 DEF CandidateInv, GeneratorInv, Generators
<1>9. GeneratorInv' /\ generator'.next = 0 /\ generator'.image = generator.image
  BY <1>2, <1>3, <1>8 DEF CandidateInv, GeneratorInv, Generators, Builds
<1>10. Grown
  <2>1. Present(Required) => candidate.notices \in Nat /\ candidate.lock.image \in Nat
    BY Numbers DEF Present, Required
  <2>2. Present(Required) => Present(Required)'
    BY <1>5, FileNames DEF Present, Required
  <2> QED
    BY <1>2, <1>6, <2>1, <2>2 DEF Grown
<1>11. generator # Idle
  BY <1>2 DEF Idle
<1> QED
  BY <1>2, <1>5, <1>6, <1>7, <1>8, <1>9, <1>10, <1>11, QuietStep

LEMMA KeepScanStep ==
  ASSUME CandidateInv, KeepScan PROVE CandidateInv' /\ Grown
<1>1. /\ generator.pc = "started"
      /\ generator' = [generator EXCEPT !.pc = "scanned", !.manifest = candidate.imageManifest]
      /\ UNCHANGED <<build, candidate, runs, torn, reviewed>>
  BY DEF KeepScan, humanVars
<1>2. generator \in Generators /\ generator.next = 0 /\ candidate.imageManifest \in Manifests
  BY <1>1 DEF CandidateInv, GeneratorInv, FilesInv, Generators
<1>3. GeneratorInv' /\ generator'.next = 0 /\ generator'.image = generator.image
  BY <1>1, <1>2 DEF CandidateInv, GeneratorInv, Generators, Builds
<1>4. FilesInv'
  BY <1>1 DEF CandidateInv, FilesInv
<1>5. Grown
  BY <1>1, SameFiles
<1>6. generator # Idle
  BY <1>1 DEF Idle
<1> QED
  BY <1>1, <1>2, <1>3, <1>4, <1>5, <1>6, QuietStep

LEMMA MaterializeStep ==
  ASSUME CandidateInv, Materialize PROVE CandidateInv' /\ Grown
<1>1. /\ generator.pc = "scanned"
      /\ candidate' = [candidate EXCEPT !.licences = build]
      /\ generator' = [generator EXCEPT !.pc = "writing", !.text = build, !.next = 1]
      /\ UNCHANGED <<build, runs, torn, reviewed>>
  BY DEF Materialize, humanVars
<1>2. DOMAIN candidate = Files /\ candidate'.licences = build /\ build # NULL
  BY <1>1, FileNames, Numbers, NullAssumption DEF CandidateInv, FilesInv
<1>3. \A f \in Files \ {"licences"} : candidate'[f] = candidate[f]
  BY <1>1, <1>2
<1>4. /\ candidate'.lock = candidate.lock /\ candidate'.spdx = candidate.spdx
      /\ candidate'.notices = candidate.notices /\ candidate'.queue = candidate.queue
      /\ candidate'.imageManifest = candidate.imageManifest
      /\ candidate'.imageSboms = candidate.imageSboms
  BY <1>3, FileNames
<1>5. FilesInv'
  BY <1>1, <1>2, <1>4 DEF CandidateInv, FilesInv
<1>6. generator \in Generators /\ generator.next = 0
  BY <1>1 DEF CandidateInv, GeneratorInv, Generators
<1>7. GeneratorInv' /\ generator'.next = 1 /\ generator'.image = generator.image
  <2>1. /\ generator' \in Generators /\ generator'.pc = "writing" /\ generator'.next = 1
        /\ generator'.text = build /\ generator'.image = generator.image
    <3>1. build \in Nat /\ 1 \in 0 .. 8
      BY Numbers
    <3>2. generator' = [pc |-> "writing", image |-> generator.image, text |-> build,
                        manifest |-> generator.manifest, next |-> 1]
      BY <1>1, <1>6 DEF Generators
    <3>3. generator.image \in Nat /\ generator.manifest \in Manifests
      BY <1>6 DEF Generators
    <3> QED
      BY <3>1, <3>2, <3>3 DEF Generators
  <2> QED
    BY <1>1, <2>1, Numbers DEF CandidateInv, GeneratorInv, Builds
<1>8. Grown
  <2>1. Present(Required) => candidate.notices \in Nat /\ candidate.lock.image \in Nat
    BY Numbers DEF Present, Required
  <2>2. Present(Required) => Present(Required)'
    BY <1>2, <1>3, FileNames DEF Present, Required
  <2> QED
    BY <1>1, <1>4, <2>1, <2>2 DEF Grown
<1>9. generator # Idle
  BY <1>1 DEF Idle
<1> QED
  BY <1>1, <1>2, <1>3, <1>5, <1>6, <1>7, <1>8, <1>9, QuietStep

LEMMA FailRunStep ==
  ASSUME CandidateInv, FailRun PROVE CandidateInv' /\ Grown
<1> DEFINE run == [image |-> generator.image, text |-> generator.text]
<1>1. /\ generator # Idle /\ generator' = Idle
      /\ torn' = IF generator.next > 1 THEN torn \union {run} ELSE torn
      /\ UNCHANGED <<build, candidate, runs, reviewed>>
  BY DEF FailRun, humanVars
<1>2. Grown
  BY <1>1, SameFiles
<1>3. FilesInv'
  BY <1>1 DEF CandidateInv, FilesInv
<1>4. run \in [image : Builds, text : Builds]
  BY Numbers DEF CandidateInv, GeneratorInv, Builds
<1>5. GeneratorInv'
  <2>1. Idle \in Generators
    BY DEF Idle, Generators, Manifests
  <2> QED
    BY <1>1, <1>4, <2>1, Numbers DEF CandidateInv, GeneratorInv, Idle
<1>6. ProgressInv' /\ OrderInv'
  BY <1>1 DEF CandidateInv, ProgressInv, OrderInv, Idle, Present
<1>7. generator.next > 1 =>
        /\ run \in torn'
        /\ candidate.lock = [status |-> "blocked", image |-> generator.image,
                             text |-> generator.text]
  BY <1>1 DEF CandidateInv, OrderInv
<1> HIDE DEF run
<1>8. ReviewInv'
  <2>1. CASE generator.next <= 1
    BY <1>1, <2>1 DEF CandidateInv, ReviewInv, Accounted
  <2>2. CASE generator.next > 1
    BY <1>1, <1>7, <2>2 DEF CandidateInv, ReviewInv, Accounted, run
  <2> QED
    BY <2>1, <2>2, Numbers
<1>9. NoticesInv'
  <2>1. CASE generator.next = 4
    <3>1. run \in torn' /\ run.image = generator.image
      BY <1>7, <2>1 DEF run
    <3> QED
      BY <1>1, <3>1 DEF CandidateInv, NoticesInv, Noticed
  <2>2. CASE generator.next # 4
    BY <1>1, <2>2 DEF CandidateInv, NoticesInv, Noticed
  <2> QED
    BY <2>1, <2>2
<1> QED
  BY <1>2, <1>3, <1>5, <1>6, <1>8, <1>9 DEF CandidateInv

LEMMA RebuildStep ==
  ASSUME CandidateInv, Rebuild PROVE CandidateInv' /\ Grown
<1>1. /\ build < MaxBuild /\ build' = build + 1
      /\ UNCHANGED <<candidate, generator, runs, torn, reviewed>>
  BY DEF Rebuild, humanVars
<1>2. Grown
  BY <1>1, SameFiles
<1>3. FilesInv' /\ ProgressInv' /\ NoticesInv'
  BY <1>1 DEF CandidateInv, FilesInv, ProgressInv, NoticesInv, Present
<1>4. GeneratorInv'
  BY <1>1, Numbers DEF CandidateInv, GeneratorInv, Builds
<1>5. OrderInv'
  BY <1>1, Numbers DEF CandidateInv, OrderInv
<1>6. ReviewInv'
  <2>1. candidate.queue # NULL => candidate.queue.text \in Nat
    BY DEF CandidateInv, FilesInv, Queues
  <2> QED
    BY <1>1, <2>1, Numbers DEF CandidateInv, ReviewInv
<1> QED
  BY <1>2, <1>3, <1>4, <1>5, <1>6 DEF CandidateInv

-----------------------------------------------------------------------------
\* Each file that main writes is there.
LEMMA DraftPresent ==
  ASSUME CandidateInv
  PROVE  /\ Draft.lock = [status |-> "blocked", image |-> generator.image,
                          text |-> generator.text]
         /\ Draft.cdx = generator.image /\ Draft.notices = generator.image
         /\ Draft.spdx = [image |-> generator.image, concluded |-> FALSE]
         /\ Draft.sources = "pending" /\ Draft.imageManifest = generator.manifest
         /\ Draft.blockers = "listed"
         /\ Draft.queue = [text |-> generator.text, recorded |-> FALSE]
         /\ Draft.lock \in Locks /\ Draft.spdx \in Documents /\ Draft.queue \in Queues
         /\ \A i \in (1 .. 8) \ {6} : Draft[Written[i]] # NULL
<1>1. /\ Draft.lock = [status |-> "blocked", image |-> generator.image,
                       text |-> generator.text]
      /\ Draft.cdx = generator.image /\ Draft.notices = generator.image
      /\ Draft.spdx = [image |-> generator.image, concluded |-> FALSE]
      /\ Draft.sources = "pending" /\ Draft.imageManifest = generator.manifest
      /\ Draft.blockers = "listed"
      /\ Draft.queue = [text |-> generator.text, recorded |-> FALSE]
  BY DEF Draft, Status
<1>2. Draft.lock \in Locks /\ Draft.spdx \in Documents /\ Draft.queue \in Queues
  BY <1>1, Numbers DEF Locks, Documents, Queues
<1>3. /\ Draft.lock # NULL /\ Draft.cdx # NULL /\ Draft.notices # NULL /\ Draft.spdx # NULL
      /\ Draft.sources # NULL /\ Draft.blockers # NULL /\ Draft.queue # NULL
  BY <1>1, <1>2, Numbers, NullAssumption
<1>4. \A i \in (1 .. 8) \ {6} : Draft[Written[i]] # NULL
  <2>1. \A i \in (1 .. 8) \ {6} : i \in {1, 2, 3, 4, 5, 7, 8}
    OBVIOUS
  <2> QED
    BY <1>3, <2>1, FileNames
<1> QED
  BY <1>1, <1>2, <1>4

\* A file is written; the others and those before stay.
LEMMA WriteOne ==
  ASSUME CandidateInv, WriteFile
  PROVE  /\ generator.next \in 1 .. 8 /\ generator.pc = "writing"
         /\ UNCHANGED <<build, runs, torn, reviewed>>
         /\ DOMAIN candidate' = Files
         /\ candidate'[Written[generator.next]] =
              IF Draft[Written[generator.next]] = NULL
              THEN candidate[Written[generator.next]] ELSE Draft[Written[generator.next]]
         /\ \A f \in Files \ {Written[generator.next]} : candidate'[f] = candidate[f]
         /\ generator' = IF generator.next = 8 THEN Idle
                         ELSE [generator EXCEPT !.next = @ + 1]
<1> DEFINE file == Written[generator.next]
<1>1. generator.next \in 1 .. 8 /\ generator.pc = "writing"
  BY DEF WriteFile, CandidateInv, GeneratorInv, Generators
<1>2. file \in Files /\ Len(Written) = 8 /\ DOMAIN candidate = Files
  <2>1. generator.next \in 1 .. Len(Written)
    BY <1>1, FileNames
  <2> QED
    BY <2>1, FileNames DEF Files, CandidateInv, FilesInv
<1>3. /\ candidate' = IF Draft[file] = NULL THEN candidate
                      ELSE [candidate EXCEPT ![file] = Draft[file]]
      /\ generator' = IF generator.next = 8 THEN Idle
                      ELSE [generator EXCEPT !.next = @ + 1]
      /\ UNCHANGED <<build, runs, torn, reviewed>>
  BY <1>2 DEF WriteFile, humanVars
<1> HIDE DEF file
<1>4. /\ DOMAIN candidate' = Files
      /\ candidate'[file] = IF Draft[file] = NULL THEN candidate[file] ELSE Draft[file]
      /\ \A f \in Files \ {file} : candidate'[f] = candidate[f]
  BY <1>2, <1>3
<1> QED
  BY <1>1, <1>3, <1>4 DEF file

\* The generator keeps what it holds while it writes.
LEMMA WriteGenerator ==
  ASSUME CandidateInv, WriteFile
  PROVE  /\ GeneratorInv'
         /\ generator # Idle
         /\ generator.next < 8 =>
              /\ generator'.next = generator.next + 1
              /\ generator'.image = generator.image /\ generator'.text = generator.text
         /\ generator.next = 8 => generator' = Idle /\ generator'.next = 0
<1>1. generator \in Generators /\ generator.next \in 1 .. 8 /\ generator.pc = "writing"
  BY WriteOne DEF CandidateInv, GeneratorInv
<1>2. generator.next < 8 =>
        /\ generator' \in Generators /\ generator'.pc = "writing"
        /\ generator'.next = generator.next + 1
        /\ generator'.image = generator.image /\ generator'.text = generator.text
  <2>1. generator.next < 8 => generator' = [generator EXCEPT !.next = @ + 1]
    BY WriteOne
  <2> QED
    BY <1>1, <2>1 DEF Generators
<1>3. generator.next = 8 =>
        /\ generator' = Idle /\ generator' \in Generators
        /\ generator'.pc = "idle" /\ generator'.next = 0
        /\ generator'.image = 0 /\ generator'.text = 0
  BY WriteOne DEF Idle, Generators, Manifests
<1>4. GeneratorInv'
  BY <1>1, <1>2, <1>3, WriteOne, Numbers DEF CandidateInv, GeneratorInv
<1> QED
  BY <1>1, <1>2, <1>3, <1>4 DEF Idle

\* The files the invariant speaks of, after a file was written.
LEMMA WriteFiles ==
  ASSUME CandidateInv, WriteFile
  PROVE  /\ candidate'.lock = IF generator.next = 1 THEN Draft.lock ELSE candidate.lock
         /\ candidate'.cdx = IF generator.next = 2 THEN Draft.cdx ELSE candidate.cdx
         /\ candidate'.spdx = IF generator.next = 3 THEN Draft.spdx ELSE candidate.spdx
         /\ candidate'.notices = IF generator.next = 4 THEN Draft.notices ELSE candidate.notices
         /\ candidate'.sources = IF generator.next = 5 THEN Draft.sources ELSE candidate.sources
         /\ candidate'.imageManifest \in {candidate.imageManifest, generator.manifest}
         /\ candidate'.blockers =
              IF generator.next = 7 THEN Draft.blockers ELSE candidate.blockers
         /\ candidate'.queue = IF generator.next = 8 THEN Draft.queue ELSE candidate.queue
         /\ candidate'.imageSboms = candidate.imageSboms
         /\ candidate'.licences = candidate.licences
<1>1. generator.next \in {1, 2, 3, 4, 5, 6, 7, 8}
  BY WriteOne
<1>2. generator.next # 6 => Draft[Written[generator.next]] # NULL
  BY <1>1, DraftPresent
<1>3. /\ candidate'[Written[generator.next]] =
           IF Draft[Written[generator.next]] = NULL
           THEN candidate[Written[generator.next]] ELSE Draft[Written[generator.next]]
      /\ \A f \in Files \ {Written[generator.next]} : candidate'[f] = candidate[f]
  BY WriteOne
<1>4. CASE generator.next = 1
  BY <1>2, <1>3, <1>4, FileNames
<1>5. CASE generator.next = 2
  BY <1>2, <1>3, <1>5, FileNames
<1>6. CASE generator.next = 3
  BY <1>2, <1>3, <1>6, FileNames
<1>7. CASE generator.next = 4
  BY <1>2, <1>3, <1>7, FileNames
<1>8. CASE generator.next = 5
  BY <1>2, <1>3, <1>8, FileNames
<1>9. CASE generator.next = 6
  BY <1>3, <1>9, FileNames, DraftPresent
<1>10. CASE generator.next = 7
  BY <1>2, <1>3, <1>10, FileNames
<1>11. CASE generator.next = 8
  BY <1>2, <1>3, <1>11, FileNames
<1> QED
  BY <1>1, <1>4, <1>5, <1>6, <1>7, <1>8, <1>9, <1>10, <1>11

LEMMA WriteFileStep ==
  ASSUME CandidateInv, WriteFile PROVE CandidateInv' /\ Grown
<1>1. generator.next \in 1 .. 8 /\ UNCHANGED <<build, torn, reviewed>>
  BY WriteOne
<1>2. FilesInv'
  <2>1. DOMAIN candidate' = Files
    BY WriteOne
  <2>2. candidate'.imageManifest \in Manifests
    BY WriteFiles DEF CandidateInv, FilesInv, GeneratorInv, Generators
  <2>3. /\ candidate'.lock \in Locks \union {NULL}
        /\ candidate'.spdx \in Documents \union {NULL}
        /\ candidate'.notices \in Nat \union {NULL}
        /\ candidate'.queue \in Queues \union {NULL}
        /\ candidate'.imageSboms \in Scans \union {NULL}
    BY WriteFiles, DraftPresent, Numbers DEF CandidateInv, FilesInv
  <2> QED
    BY <2>1, <2>2, <2>3 DEF FilesInv
<1>3. /\ Draft.lock # NULL /\ Draft.cdx # NULL /\ Draft.spdx # NULL
      /\ Draft.notices # NULL /\ Draft.sources # NULL
  BY DraftPresent, FileNames
<1>4. /\ candidate.lock # NULL => candidate'.lock # NULL
      /\ candidate.cdx # NULL => candidate'.cdx # NULL
      /\ candidate.spdx # NULL => candidate'.spdx # NULL
      /\ candidate.notices # NULL => candidate'.notices # NULL
      /\ candidate.sources # NULL => candidate'.sources # NULL
      /\ candidate'.licences = candidate.licences
  BY <1>3, WriteFiles
<1>5. ProgressInv'
  <2>1. generator.next > 0 => candidate.licences # NULL
    BY DEF CandidateInv, ProgressInv, Present
  <2>2. /\ generator'.next > 1 => candidate'.lock # NULL
        /\ generator'.next > 2 => candidate'.cdx # NULL
        /\ generator'.next > 3 => candidate'.spdx # NULL
        /\ generator'.next > 4 => candidate'.notices # NULL
        /\ generator'.next > 5 => candidate'.sources # NULL
    BY <1>1, <1>3, <1>4, WriteFiles, WriteGenerator DEF CandidateInv, ProgressInv, Present
  <2>3. generator.next = 7 =>
          /\ candidate.licences # NULL /\ candidate.lock # NULL /\ candidate.cdx # NULL
          /\ candidate.spdx # NULL /\ candidate.notices # NULL /\ candidate.sources # NULL
    BY DEF CandidateInv, ProgressInv, Present
  <2>4. generator.next # 7 /\ candidate'.blockers # NULL =>
          /\ candidate.licences # NULL /\ candidate.lock # NULL /\ candidate.cdx # NULL
          /\ candidate.spdx # NULL /\ candidate.notices # NULL /\ candidate.sources # NULL
    BY WriteFiles DEF CandidateInv, ProgressInv, Present, Required
  <2> QED
    BY <1>1, <1>4, <2>1, <2>2, <2>3, <2>4 DEF ProgressInv, Present, Required
<1>6. /\ Draft.lock.status = "blocked"
      /\ Draft.lock.image = generator.image /\ Draft.lock.text = generator.text
      /\ Draft.spdx.image = generator.image /\ Draft.spdx.concluded = FALSE
      /\ Draft.notices = generator.image
      /\ Draft.queue.text = generator.text /\ Draft.queue.recorded = FALSE
  BY DraftPresent
<1>7. /\ generator.image <= build /\ generator.text <= build
      /\ candidate.lock # NULL => candidate.lock.image <= generator.image
  BY WriteGenerator DEF CandidateInv, GeneratorInv, OrderInv
<1>8. generator.next > 1 =>
        /\ candidate.lock # NULL /\ candidate.lock = Draft.lock
        /\ candidate'.lock = Draft.lock
  BY <1>3, WriteFiles, DraftPresent DEF CandidateInv, OrderInv
<1>9. candidate'.lock = Draft.lock
  BY <1>1, <1>8, WriteFiles
<1>10. OrderInv'
  <2>1. /\ candidate'.lock # NULL /\ candidate'.lock.image = generator.image
        /\ candidate'.lock.text = generator.text
    BY <1>3, <1>6, <1>9
  <2>2. candidate.notices # NULL => candidate.notices <= generator.image
    BY <1>7, Numbers DEF CandidateInv, OrderInv
  <2>3. candidate.spdx # NULL => candidate.spdx.image <= generator.image
    BY <1>7, Numbers DEF CandidateInv, OrderInv
  <2>4. candidate'.notices # NULL => candidate'.notices <= generator.image
    BY <1>6, <2>2, WriteFiles, Numbers
  <2>5. candidate'.spdx # NULL => candidate'.spdx.image <= generator.image
    BY <1>6, <2>3, WriteFiles, Numbers
  <2>6. generator' # Idle => generator'.image = generator.image /\ generator'.text = generator.text
    BY <1>1, WriteGenerator
  <2>7. generator'.next > 1 => generator' # Idle
    BY DEF Idle
  <2>8. candidate'.lock = [status |-> "blocked", image |-> generator.image,
                           text |-> generator.text]
    BY <1>9, DraftPresent
  <2>9. generator.image <= generator.image
    BY Numbers
  <2> QED
    BY <1>1, <1>7, <2>1, <2>4, <2>5, <2>6, <2>7, <2>8, <2>9 DEF OrderInv
<1>11. ReviewInv'
  <2>1. candidate'.lock.status # "approved" /\ candidate'.lock.text = generator.text
    BY <1>6, <1>9
  <2>2. generator'.next <= 1 => candidate'.queue = Draft.queue /\ candidate'.queue # NULL
    BY <1>1, WriteGenerator, WriteFiles, DraftPresent, FileNames
  <2>3. candidate'.queue # NULL =>
          /\ candidate'.queue.text <= build
          /\ candidate'.queue.recorded => candidate'.queue.text \in reviewed
    BY <1>6, <1>7, WriteFiles DEF CandidateInv, ReviewInv
  <2> QED
    BY <1>1, <1>6, <2>1, <2>2, <2>3 DEF ReviewInv
<1>12. NoticesInv'
  <2>1. CASE generator.next = 3
    <3>1. generator'.next = 4 /\ generator'.image = generator.image
      BY <2>1, WriteGenerator
    <3> QED
      BY <1>6, <2>1, <3>1, WriteFiles DEF NoticesInv
  <2>2. CASE generator.next = 4
    <3>1. candidate'.notices # NULL /\ candidate'.notices = generator.image
      BY <1>3, <1>6, <2>2, WriteFiles
    <3>2. candidate.spdx # NULL => candidate.spdx.image <= generator.image
      BY <1>7, Numbers DEF CandidateInv, OrderInv
    <3>3. candidate'.spdx = candidate.spdx
      BY <2>2, WriteFiles
    <3> QED
      BY <3>1, <3>2, <3>3, Numbers DEF NoticesInv, Noticed
  <2>3. CASE generator.next \notin {3, 4}
    BY <1>1, <2>3, WriteFiles DEF CandidateInv, NoticesInv
  <2> QED
    BY <2>1, <2>2, <2>3
<1>13. Grown
  <2>1. Present(Required) => Present(Required)'
    BY <1>4 DEF Present, Required
  <2>2. Present(Required) => candidate.lock.image <= candidate'.lock.image
    BY <1>6, <1>7, <1>9 DEF Present, Required
  <2>3. Present(Required) => candidate.notices <= candidate'.notices
    <3>1. candidate.notices # NULL => candidate.notices <= generator.image
      BY <1>7, Numbers DEF CandidateInv, OrderInv
    <3> QED
      BY <1>6, <3>1, WriteFiles, Numbers DEF Present, Required
  <2> QED
    BY <1>1, <2>1, <2>2, <2>3 DEF Grown
<1> QED
  BY <1>2, <1>5, <1>10, <1>11, <1>12, <1>13, WriteGenerator DEF CandidateInv

-----------------------------------------------------------------------------
\* A step of the review leaves everything but the values of the files it edits.
LEMMA ReviewStepFrame ==
  ASSUME CandidateInv, FilesInv', ReviewInv',
         UNCHANGED <<build, generator, runs, torn>>, generator = Idle,
         reviewed \subseteq reviewed', reviewed' \subseteq Builds,
         /\ candidate'.licences = candidate.licences /\ candidate'.cdx = candidate.cdx
         /\ candidate'.notices = candidate.notices,
         candidate.sources # NULL => candidate'.sources # NULL,
         candidate.blockers # NULL \/ candidate'.blockers = NULL,
         \/ candidate'.lock = candidate.lock
         \/ /\ candidate.lock # NULL /\ candidate'.lock # NULL
            /\ candidate'.lock.image = candidate.lock.image
            /\ candidate'.lock.text = candidate.lock.text,
         \/ candidate'.spdx = candidate.spdx
         \/ /\ candidate.spdx # NULL /\ candidate'.spdx # NULL
            /\ candidate'.spdx.image = candidate.spdx.image
  PROVE  CandidateInv' /\ Grown
<1>1. generator.next = 0
  BY DEF Idle
<1>2. GeneratorInv'
  BY DEF CandidateInv, GeneratorInv
<1>3. ProgressInv'
  BY <1>1 DEF CandidateInv, ProgressInv, Present, Required
<1>4. OrderInv'
  BY <1>1 DEF CandidateInv, OrderInv
<1>5. NoticesInv'
  BY <1>1 DEF CandidateInv, NoticesInv, Noticed
<1>6. Grown
  <2>1. Present(Required) => candidate.notices \in Nat /\ candidate.lock.image \in Nat
    BY Numbers DEF Present, Required
  <2>2. Present(Required) => candidate.lock.image <= candidate'.lock.image
    BY <2>1
  <2>3. Present(Required) => Present(Required)'
    BY DEF Present, Required
  <2> QED
    BY <2>1, <2>2, <2>3 DEF Grown
<1> QED
  BY <1>2, <1>3, <1>4, <1>5, <1>6 DEF CandidateInv

LEMMA CurateStep ==
  ASSUME CandidateInv, Curate PROVE CandidateInv' /\ Grown
<1> DEFINE sbom == [candidate.imageSboms EXCEPT !.known = TRUE]
           spdx == [candidate.spdx EXCEPT !.concluded = TRUE]
           manifest == [candidate.imageManifest EXCEPT !.file = sbom]
<1>1. /\ generator = Idle /\ candidate.blockers = "listed"
      /\ candidate.imageManifest # NULL
      /\ candidate.imageManifest.file = candidate.imageSboms
      /\ UNCHANGED <<build, generator, runs, torn, reviewed>>
  BY DEF Curate, humanVars
<1>2. DOMAIN candidate = Files
  BY DEF CandidateInv, FilesInv
<1>3. /\ candidate'.spdx = spdx /\ candidate'.imageSboms = sbom
      /\ candidate'.imageManifest = manifest
      /\ candidate'.sources = "decided" /\ candidate'.blockers = "cleared"
      /\ \A f \in Files \ {"spdx", "imageSboms", "imageManifest", "sources", "blockers"} :
           candidate'[f] = candidate[f]
      /\ DOMAIN candidate' = Files
  BY <1>2, FileNames DEF Curate
<1>4. candidate.spdx # NULL
  BY <1>1, NullAssumption DEF CandidateInv, ProgressInv, Present, Required
<1>5. candidate.spdx \in Documents /\ candidate.imageManifest \in Manifests \ {NULL}
  BY <1>1, <1>4 DEF CandidateInv, FilesInv
<1>6. candidate.imageSboms \in Scans /\ candidate.imageSboms.image = candidate.imageManifest.image
  BY <1>1, <1>5 DEF Manifests
<1>7. sbom \in Scans /\ sbom.image = candidate.imageManifest.image
  BY <1>6 DEF Scans
<1>8. spdx \in Documents /\ spdx.image = candidate.spdx.image /\ spdx # NULL
  BY <1>5, NullAssumption DEF Documents
<1> HIDE DEF sbom, spdx
<1>9. manifest \in Manifests
  BY <1>5, <1>7 DEF Manifests
<1> HIDE DEF manifest
<1>10. /\ candidate'.lock = candidate.lock /\ candidate'.notices = candidate.notices
       /\ candidate'.queue = candidate.queue /\ candidate'.cdx = candidate.cdx
       /\ candidate'.licences = candidate.licences
  BY <1>3, FileNames
<1>11. FilesInv'
  BY <1>3, <1>7, <1>8, <1>9, <1>10 DEF CandidateInv, FilesInv
<1>12. ReviewInv'
  BY <1>1, <1>10 DEF CandidateInv, ReviewInv
<1>13. reviewed \subseteq Builds
  BY DEF CandidateInv, GeneratorInv
<1>14. candidate.blockers # NULL /\ candidate'.sources # NULL
  BY <1>1, <1>3, NullAssumption
<1> QED
  BY <1>1, <1>3, <1>4, <1>8, <1>10, <1>11, <1>12, <1>13, <1>14, ReviewStepFrame

LEMMA RecordStep ==
  ASSUME CandidateInv, RecordLegalReview PROVE CandidateInv' /\ Grown
<1> DEFINE queue == [candidate.queue EXCEPT !.recorded = TRUE]
<1>1. /\ generator = Idle /\ candidate.queue # NULL
      /\ candidate' = [candidate EXCEPT !.queue.recorded = TRUE]
      /\ reviewed' = reviewed \union {candidate.queue.text}
      /\ UNCHANGED <<build, generator, runs, torn>>
  BY DEF RecordLegalReview
<1>2. DOMAIN candidate = Files
  BY DEF CandidateInv, FilesInv
<1>3. candidate.queue \in Queues /\ candidate.queue.text \in Nat /\ candidate.queue.text <= build
  BY <1>1 DEF CandidateInv, FilesInv, ReviewInv, Queues
<1>4. queue \in Queues /\ queue.text = candidate.queue.text
  BY <1>3 DEF Queues
<1>5. /\ candidate'.queue = queue /\ DOMAIN candidate' = Files
      /\ \A f \in Files \ {"queue"} : candidate'[f] = candidate[f]
  BY <1>1, <1>2, FileNames
<1> HIDE DEF queue
<1>6. /\ candidate'.lock = candidate.lock /\ candidate'.notices = candidate.notices
      /\ candidate'.spdx = candidate.spdx /\ candidate'.cdx = candidate.cdx
      /\ candidate'.licences = candidate.licences /\ candidate'.sources = candidate.sources
      /\ candidate'.blockers = candidate.blockers
      /\ candidate'.imageSboms = candidate.imageSboms
      /\ candidate'.imageManifest = candidate.imageManifest
  BY <1>5, FileNames
<1>7. FilesInv'
  BY <1>4, <1>5, <1>6 DEF CandidateInv, FilesInv
<1>8. ReviewInv'
  <2>1. /\ candidate'.lock = candidate.lock /\ reviewed \subseteq reviewed'
        /\ candidate'.queue.text = candidate.queue.text
        /\ candidate'.queue.text \in reviewed'
        /\ UNCHANGED <<build, generator, torn>>
    <3>1. candidate'.queue.text = candidate.queue.text
      BY <1>4, <1>5
    <3>2. /\ reviewed' = reviewed \union {candidate.queue.text}
          /\ UNCHANGED <<build, generator, torn>>
      BY <1>1
    <3> QED
      BY <1>6, <3>1, <3>2
  <2>2. candidate.queue.text <= build /\ candidate.queue # NULL
    BY <1>1, <1>3
  <2>3. candidate'.queue # NULL
    BY <1>4, <1>5, NullAssumption
  <2> QED
    BY <2>1, <2>2, <2>3 DEF CandidateInv, ReviewInv, Accounted
<1>9. reviewed' \subseteq Builds
  <2>1. build \in 0 .. MaxBuild /\ reviewed \subseteq Builds
    BY DEF CandidateInv, GeneratorInv, Builds
  <2>2. candidate.queue.text \in Builds
    BY <1>3, <2>1, Numbers DEF Builds
  <2> QED
    BY <1>1, <2>1, <2>2
<1> QED
  BY <1>1, <1>6, <1>7, <1>8, <1>9, ReviewStepFrame

LEMMA ApproveStep ==
  ASSUME CandidateInv, ApproveLock PROVE CandidateInv' /\ Grown
<1> DEFINE lock == [candidate.lock EXCEPT !.status = "approved"]
<1>1. /\ generator = Idle /\ candidate.lock # NULL /\ LegalRecorded
      /\ candidate' = [candidate EXCEPT !.lock.status = "approved"]
      /\ UNCHANGED <<build, generator, runs, torn, reviewed>>
  BY DEF ApproveLock, humanVars
<1>2. DOMAIN candidate = Files
  BY DEF CandidateInv, FilesInv
<1>3. candidate.lock \in Locks
  BY <1>1 DEF CandidateInv, FilesInv
<1>4. /\ lock \in Locks /\ lock # NULL
      /\ lock.image = candidate.lock.image /\ lock.text = candidate.lock.text
  BY <1>3, NullAssumption DEF Locks
<1>5. /\ candidate'.lock = lock /\ DOMAIN candidate' = Files
      /\ \A f \in Files \ {"lock"} : candidate'[f] = candidate[f]
  BY <1>1, <1>2, FileNames
<1> HIDE DEF lock
<1>6. /\ candidate'.queue = candidate.queue /\ candidate'.notices = candidate.notices
      /\ candidate'.spdx = candidate.spdx /\ candidate'.cdx = candidate.cdx
      /\ candidate'.licences = candidate.licences /\ candidate'.sources = candidate.sources
      /\ candidate'.blockers = candidate.blockers
      /\ candidate'.imageSboms = candidate.imageSboms
      /\ candidate'.imageManifest = candidate.imageManifest
  BY <1>5, FileNames
<1>7. FilesInv'
  BY <1>4, <1>5, <1>6 DEF CandidateInv, FilesInv
<1>8. generator.next <= 1
  BY <1>1 DEF Idle
<1>9. Accounted(candidate.lock, torn, reviewed)
  BY <1>1, <1>8 DEF CandidateInv, ReviewInv, LegalRecorded, Accounted
<1>10. ReviewInv'
  BY <1>1, <1>4, <1>5, <1>6, <1>8, <1>9 DEF CandidateInv, ReviewInv, Accounted
<1>11. reviewed \subseteq Builds
  BY DEF CandidateInv, GeneratorInv
<1> QED
  BY <1>1, <1>4, <1>5, <1>6, <1>7, <1>10, <1>11, ReviewStepFrame

\* The three groups of steps that change the candidate directory or the build.
LEMMA CandidateStep ==
  ASSUME CandidateInv, GeneratorStep \/ ReviewStep \/ Rebuild
  PROVE  CandidateInv' /\ Grown /\ UNCHANGED <<toolVars, approvals, evidence, shipped>>
<1>1. CandidateInv' /\ Grown
  BY StartRunStep, KeepScanStep, MaterializeStep, WriteFileStep, FailRunStep, ScanStep,
     CurateStep, RecordStep, ApproveStep, RebuildStep DEF GeneratorStep, ReviewStep
<1>2. UNCHANGED <<toolVars, approvals, evidence, shipped>>
  BY DEF GeneratorStep, ReviewStep, StartRun, KeepScan, Materialize, WriteFile, FailRun,
         ScanImages, Curate, RecordLegalReview, ApproveLock, Rebuild, humanVars
<1> QED
  BY <1>1, <1>2

-----------------------------------------------------------------------------
(* Bundles, signatures and the gate                                        *)

\* What a bundle says stays true when more runs fail and more is reviewed.
LEMMA SoundGrows ==
  ASSUME NEW files, Sound(files, torn, reviewed), torn \subseteq torn', reviewed \subseteq reviewed'
  PROVE  Sound(files, torn', reviewed')
<1>1. Accounted(files.lock, torn', reviewed')
  BY DEF Sound, Accounted
<1>2. files.spdx.concluded => Noticed(files.spdx, files.notices, torn')
  BY DEF Sound, Noticed
<1> QED
  BY <1>1, <1>2 DEF Sound

\* The numbers of a candidate directory with all its files.
LEMMA Sizes ==
  CandidateInv /\ Present(Required) =>
    candidate.notices \in Nat /\ candidate.lock.image \in Nat
  BY Numbers DEF Present, Required

\* A step on the candidate directory keeps the invariant of what was copied.
LEMMA CandidateStepKeeps ==
  ASSUME IInv, CandidateInv', Grown, UNCHANGED <<toolVars, approvals, evidence>>
  PROVE  StagingInv' /\ OutputInv' /\ EvidenceInv' /\ ApprovalsInv'
<1>1. /\ UNCHANGED <<staging, preparer, output>>
      /\ torn \subseteq torn' /\ reviewed \subseteq reviewed'
  BY DEF Grown, toolVars
<1>2. StagingInv'
  <2>1. preparer > 0 =>
          /\ Present(Required) /\ Present(Required)'
          /\ candidate.notices \in Nat /\ candidate.lock.image \in Nat
          /\ candidate'.notices \in Nat /\ candidate'.lock.image \in Nat
          /\ candidate.notices <= candidate'.notices
          /\ candidate.lock.image <= candidate'.lock.image
    <3>1. (CandidateInv /\ Present(Required) =>
             candidate.notices \in Nat /\ candidate.lock.image \in Nat)'
      BY Sizes, PTL
    <3> QED
      BY Sizes, <3>1 DEF IInv, StagingInv, Grown
  <2>2. preparer > 5 =>
          /\ staging.spdx \in Documents
          /\ staging.spdx.concluded => Noticed(staging.spdx, candidate'.notices, torn')
    <3>1. preparer > 5 => staging.spdx \in Documents /\ staging.spdx.image \in Nat /\ preparer > 0
      BY DEF IInv, StagingInv, Documents
    <3> QED
      BY <1>1, <2>1, <3>1 DEF IInv, StagingInv, Noticed
  <2>3. preparer > 6 =>
          /\ staging.notices \in Nat /\ staging.notices <= candidate'.lock.image
          /\ staging.spdx.concluded => Noticed(staging.spdx, staging.notices, torn')
    <3>1. preparer > 6 => preparer > 0
      BY DEF IInv, StagingInv
    <3> QED
      BY <1>1, <2>1, <3>1 DEF IInv, StagingInv, Noticed
  <2>4. preparer > 7 =>
          /\ staging.lock \in Locks /\ staging.notices <= staging.lock.image
          /\ staging.lock.status = "approved" => Accounted(staging.lock, torn', reviewed')
    BY <1>1 DEF IInv, StagingInv, Accounted
  <2> QED
    BY <1>1, <2>1, <2>2, <2>3, <2>4 DEF IInv, StagingInv
<1>3. OutputInv'
  BY <1>1, SoundGrows DEF IInv, OutputInv
<1>4. EvidenceInv'
  BY <1>1, SoundGrows DEF IInv, EvidenceInv
<1>5. ApprovalsInv'
  BY DEF IInv, ApprovalsInv
<1> QED
  BY <1>2, <1>3, <1>4, <1>5

\* What every other step leaves alone.
LEMMA CandidateSame ==
  ASSUME CandidateInv,
         UNCHANGED <<build, candidate, generator, runs, reviewed, torn>>
  PROVE  CandidateInv'
<1>1. FilesInv' /\ GeneratorInv' /\ ProgressInv'
  BY DEF CandidateInv, FilesInv, GeneratorInv, ProgressInv, Present
<1>2. OrderInv' /\ ReviewInv' /\ NoticesInv'
  BY DEF CandidateInv, OrderInv, ReviewInv, NoticesInv
<1> QED
  BY <1>1, <1>2 DEF CandidateInv

\* A part is copied: what the invariant asks of it holds of the candidate directory,
\* and nothing of what was copied before changes.
LEMMA CopyStep ==
  ASSUME IInv, CopyPart PROVE StagingInv'
<1> DEFINE part == Copied[preparer]
<1>1. /\ preparer \in 1 .. 7
      /\ staging' = [staging EXCEPT ![part] = Content(part)]
      /\ preparer' = preparer + 1
      /\ UNCHANGED <<candidate, torn, reviewed>>
  BY FileNames DEF CopyPart, humanVars
<1>2. DOMAIN staging = Parts /\ Present(Required)
  BY <1>1 DEF IInv, StagingInv
<1>3. part \in Parts
  <2>1. preparer \in 1 .. Len(Copied)
    BY <1>1, FileNames
  <2> QED
    BY <2>1 DEF Parts
<1>4. /\ DOMAIN staging' = Parts /\ staging'[part] = Content(part)
      /\ \A p \in Parts \ {part} : staging'[p] = staging[p]
  BY <1>1, <1>2, <1>3
<1>5. /\ candidate.lock \in Locks /\ candidate.spdx \in Documents
      /\ candidate.notices \in Nat /\ candidate.licences # NULL
      /\ candidate.sources # NULL /\ candidate.cdx # NULL
      /\ candidate.spdx # NULL /\ candidate.notices # NULL /\ candidate.lock # NULL
  BY <1>2 DEF IInv, CandidateInv, FilesInv, Present, Required
<1>6. Fits(Content("images"))
  BY DEF Content, Fits, IInv, CandidateInv, FilesInv, Manifests
<1>7. /\ Content("licences") = candidate.licences /\ Content("sources") = candidate.sources
      /\ Content("cdx") = candidate.cdx /\ Content("spdx") = candidate.spdx
      /\ Content("notices") = candidate.notices /\ Content("lock") = candidate.lock
  BY DEF Content
<1>8. candidate.spdx.concluded => Noticed(candidate.spdx, candidate.notices, torn)
  BY <1>5 DEF IInv, CandidateInv, NoticesInv, Noticed
<1>9. candidate.notices <= candidate.lock.image
  BY <1>5 DEF IInv, CandidateInv, OrderInv
<1>10. candidate.lock.status = "approved" => Accounted(candidate.lock, torn, reviewed)
  BY <1>5 DEF IInv, CandidateInv, ReviewInv
<1> HIDE DEF part
<1>11. preparer \in {1, 2, 3, 4, 5, 6, 7}
  BY <1>1
<1>12. CASE preparer = 1
  BY <1>1, <1>2, <1>4, <1>5, <1>7, <1>12, FileNames DEF StagingInv, part, Present
<1>13. CASE preparer = 2
  <2>1. staging'.licences = staging.licences /\ staging.licences # NULL
    BY <1>4, <1>13, FileNames DEF part, IInv, StagingInv
  <2> QED
    BY <1>1, <1>2, <1>4, <1>6, <1>13, <2>1, FileNames DEF StagingInv, part, Present
<1>14. CASE preparer = 3
  <2>1. /\ staging'.licences = staging.licences /\ staging.licences # NULL
        /\ staging'.images = staging.images /\ Fits(staging.images)
    BY <1>4, <1>14, FileNames DEF part, IInv, StagingInv
  <2> QED
    BY <1>1, <1>2, <1>4, <1>5, <1>7, <1>14, <2>1, FileNames DEF StagingInv, part, Present
<1>15. CASE preparer = 4
  <2>1. /\ staging'.licences = staging.licences /\ staging.licences # NULL
        /\ staging'.images = staging.images /\ Fits(staging.images)
        /\ staging'.sources = staging.sources /\ staging.sources # NULL
    BY <1>4, <1>15, FileNames DEF part, IInv, StagingInv
  <2> QED
    BY <1>1, <1>2, <1>4, <1>5, <1>7, <1>15, <2>1, FileNames DEF StagingInv, part, Present
<1>16. CASE preparer = 5
  <2>1. /\ staging'.licences = staging.licences /\ staging.licences # NULL
        /\ staging'.images = staging.images /\ Fits(staging.images)
        /\ staging'.sources = staging.sources /\ staging.sources # NULL
        /\ staging'.cdx = staging.cdx /\ staging.cdx # NULL
    BY <1>4, <1>16, FileNames DEF part, IInv, StagingInv
  <2> QED
    BY <1>1, <1>2, <1>4, <1>5, <1>7, <1>8, <1>16, <2>1, FileNames DEF StagingInv, part, Present
<1>17. CASE preparer = 6
  <2>1. /\ staging'.licences = staging.licences /\ staging.licences # NULL
        /\ staging'.images = staging.images /\ Fits(staging.images)
        /\ staging'.sources = staging.sources /\ staging.sources # NULL
        /\ staging'.cdx = staging.cdx /\ staging.cdx # NULL
        /\ staging'.spdx = staging.spdx /\ staging.spdx \in Documents
        /\ staging.spdx.concluded => Noticed(staging.spdx, candidate.notices, torn)
    BY <1>4, <1>17, FileNames DEF part, IInv, StagingInv
  <2> QED
    BY <1>1, <1>2, <1>4, <1>5, <1>7, <1>9, <1>17, <2>1, FileNames DEF StagingInv, part, Present
<1>18. CASE preparer = 7
  <2>1. /\ staging'.licences = staging.licences /\ staging.licences # NULL
        /\ staging'.images = staging.images /\ Fits(staging.images)
        /\ staging'.sources = staging.sources /\ staging.sources # NULL
        /\ staging'.cdx = staging.cdx /\ staging.cdx # NULL
        /\ staging'.spdx = staging.spdx /\ staging.spdx \in Documents
        /\ staging.spdx.concluded => Noticed(staging.spdx, candidate.notices, torn)
        /\ staging'.notices = staging.notices /\ staging.notices \in Nat
        /\ staging.notices <= candidate.lock.image
        /\ staging.spdx.concluded => Noticed(staging.spdx, staging.notices, torn)
    BY <1>4, <1>18, FileNames DEF part, IInv, StagingInv
  <2> QED
    BY <1>1, <1>2, <1>4, <1>5, <1>7, <1>10, <1>18, <2>1, FileNames DEF StagingInv, part, Present
<1> QED
  BY <1>11, <1>12, <1>13, <1>14, <1>15, <1>16, <1>17, <1>18

\* prepare writes to its staging directory and, at the end, to the output.
LEMMA PrepareStepKeeps ==
  ASSUME IInv, PrepareStep
  PROVE  StagingInv' /\ OutputInv' /\ UNCHANGED <<build, candidate, generator, runs, humanVars, torn>>
<1>1. UNCHANGED <<build, candidate, generator, runs, humanVars, torn>>
  BY DEF PrepareStep, StartPrepare, CopyPart, FailPrepare, SealBundle
<1>2. CASE StartPrepare
  <2>1. /\ candidate.blockers = "cleared" /\ staging' = [part \in Parts |-> NULL]
        /\ preparer' = 1 /\ output' = output
    BY <1>2 DEF StartPrepare, Reviewable
  <2>2. Present(Required) /\ Present(Required)'
    BY <1>1, <2>1, NullAssumption DEF IInv, CandidateInv, ProgressInv, Present
  <2>3. StagingInv'
    BY <2>1, <2>2 DEF StagingInv
  <2>4. OutputInv'
    BY <1>1, <2>1 DEF IInv, OutputInv, humanVars
  <2> QED
    BY <1>1, <2>3, <2>4
<1>3. CASE CopyPart
  <2>1. StagingInv'
    BY <1>3, CopyStep
  <2>2. OutputInv'
    BY <1>1, <1>3 DEF IInv, OutputInv, CopyPart, humanVars
  <2> QED
    BY <1>1, <2>1, <2>2
<1>4. CASE FailPrepare
  <2>1. preparer' = 0 /\ output' = output
    BY <1>4 DEF FailPrepare
  <2>2. StagingInv'
    BY <2>1 DEF StagingInv
  <2>3. OutputInv'
    BY <1>1, <2>1 DEF IInv, OutputInv, humanVars
  <2> QED
    BY <1>1, <2>2, <2>3
<1>5. ASSUME NEW artifact, SealBundle(artifact)
      PROVE  StagingInv' /\ OutputInv'
  <2>1. /\ preparer = 8 /\ staging.lock.status = "approved"
        /\ output' = [files |-> staging, subject |-> artifact] /\ preparer' = 0
    BY <1>5, FileNames DEF SealBundle
  <2>2. StagingInv'
    BY <2>1 DEF StagingInv
  <2>3. /\ Sound(staging, torn, reviewed)
        /\ staging.licences # NULL /\ staging.sources # NULL /\ staging.cdx # NULL
    BY <2>1 DEF IInv, StagingInv, Sound
  <2>4. staging.lock # NULL /\ staging.spdx # NULL /\ staging.notices # NULL
    BY <2>3, NullAssumption DEF Sound
  <2>5. \A part \in Parts \ {"images"} : staging[part] # NULL
    BY <2>3, <2>4, FileNames
  <2>6. /\ output'.files = staging /\ output'.subject = artifact
        /\ UNCHANGED <<torn, reviewed>>
    BY <1>1, <2>1 DEF humanVars
  <2>7. OutputInv'
    BY <2>1, <2>3, <2>5, <2>6 DEF OutputInv
  <2> QED
    BY <2>2, <2>7
<1> QED
  BY <1>1, <1>2, <1>3, <1>4, <1>5 DEF PrepareStep

\* People remove directories, install bundles, sign and replace files; the gate reads.
LEMMA ReleaseStepKeeps ==
  ASSUME IInv, ReleaseStep
  PROVE  /\ StagingInv' /\ OutputInv' /\ EvidenceInv' /\ ApprovalsInv'
         /\ UNCHANGED <<build, candidate, generator, runs, reviewed, torn>>
<1>1. UNCHANGED <<build, candidate, generator, runs, reviewed, torn>>
  BY DEF ReleaseStep, RemoveStaging, RemoveOutput, UpdateFiles, Install, PassGate, humanVars,
         toolVars
<1>2. preparer' = preparer /\ (preparer = 0 \/ staging' = staging)
  BY DEF ReleaseStep, RemoveStaging, RemoveOutput, UpdateFiles, Install, PassGate, toolVars
<1>3. StagingInv'
  <2>1. CASE preparer = 0
    BY <1>2, <2>1 DEF StagingInv
  <2>2. CASE staging' = staging
    BY <1>1, <1>2, <2>2 DEF IInv, StagingInv, Present
  <2> QED
    BY <1>2, <2>1, <2>2
<1>4. output' \in {NULL, output}
  BY DEF ReleaseStep, RemoveStaging, RemoveOutput, UpdateFiles, Install, PassGate, toolVars
<1>5. OutputInv'
  BY <1>1, <1>4 DEF IInv, OutputInv
<1>6. EvidenceInv'
  <2>1. CASE evidence' = evidence
    BY <1>1, <2>1 DEF IInv, EvidenceInv
  <2>2. CASE UpdateFiles
    <3>1. /\ output # NULL /\ evidence # NULL
          /\ evidence' = [evidence EXCEPT !.files = output.files]
      BY <2>2 DEF UpdateFiles
    <3>2. /\ evidence'.files = output.files /\ evidence'.payload = evidence.payload
          /\ evidence' = [files |-> output.files, payload |-> evidence.payload]
      BY <3>1 DEF IInv, EvidenceInv
    <3>3. evidence.payload = [files |-> evidence.payload.files,
                              subject |-> evidence.payload.subject]
      BY <3>1 DEF IInv, EvidenceInv
    <3> QED
      BY <1>1, <3>1, <3>2, <3>3 DEF IInv, EvidenceInv, OutputInv
  <2>3. ASSUME NEW signers \in Signers, Install(signers) PROVE EvidenceInv'
    <3>1. output # NULL /\ evidence' = [files |-> output.files, payload |-> output]
      BY <2>3 DEF Install
    <3>2. evidence'.files = output.files /\ evidence'.payload = output
      BY <3>1
    <3> QED
      BY <1>1, <3>1, <3>2 DEF IInv, EvidenceInv, OutputInv
  <2> QED
    BY <2>1, <2>2, <2>3 DEF ReleaseStep, RemoveStaging, RemoveOutput, PassGate, humanVars
<1>7. ApprovalsInv'
  <2>1. CASE approvals' = approvals
    BY <2>1 DEF IInv, ApprovalsInv
  <2>2. ASSUME NEW signers \in Signers, Install(signers) PROVE ApprovalsInv'
    <3>1. approvals' = [role \in Roles |->
            IF signers[role] = NULL THEN approvals[role]
            ELSE [by |-> signers[role], payload |-> output]]
      BY <2>2 DEF Install
    <3>2. ASSUME NEW role \in Roles, approvals'[role] # NULL
          PROVE  approvals'[role].by \in Holders[role]
      <4>1. CASE signers[role] = NULL
        BY <3>1, <3>2, <4>1 DEF IInv, ApprovalsInv
      <4>2. CASE signers[role] # NULL
        BY <3>1, <4>2 DEF Signers
      <4> QED
        BY <4>1, <4>2
    <3> QED
      BY <3>1, <3>2 DEF ApprovalsInv
  <2> QED
    BY <2>1, <2>2 DEF ReleaseStep, RemoveStaging, RemoveOutput, UpdateFiles, PassGate, humanVars
<1> QED
  BY <1>1, <1>3, <1>5, <1>6, <1>7

-----------------------------------------------------------------------------
\* What passes the gate satisfies the three properties.
LEMMA GateStep ==
  ASSUME IInv, NEW artifact, NEW names, PassGate(artifact, names) PROVE ShippedInv'
<1> DEFINE f == evidence.files
<1>1. /\ evidence # NULL /\ LockApproved(f) /\ SbomsMatch(f)
      /\ ImageSbomsMatch(f) /\ LicencesMatch(f) /\ NoticesMatch(f) /\ Attested(artifact, names)
      /\ shipped' = [files |-> f, approvals |-> approvals, artifact |-> artifact,
                     names |-> names]
      /\ UNCHANGED <<reviewed, torn>>
  BY DEF PassGate
<1>2. /\ shipped'.files = f /\ shipped'.approvals = approvals
      /\ shipped'.artifact = artifact /\ shipped'.names = names
  BY <1>1
<1>3. Sound(f, torn, reviewed)
  BY <1>1 DEF IInv, EvidenceInv
<1>4. ShippedAsSigned'
  <2>1. /\ artifact = evidence.payload.subject /\ f = evidence.payload.files
        /\ \A role \in Roles :
             approvals[role] # NULL /\ approvals[role].payload = evidence.payload
        /\ \A role, other \in Roles : names[role] = names[other] => role = other
    BY <1>1 DEF Attested, SignedBy
  <2>2. evidence.payload = [files |-> f, subject |-> artifact]
    <3>1. evidence.payload = [files |-> evidence.payload.files,
                              subject |-> evidence.payload.subject]
      BY <1>1 DEF IInv, EvidenceInv
    <3> QED
      BY <2>1, <3>1
  <2>3. \A role \in Roles : approvals[role].by \in Holders[role]
    BY <2>1 DEF IInv, ApprovalsInv
  <2> HIDE DEF f
  <2> QED
    BY <1>2, <2>1, <2>2, <2>3 DEF ShippedAsSigned
<1> HIDE DEF f
<1>5. ShippedFitsTogether'
  <2>1. f.cdx = f.lock.image /\ f.spdx.image = f.lock.image /\ f.licences = f.lock.text
    BY <1>1 DEF SbomsMatch, LicencesMatch
  <2>2. f.images.sbom.image = f.lock.image
    BY <1>1, <1>3 DEF ImageSbomsMatch, Sound, Fits
  <2> QED
    BY <1>2, <2>1, <2>2 DEF ShippedFitsTogether
<1>6. ShippedWasReviewed'
  <2>1. Accounted(f.lock, torn, reviewed)
    BY <1>3 DEF Sound
  <2>2. f.spdx.image = f.lock.image /\ Noticed(f.spdx, f.notices, torn)
    BY <1>1, <1>3 DEF Sound, SbomsMatch
  <2>3. f.notices \in Nat /\ f.lock.image \in Nat /\ f.notices <= f.lock.image
    BY <1>3 DEF Sound, Locks
  <2>4. f.notices = f.lock.image \/ \E run \in torn : run.image = f.lock.image
    BY <2>2, <2>3 DEF Noticed
  <2> QED
    BY <1>1, <1>2, <2>1, <2>4 DEF ShippedWasReviewed, Accounted
<1> QED
  BY <1>4, <1>5, <1>6 DEF ShippedInv

\* Nothing is shipped by any other step, and nothing happens after a release.
LEMMA NotShipped ==
  ASSUME shipped' = NULL PROVE ShippedInv'
  BY DEF ShippedInv, ShippedAsSigned, ShippedFitsTogether, ShippedWasReviewed

\* Every step keeps the invariant.
LEMMA NextInvariant == IInv /\ [Next]_vars => IInv'
<1> SUFFICES ASSUME IInv, [Next]_vars PROVE IInv'
  OBVIOUS
<1>1. CASE shipped = NULL /\ (GeneratorStep \/ ReviewStep \/ Rebuild)
  <2>1. CandidateInv' /\ Grown /\ UNCHANGED <<toolVars, approvals, evidence, shipped>>
    BY <1>1, CandidateStep DEF IInv
  <2>2. StagingInv' /\ OutputInv' /\ EvidenceInv' /\ ApprovalsInv'
    BY <2>1, CandidateStepKeeps
  <2>3. ShippedInv'
    BY <1>1, <2>1, NotShipped
  <2> QED
    BY <2>1, <2>2, <2>3 DEF IInv
<1>2. CASE shipped = NULL /\ PrepareStep
  <2>1. /\ StagingInv' /\ OutputInv'
        /\ UNCHANGED <<build, candidate, generator, runs, humanVars, torn>>
    BY <1>2, PrepareStepKeeps
  <2>2. CandidateInv'
    BY <2>1, CandidateSame DEF IInv, humanVars
  <2>3. EvidenceInv' /\ ApprovalsInv'
    BY <2>1 DEF IInv, EvidenceInv, ApprovalsInv, humanVars
  <2>4. ShippedInv'
    BY <1>2, <2>1, NotShipped DEF humanVars
  <2> QED
    BY <2>1, <2>2, <2>3, <2>4 DEF IInv
<1>3. CASE shipped = NULL /\ ReleaseStep
  <2>1. /\ StagingInv' /\ OutputInv' /\ EvidenceInv' /\ ApprovalsInv'
        /\ UNCHANGED <<build, candidate, generator, runs, reviewed, torn>>
    BY <1>3, ReleaseStepKeeps
  <2>2. CandidateInv'
    BY <2>1, CandidateSame DEF IInv
  <2>3. \/ \E artifact \in 0 .. build, names \in [Roles -> Names] : PassGate(artifact, names)
        \/ shipped' = shipped
    BY <1>3 DEF ReleaseStep, RemoveStaging, RemoveOutput, UpdateFiles, Install, humanVars
  <2>4. ShippedInv'
    BY <1>3, <2>3, GateStep, NotShipped
  <2> QED
    BY <2>1, <2>2, <2>4 DEF IInv
<1>4. CASE UNCHANGED vars
  <2>1. CandidateInv'
    BY <1>4, CandidateSame DEF IInv, vars
  <2>2. StagingInv' /\ OutputInv' /\ EvidenceInv' /\ ApprovalsInv'
    BY <1>4 DEF IInv, StagingInv, OutputInv, EvidenceInv, ApprovalsInv, vars, toolVars,
                humanVars, Present
  <2>3. ShippedInv'
    BY <1>4 DEF IInv, ShippedInv, ShippedAsSigned, ShippedFitsTogether, ShippedWasReviewed,
                vars, humanVars
  <2> QED
    BY <2>1, <2>2, <2>3 DEF IInv
<1> QED
  BY <1>1, <1>2, <1>3, <1>4 DEF Next

\* The invariant gives the types the runs check.
LEMMA Typed == IInv => TypeOK
<1> SUFFICES ASSUME IInv PROVE TypeOK
  OBVIOUS
<1>1. build \in Builds /\ runs \in 0 .. MaxRuns /\ reviewed \subseteq Builds
      /\ torn \subseteq [image : Builds, text : Builds]
      /\ (generator.next > 0 <=> generator.pc = "writing")
  BY DEF IInv, CandidateInv, GeneratorInv
<1>2. generator.next \in 0 .. Len(Written)
  BY FileNames DEF IInv, CandidateInv, GeneratorInv, Generators
<1>3. DOMAIN candidate = Files
  BY DEF IInv, CandidateInv, FilesInv
<1>4. candidate.lock # NULL =>
        /\ candidate.lock \in Locks
        /\ candidate.lock.image \in Builds /\ candidate.lock.text \in Builds
  <2>1. candidate.lock # NULL =>
          /\ candidate.lock \in Locks
          /\ candidate.lock.image \in Nat /\ candidate.lock.text \in Nat
          /\ candidate.lock.image <= build /\ candidate.lock.text <= build
    BY Numbers DEF IInv, CandidateInv, FilesInv, OrderInv
  <2> QED
    BY <1>1, <2>1, Numbers DEF IInv, Builds
<1>5. preparer \in 0 .. Len(Copied) + 1 /\ (preparer > 0 => DOMAIN staging = Parts)
  BY FileNames DEF IInv, StagingInv
<1>6. output # NULL => \A part \in Parts \ {"images"} : output.files[part] # NULL
  BY DEF IInv, OutputInv
<1> QED
  BY <1>1, <1>2, <1>3, <1>4, <1>5, <1>6 DEF TypeOK

-----------------------------------------------------------------------------
\* The inductive invariant holds in every reachable state.
THEOREM ReleaseInvariant == Spec => []IInv
<1>1. Init => IInv
  BY InitInvariant
<1>2. IInv /\ [Next]_vars => IInv'
  BY NextInvariant
<1> QED
  BY <1>1, <1>2, PTL DEF Spec

\* The state has its types, and the two tools are where their files say.
THEOREM ReleaseTypeCorrect == Spec => []TypeOK
  BY ReleaseInvariant, Typed, PTL

\* What the gate passes was signed, these files and this artifact, with the key of each
\* role by someone who holds it, and carries three names (compliance_gate.py, the
\* attestation and its approvals).
THEOREM AlwaysShippedAsSigned == Spec => []ShippedAsSigned
<1>1. IInv => ShippedAsSigned
  BY DEF IInv, ShippedInv
<1> QED
  BY <1>1, ReleaseInvariant, PTL

\* Nobody holds the keys of two roles, which no code checks.
KeysApart ==
  \A role, other \in Roles : role # other => Holders[role] \intersect Holders[other] = {}

\* The independence of the approvals rests on who holds the keys alone: it holds if
\* nobody has those of two roles (release/trusted-signers and README.md:36).
THEOREM IndependentIfKeysApart == ASSUME KeysApart PROVE Spec => []IndependentApprovals
<1>1. IInv => IndependentApprovals
  BY KeysApart DEF IInv, ShippedInv, ShippedAsSigned, IndependentApprovals, KeysApart
<1> QED
  BY <1>1, ReleaseInvariant, PTL

\* Its SBOMs, its scan and its licence texts are of the image of its lock.
THEOREM AlwaysFitsTogether == Spec => []ShippedFitsTogether
<1>1. IInv => ShippedFitsTogether
  BY DEF IInv, ShippedInv
<1> QED
  BY <1>1, ReleaseInvariant, PTL

\* Its texts were reviewed and its notices are current, but for the runs that failed
\* among their writes (generate_distribution_candidate.py).
THEOREM AlwaysReviewed == Spec => []ShippedWasReviewed
<1>1. IInv => ShippedWasReviewed
  BY DEF IInv, ShippedInv
<1> QED
  BY <1>1, ReleaseInvariant, PTL

=============================================================================
