--------------------------- MODULE ReleasePipeline ---------------------------
(***************************************************************************)
(* From a build to a release: generate_distribution_candidate.py writes    *)
(* the candidate evidence file by file, people review it,                  *)
(* prepare_unsigned_distribution_evidence.py copies it into a bundle,      *)
(* the holders of three keys sign the bundle, and compliance_gate.py       *)
(* passes or blocks what is installed in release/evidence.                 *)
(*                                                                         *)
(* The two tools run side by side, share the candidate directory without a *)
(* lock and stop anywhere.  One service image and one Python package stand *)
(* for all, each by the version of its build; a digest is modelled by the  *)
(* content it is the digest of.                                            *)
(***************************************************************************)
EXTENDS Naturals, Sequences

CONSTANTS
  Persons,          \* who may sign
  Names,            \* what a "signer" of the attestation may say, once stripped and folded
  Holders,          \* Holders[role]: who may use the private key of a role
  NULL

CONSTANTS           \* bounds of the model
  MaxBuild,         \* builds: an image, a licence text and an artifact each
  MaxRuns,          \* runs of the generator
  MaxBundles        \* bundles prepared

Roles == {"release", "security", "legal"}

\* Who signs for each role, if anybody does.
Signers == {signers \in [Roles -> Persons \union {NULL}] :
              \A role \in Roles : signers[role] \in Holders[role] \union {NULL}}

ASSUME ReleaseAssumption ==
  /\ Holders \in [Roles -> SUBSET Persons]
  /\ {MaxBuild, MaxRuns, MaxBundles} \subseteq Nat

\* What the files say, as far as it matters here.
Scans == [image : Nat, known : BOOLEAN]
Locks == [status : {"blocked", "approved"}, image : Nat, text : Nat]
Documents == [image : Nat, concluded : BOOLEAN]
Queues == [text : Nat, recorded : BOOLEAN]

\* NULL stands for a file that is not there.
ASSUME NullAssumption ==
  /\ NULL \notin Nat /\ NULL \notin {"pending", "decided", "listed", "cleared"}
  /\ NULL \notin Scans /\ NULL \notin Locks /\ NULL \notin Documents /\ NULL \notin Queues

VARIABLES
  build,            \* the last build
  candidate,        \* the files of release/candidate/distribution
  generator,        \* the generator: where it is and what it holds in memory
  runs,             \* how many runs of it were started
  staging,          \* the directory unsigned-evidence.staging
  preparer,         \* the next part that prepare copies, 0 while it does not run
  output,           \* release/unsigned-evidence
  bundles,          \* how many bundles were prepared
  approvals,        \* for each role, the last signature it gave, and who used its key
  evidence,         \* release/evidence
  shipped,          \* what the gate passed last (no code reads it, nor the next two)
  reviewed,         \* licence texts of which Legal recorded a review
  torn              \* image and text of the locks of runs that did not finish

vars == <<build, candidate, generator, runs, staging, preparer, output, bundles,
          approvals, evidence, shipped, reviewed, torn>>

toolVars == <<staging, preparer, output, bundles>>
humanVars == <<approvals, evidence, shipped, reviewed>>

\* The files main writes in the end, in its order.
Written == <<"lock", "cdx", "spdx", "notices", "sources", "imageManifest",
             "blockers", "queue">>

Files == {Written[i] : i \in 1 .. Len(Written)} \union {"imageSboms", "licences"}

\* COPIED_DIRECTORIES and COPIED_FILES, in the order of the copy.
Copied == <<"licences", "images", "sources", "cdx", "spdx", "notices", "lock">>

Parts == {Copied[i] : i \in 1 .. Len(Copied)}

Idle == [pc |-> "idle", image |-> 0, text |-> 0, manifest |-> NULL, next |-> 0]

Init ==
  /\ build = 0
  /\ candidate = [f \in Files |-> NULL]
  /\ generator = Idle
  /\ runs = 0
  /\ staging = NULL /\ preparer = 0 /\ output = NULL /\ bundles = 0
  /\ approvals = [role \in Roles |-> NULL]
  /\ evidence = NULL /\ shipped = NULL
  /\ reviewed = {} /\ torn = {}

-----------------------------------------------------------------------------
(* generate_distribution_candidate.py                                      *)

\* The digests of the local images are read first; the wheels are checked against
\* the lock of hashes, or the run ends here.
StartRun ==
  /\ generator = Idle
  /\ runs < MaxRuns
  /\ runs' = runs + 1
  /\ generator' = [Idle EXCEPT !.pc = "started", !.image = build]
  /\ UNCHANGED <<build, candidate, toolVars, humanVars, torn>>

\* --scan-images: Syft reads the image that Docker has by now.  Its SBOM names
\* every licence, or not.
ScanImages(known) ==
  LET sbom == [image |-> build, known |-> known] IN
  /\ generator.pc = "started"
  /\ candidate' = [candidate EXCEPT !.imageSboms = sbom]
  /\ generator' = [generator EXCEPT
       !.pc = "scanned", !.manifest = [image |-> build, file |-> sbom]]
  /\ UNCHANGED <<build, runs, toolVars, humanVars, torn>>

\* Without it the manifest of an earlier run is taken over.
KeepScan ==
  /\ generator.pc = "started"
  /\ generator' = [generator EXCEPT !.pc = "scanned", !.manifest = candidate.imageManifest]
  /\ UNCHANGED <<build, candidate, runs, toolVars, humanVars, torn>>

\* The licence texts come out of the base image; the pinned texts, archives of
\* sources and model descriptors are the same in every run, or the run ends here.
\* (Without the base image, or a pinned file, the run goes on to write a lock that
\* says TBD, which nobody can release.)
Materialize ==
  /\ generator.pc = "scanned"
  /\ generator' = [generator EXCEPT !.pc = "writing", !.text = build, !.next = 1]
  /\ candidate' = [candidate EXCEPT !.licences = build]
  /\ UNCHANGED <<build, runs, toolVars, humanVars, torn>>

\* mutant: a status that nobody looks for
Status_Candidate == "candidate"

\* mutant: a lock that was approved stays approved
Status_Kept == IF candidate.lock = NULL THEN "blocked" ELSE candidate.lock.status

Status == "blocked"

\* What main writes: nothing of it is released, concluded, decided or recorded,
\* and there is always a blocker, one for the local id of each image at least.
Draft ==
  [lock |-> [status |-> Status, image |-> generator.image, text |-> generator.text],
   cdx |-> generator.image,
   spdx |-> [image |-> generator.image, concluded |-> FALSE],
   notices |-> generator.image,
   sources |-> "pending",
   imageManifest |-> generator.manifest,
   blockers |-> "listed",
   queue |-> [text |-> generator.text, recorded |-> FALSE]]

\* One file; the image manifest only if there is one.
WriteFile ==
  LET file == Written[generator.next] IN
  /\ generator.pc = "writing"
  /\ candidate' = IF Draft[file] = NULL THEN candidate
                  ELSE [candidate EXCEPT ![file] = Draft[file]]
  /\ generator' = IF generator.next = Len(Written) THEN Idle
                  ELSE [generator EXCEPT !.next = @ + 1]
  /\ UNCHANGED <<build, runs, toolVars, humanVars, torn>>

\* A download, a digest, Docker or the disk fails, or the process is killed: what
\* was written stays.
FailRun ==
  /\ generator # Idle
  /\ generator' = Idle
  /\ torn' = IF generator.next > 1
             THEN torn \union {[image |-> generator.image, text |-> generator.text]} ELSE torn
  /\ UNCHANGED <<build, candidate, runs, toolVars, humanVars>>

-----------------------------------------------------------------------------
(* The review, by people, between runs                                     *)

\* They conclude the licences, fill in those the image SBOM lacks and hash it
\* again if its hash was right, decide about the sources and clear the blockers.
Curate ==
  LET sbom == [candidate.imageSboms EXCEPT !.known = TRUE] IN
  /\ generator = Idle
  /\ candidate.blockers = "listed"
  /\ candidate.imageManifest # NULL /\ candidate.imageManifest.file = candidate.imageSboms
  /\ candidate' = [candidate EXCEPT
       !.spdx.concluded = TRUE,
       !.imageSboms = sbom, !.imageManifest.file = sbom,
       !.sources = "decided",
       !.blockers = "cleared"]
  /\ UNCHANGED <<build, generator, runs, toolVars, humanVars, torn>>

\* Legal records that it reviewed what the queue lists.
RecordLegalReview ==
  /\ generator = Idle
  /\ candidate.queue # NULL /\ ~ candidate.queue.recorded
  /\ candidate' = [candidate EXCEPT !.queue.recorded = TRUE]
  /\ reviewed' = reviewed \union {candidate.queue.text}
  /\ UNCHANGED <<build, generator, runs, toolVars, approvals, evidence, shipped, torn>>

\* mutant: the record of Legal is not asked for
LegalRecorded_Ignored == TRUE

\* A queue that says no is a refusal; no queue is none.
LegalRecorded == candidate.queue # NULL => candidate.queue.recorded

\* The lock is released last, on the word of the blockers and of the queue.
ApproveLock ==
  /\ generator = Idle
  /\ candidate.lock # NULL /\ candidate.lock.status = "blocked"
  /\ candidate.blockers = "cleared" /\ LegalRecorded
  /\ candidate' = [candidate EXCEPT !.lock.status = "approved"]
  /\ UNCHANGED <<build, generator, runs, toolVars, humanVars, torn>>

-----------------------------------------------------------------------------
(* prepare_unsigned_distribution_evidence.py                               *)

\* assert_candidate_is_reviewable.
Reviewable ==
  /\ candidate.blockers = "cleared"
  /\ LegalRecorded
  /\ candidate.spdx.concluded
  /\ candidate.imageSboms # NULL => candidate.imageSboms.known

StartPrepare ==
  /\ preparer = 0
  /\ Reviewable
  /\ output = NULL /\ staging = NULL
  /\ bundles < MaxBundles
  /\ staging' = [part \in Parts |-> NULL]
  /\ preparer' = 1
  /\ UNCHANGED <<build, candidate, generator, runs, output, bundles, humanVars, torn>>

\* A part as the candidate directory has it: a directory with its manifest, or a file.
Content(part) ==
  CASE part = "images" ->
         [sbom |-> candidate.imageSboms, manifest |-> candidate.imageManifest]
    [] OTHER -> candidate[part]

CopyPart ==
  LET part == Copied[preparer] IN
  /\ preparer \in 1 .. Len(Copied)
  /\ staging' = [staging EXCEPT ![part] = Content(part)]
  /\ preparer' = preparer + 1
  /\ UNCHANGED <<build, candidate, generator, runs, output, bundles, humanVars, torn>>

\* The digests of the parts and of the artifact become the payload to sign.
SealBundle(artifact) ==
  /\ preparer = Len(Copied) + 1
  /\ staging.lock.status = "approved"
  /\ output' = [files |-> staging, subject |-> artifact]
  /\ staging' = NULL
  /\ preparer' = 0
  /\ bundles' = bundles + 1
  /\ UNCHANGED <<build, candidate, generator, runs, humanVars, torn>>

\* An exception, a lock not released included, removes the staging directory; a
\* killed process leaves it, and no other prepare starts before it is removed.
FailPrepare ==
  /\ preparer > 0
  /\ preparer' = 0
  /\ staging' \in {NULL, staging}
  /\ UNCHANGED <<build, candidate, generator, runs, output, bundles, humanVars, torn>>

-----------------------------------------------------------------------------
(* People and builds, outside the tools                                    *)

RemoveStaging ==
  /\ preparer = 0 /\ staging # NULL
  /\ staging' = NULL
  /\ UNCHANGED <<build, candidate, generator, runs, preparer, output, bundles, humanVars, torn>>

RemoveOutput ==
  /\ output # NULL
  /\ output' = NULL
  /\ UNCHANGED <<build, candidate, generator, runs, staging, preparer, bundles, humanVars, torn>>

\* Some roles sign the payload of the bundle, and it moves to release/evidence.  A
\* role that did not sign again keeps its signature on the bundle that is replaced.
\* (Who used the key, "by", is not in the attestation.)
Install(signers) ==
  /\ generator = Idle /\ output # NULL
  /\ evidence' = [files |-> output.files, payload |-> output]
  /\ approvals' = [role \in Roles |->
       IF signers[role] = NULL THEN approvals[role]
       ELSE [by |-> signers[role], payload |-> output]]
  /\ output' = NULL
  /\ UNCHANGED <<build, candidate, generator, runs, staging, preparer, bundles, shipped,
                 reviewed, torn>>

\* The files of a newer bundle replace those in release/evidence, under the old
\* attestation.
UpdateFiles ==
  /\ output # NULL /\ evidence # NULL
  /\ evidence' = [evidence EXCEPT !.files = output.files]
  /\ output' = NULL
  /\ UNCHANGED <<build, candidate, generator, runs, staging, preparer, bundles, approvals,
                 shipped, reviewed, torn>>

Rebuild ==
  /\ build < MaxBuild
  /\ build' = build + 1
  /\ UNCHANGED <<candidate, generator, runs, toolVars, humanVars, torn>>

-----------------------------------------------------------------------------
(* compliance_gate.py --mode distribution                                  *)

LockApproved(f) == f.lock.status = "approved"

SbomsMatch(f) ==
  /\ f.cdx = f.lock.image
  /\ f.spdx.image = f.lock.image /\ f.spdx.concluded

\* mutant: the digests of the image SBOM files are not compared
ImageSbomsMatch_NoDigest(f) ==
  /\ f.images.manifest # NULL
  /\ f.images.manifest.image = f.lock.image
  /\ f.images.sbom.known

ImageSbomsMatch(f) ==
  /\ f.images.manifest # NULL
  /\ f.images.manifest.image = f.lock.image
  /\ f.images.manifest.file = f.images.sbom
  /\ f.images.sbom.known

LicencesMatch(f) == f.licences = f.lock.text

\* The notices need only name the components.
NoticesMatch(f) == f.notices # NULL

SourcesMatch(f) == f.sources = "decided"

\* mutant: a signature counts whatever it was given for
SignedBy_AnyPayload(role) == approvals[role] # NULL

SignedBy(role) ==
  approvals[role] # NULL /\ approvals[role].payload = evidence.payload

\* The artifact and every part are those the attestation binds, the key of each role
\* signed it, and the names beside the signatures are different.
Attested(artifact, names) ==
  /\ artifact = evidence.payload.subject
  /\ evidence.files = evidence.payload.files
  /\ \A role \in Roles : SignedBy(role)
  /\ \A role, other \in Roles : names[role] = names[other] => role = other

\* A signature covers the subject and the digests, not the name beside it: the
\* attestation names whom its editors like.
PassGate(artifact, names) ==
  LET files == evidence.files IN
  /\ evidence # NULL
  /\ LockApproved(files) /\ SbomsMatch(files)
  /\ ImageSbomsMatch(files) /\ LicencesMatch(files)
  /\ NoticesMatch(files) /\ SourcesMatch(files)
  /\ Attested(artifact, names)
  /\ shipped' = [files |-> files, approvals |-> approvals, artifact |-> artifact,
                 names |-> names]
  /\ UNCHANGED <<build, candidate, generator, runs, toolVars, approvals, evidence, reviewed, torn>>

-----------------------------------------------------------------------------
GeneratorStep ==
  \/ StartRun \/ KeepScan \/ Materialize \/ WriteFile \/ FailRun
  \/ \E known \in BOOLEAN : ScanImages(known)

ReviewStep == Curate \/ RecordLegalReview \/ ApproveLock

PrepareStep == StartPrepare \/ CopyPart \/ FailPrepare
               \/ \E artifact \in 0 .. build : SealBundle(artifact)

ReleaseStep ==
  \/ RemoveStaging \/ RemoveOutput \/ UpdateFiles
  \/ \E signers \in Signers : Install(signers)
  \/ \E artifact \in 0 .. build, names \in [Roles -> Names] : PassGate(artifact, names)

\* Bounds: the candidate directory is left alone once a bundle was installed (to
\* change it then, or before, is all the same to what is in release/evidence), and
\* the model ends with the first release.
Next ==
  /\ shipped = NULL
  /\ \/ evidence = NULL /\ (GeneratorStep \/ ReviewStep \/ Rebuild)
     \/ PrepareStep
     \/ ReleaseStep

Spec == Init /\ [][Next]_vars

-----------------------------------------------------------------------------
(* Properties                                                              *)

Builds == 0 .. MaxBuild

\* Types of the state; the generator and prepare are where their files say.
TypeOK ==
  /\ build \in Builds
  /\ DOMAIN candidate = Files
  /\ candidate.lock # NULL =>
       candidate.lock \in Locks /\ {candidate.lock.image, candidate.lock.text} \subseteq Builds
  /\ generator.next \in 0 .. Len(Written) /\ (generator.next > 0 <=> generator.pc = "writing")
  /\ runs \in 0 .. MaxRuns
  /\ preparer \in 0 .. Len(Copied) + 1 /\ (preparer > 0 => DOMAIN staging = Parts)
  /\ output # NULL => \A part \in Parts \ {"images"} : output.files[part] # NULL
  /\ reviewed \subseteq Builds
  /\ torn \subseteq [image : Builds, text : Builds]

\* What the gate passes was signed with the key of each role, by someone who holds
\* it: these files and this artifact, under three names, whatever was edited,
\* rebuilt, prepared or signed before and after (release/README.md:32-38).
ShippedAsSigned ==
  shipped # NULL =>
    \A role \in Roles :
      LET approval == shipped.approvals[role] IN
      /\ approval.by \in Holders[role]
      /\ approval.payload = [files |-> shipped.files, subject |-> shipped.artifact]
      /\ \A other \in Roles \ {role} : shipped.names[other] # shipped.names[role]

\* No person approves for two roles (release/README.md:36: "Una misma persona o
\* identidad criptografica no puede aprobar mas de uno de esos roles en la misma
\* attestation").
IndependentApprovals ==
  shipped # NULL =>
    \A role, other \in Roles :
      shipped.approvals[role].by = shipped.approvals[other].by => role = other

\* The SBOMs and the licence texts that pass describe the image of the lock: the
\* scan was one of that very image, whatever mixture of runs the candidate
\* directory held while it was copied.
ShippedFitsTogether ==
  shipped # NULL =>
    LET f == shipped.files IN
    /\ {f.cdx, f.spdx.image, f.images.sbom.image} = {f.lock.image}
    /\ f.licences = f.lock.text

\* Licence texts that pass are texts of which Legal recorded a review, unless the
\* run that wrote the lock failed after it; and the notices are those of the lock's
\* image, unless some run for that image failed after it had written its lock.  Such
\* a run leaves the cleared blockers and the recorded review of an earlier run in
\* place, or no queue at all, or the notices of one.  (release/README.md:38 knows no
\* such exception: "unicamente cuando [...] la revision legal ya esta registrada".)
ShippedWasReviewed ==
  shipped # NULL =>
    LET lock == shipped.files.lock IN
    /\ lock.text \in reviewed \/ [image |-> lock.image, text |-> lock.text] \in torn
    /\ shipped.files.notices = lock.image \/ \E run \in torn : run.image = lock.image

=============================================================================
