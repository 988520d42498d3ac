----------------------------- MODULE AmiRelease -----------------------------
(***************************************************************************)
(* The release of a new machine image (bin/copy_ami.py): copy it to every  *)
(* region, make every copy public as soon as it is ready, then deregister  *)
(* the images of old versions.                                             *)
(*                                                                         *)
(* A call that fails ends the script, except while it makes copies public: *)
(* there a failure means that the image is not ready, and another one is   *)
(* tried first.  The next release finds whatever the last one has left.    *)
(***************************************************************************)
EXTENDS Naturals, SequencesExt

CONSTANTS
  Regions,
  SourceRegion,   \* SOURCE_REGION
  VersionsToKeep, \* versions_to_keep: 2
  MaxVersion      \* bound on the releases

ASSUME ReleaseAssumption ==
  /\ SourceRegion \in Regions
  /\ VersionsToKeep \in Nat \ {0, 1}
  /\ MaxVersion \in Nat

VARIABLES
  version,    \* the version of IMAGE_NAME
  images,     \* the versions each region has an image of
  public,     \* those of them that anybody may launch
  ready,      \* regions whose image of this version is complete
  queue,      \* new_image_ids
  left,       \* regions the script has not been to
  stage       \* where the script is

VARIABLES     \* history, read by no action
  offered     \* regions that have had a public image

releaseVars == <<version, images, public, ready, queue, left, stage, offered>>

InitRelease ==
  /\ version = 0
  /\ images = [r \in Regions |-> {}]
  /\ public = [r \in Regions |-> {}]
  /\ ready = {} /\ queue = <<>> /\ left = {}
  /\ stage = "idle"
  /\ offered = {}

StageAt(from, to) == stage = from /\ stage' = to

\* The image of a new version has been made and named in the source.
Release ==
  /\ StageAt("idle", "copy")
  /\ version < MaxVersion
  /\ version' = version + 1
  /\ images' = [images EXCEPT ![SourceRegion] = @ \union {version + 1}]
  /\ ready' = {SourceRegion}
  /\ queue' = <<SourceRegion>>
  /\ left' = Regions \ {SourceRegion}
  /\ UNCHANGED <<public, offered>>

\* copy_image returns at once, long before the copy is ready.
CopyTo(r) ==
  /\ StageAt("copy", "copy")
  /\ r \in left
  /\ left' = left \ {r}
  /\ images' = [images EXCEPT ![r] = @ \union {version}]
  /\ queue' = Append(queue, r)
  /\ UNCHANGED <<version, public, ready, offered>>

\* A call raises, and the script ends where it is.
Raised ==
  /\ stage \in {"copy", "cleanup"} /\ stage' = "idle"
  /\ queue' = <<>> /\ left' = {}
  /\ UNCHANGED <<version, images, public, ready, offered>>

BecomeReady(r) ==
  /\ version \in images[r]
  /\ ready' = ready \union {r}
  /\ UNCHANGED <<version, images, public, queue, left, stage, offered>>

Copied ==
  /\ StageAt("copy", "publish")
  /\ left = {}
  /\ UNCHANGED <<version, images, public, ready, queue, left, offered>>

\* make_amis_public works at the end of the queue.
MakePublic ==
  /\ StageAt("publish", "publish")
  /\ queue # <<>> /\ Last(queue) \in ready
  /\ queue' = Front(queue)
  /\ public' = [public EXCEPT ![Last(queue)] = @ \union {version}]
  /\ offered' = offered \union {Last(queue)}
  /\ UNCHANGED <<version, images, ready, left>>

\* Variant: the image that is not ready is tried again at once.
NotReady_NoRotate ==
  /\ StageAt("publish", "publish")
  /\ queue # <<>> /\ Last(queue) \notin ready
  /\ UNCHANGED <<version, images, public, ready, queue, left, offered>>

\* Variant: the image that is not ready is given up.
NotReady_GivesUp ==
  /\ StageAt("publish", "publish")
  /\ queue # <<>> /\ Last(queue) \notin ready
  /\ queue' = Front(queue)
  /\ UNCHANGED <<version, images, public, ready, left, offered>>

\* new_image_ids.rotate(): the last comes first.
NotReady ==
  /\ StageAt("publish", "publish")
  /\ queue # <<>> /\ Last(queue) \notin ready
  /\ queue' = <<Last(queue)>> \o Front(queue)
  /\ UNCHANGED <<version, images, public, ready, left, offered>>

AllPublic ==
  /\ StageAt("publish", "cleanup")
  /\ queue = <<>>
  /\ left' = Regions
  /\ UNCHANGED <<version, images, public, ready, queue, offered>>

\* The images [:-(versions_to_keep - 1)] of those of other versions, sorted.
Old(r) ==
  {v \in images[r] \ {version} :
     VersionsToKeep - 1 <= Cardinality({w \in images[r] \ {version} : v < w})}

Deregister(r) ==
  /\ StageAt("cleanup", "cleanup")
  /\ r \in left /\ Old(r) # {}
  /\ LET v == CHOOSE w \in Old(r) : \A u \in Old(r) : w <= u
     IN /\ images' = [images EXCEPT ![r] = @ \ {v}]
        /\ public' = [public EXCEPT ![r] = @ \ {v}]
  /\ UNCHANGED <<version, ready, queue, left, offered>>

NextRegion(r) ==
  /\ stage = "cleanup"
  /\ r \in left /\ Old(r) = {}
  /\ left' = left \ {r}
  /\ stage' = IF left = {r} THEN "idle" ELSE "cleanup"
  /\ UNCHANGED <<version, images, public, ready, queue, offered>>

Publishing == MakePublic \/ NotReady \/ AllPublic

NextRelease ==
  \/ Release \/ Raised \/ Copied \/ Publishing
  \/ \E r \in Regions : CopyTo(r) \/ BecomeReady(r) \/ Deregister(r) \/ NextRegion(r)

\* The loop that makes images public runs on, whether or not one gets ready.
FairRelease == InitRelease /\ [][NextRelease]_releaseVars /\ WF_releaseVars(Publishing)

-----------------------------------------------------------------------------
(* Properties.                                                             *)

(* A region that has had a public image always has one: whatever releases fail
   half-way, no image goes before a newer one can be launched
   (copy_ami.py:14-18, 30-37). *)
NeverWithout == \A r \in offered : public[r] # {}

(* A copy that is ready is made public, even if another never gets ready
   (copy_ami.py:60-72). *)
ReadyIsPublished ==
  \A r \in Regions :
    (stage = "publish" /\ r \in ready) ~> (version \in public[r])
=============================================================================
