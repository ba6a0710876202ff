---------------------------- MODULE ListingImages ----------------------------
(***************************************************************************)
(* The images of one listing: upload, attach, remove and reorder           *)
(* (apps/api/src/routes: uploads.ts, listings.ts; web ListingImages.tsx),  *)
(* the thumbnail job of the worker (lib: thumbnailProcessor.ts,            *)
(* thumbnailQueue.ts, thumbnailWorker.ts) and the weekly clean-up of       *)
(* Cloudinary (lib/orphanCleanup.ts).                                      *)
(*                                                                         *)
(* An image is its publicId, which is drawn afresh for every upload.       *)
(* Cloudinary keeps the original under it and the thumbnail under          *)
(* <publicId>_thumb.  Checks of ownership change nothing and are left out, *)
(* and so is the count of free slots the page shows.                       *)
(***************************************************************************)
EXTENDS Naturals, Sequences, FiniteSets

CONSTANTS
    Images,        \* publicIds, signed or not
    BadImages,     \* those whose bytes sharp refuses
    MaxImages,     \* MAX_IMAGES_PER_LISTING
    MaxAttempts,   \* THUMBNAIL_JOB_OPTIONS.attempts
    MaxStalls,     \* BullMQ's maxStalledCount, 1 as it is left
    MinAge,        \* ORPHAN_MIN_AGE_MS
    AttachWithin,  \* longest time from an upload to its attach
    CleanupWithin, \* longest time one clean-up takes
    None           \* no original, no reorder, or no clean-up

\* ORPHAN_MIN_AGE_MS leaves room for an upload under way (orphanCleanup.ts:5-9).
ASSUME ImagesAssumption ==
    /\ BadImages \subseteq Images
    /\ MaxImages \in Nat \ {0}
    /\ MaxAttempts \in Nat \ {0}
    /\ MaxStalls \in Nat
    /\ {MinAge, AttachWithin, CleanupWithin} \subseteq Nat
    /\ MinAge > AttachWithin + CleanupWithin
    /\ None \notin Nat

VARIABLES
    images,        \* Listing.images: a sequence of [id, thumb]
    task,          \* [Images -> how far its owner's requests have got]
    original,      \* [Images -> age of the original at Cloudinary, or None]
    thumbs,        \* images whose thumbnail is at Cloudinary
    job,           \* [Images -> the thumbnail job: step, failed attempts, stalls]
    reorder,       \* the reorder under way: what it read and will write
    cleanup,       \* the clean-up under way, or None: see Cleanup
    muddled        \* history: images a reorder wrote back as they had been

vars == <<images, task, original, thumbs, job, reorder, cleanup, muddled>>

Entry        == [id : Images, thumb : BOOLEAN]
IdsOf(seq)   == {seq[k].id : k \in DOMAIN seq}
Listed(i)    == i \in IdsOf(images)
EntriesOf(seq, i) == {seq[k] : k \in {k \in DOMAIN seq : seq[k].id = i}}

\* $pull: the images kept, in their order.
Without(seq, i) ==
    LET Kept[n \in 0 .. Len(seq)] ==
            IF n = 0 THEN <<>>
            ELSE IF seq[n].id = i THEN Kept[n - 1] ELSE Append(Kept[n - 1], seq[n])
    IN  Kept[Len(seq)]

Stored(i)    == original[i] # None

\* An upload ends attached or given up; a removal runs from pulled to removed.
TaskSteps == {"none", "signed", "uploaded", "attached", "given up",
              "pulled", "destroyed", "removed"}
\* A due job has not been added to the queue yet.  One that failed for good
\* is failing until it is filed with the dead letters, or failed without.
JobSteps  == {"none", "due", "waiting", "bad", "pulled", "fetched", "thumbed", "done",
              "failing", "dead", "failed"}
JobState  == [step : JobSteps, failed : 0..MaxAttempts - 1, stalls : 0..MaxStalls]
NewJob(step) == [step |-> step, failed |-> 0, stalls |-> 0]

\* How long a clean-up has run, the assets it has still to list, of those it
\* found unreferenced, and the ones of the last page that it will destroy.
Cleanup   == [age : 0..CleanupWithin, left : SUBSET Images, doomed : SUBSET Images]
Active(i) == job[i].step \in {"waiting", "bad", "pulled", "fetched", "thumbed"}

TypeOK ==
    /\ images \in Seq(Entry)
    /\ task \in [Images -> TaskSteps]
    /\ original \in [Images -> (0..MinAge) \cup {None}]
    /\ thumbs \subseteq Images
    /\ job \in [Images -> JobState]
    /\ reorder # None => reorder \in [read : Seq(Entry), write : Seq(Entry)]
    /\ cleanup # None => cleanup \in Cleanup
    /\ muddled \subseteq Images

Init ==
    /\ images = <<>>
    /\ task = [i \in Images |-> "none"]
    /\ original = [i \in Images |-> None]
    /\ thumbs = {}
    /\ job = [i \in Images |-> NewJob("none")]
    /\ reorder = None
    /\ cleanup = None
    /\ muddled = {}

Task(i, step) == task' = [task EXCEPT ![i] = step]
Job(i, step)  == job' = [job EXCEPT ![i].step = step]
Ended(i, step) == job' = [job EXCEPT ![i] = NewJob(step)]

\* destroyAsset of an original, which may fail and is then only logged.
DestroyMaybe(i) == original' \in {original, [original EXCEPT ![i] = None]}

-----------------------------------------------------------------------------
(* Uploading and attaching.                                                *)

\* POST /uploads/sign.
Sign(i) ==
    /\ task[i] = "none"
    /\ Len(images) < MaxImages
    /\ Task(i, "signed")
    /\ UNCHANGED <<images, original, thumbs, job, reorder, cleanup, muddled>>

\* The page uploads the file to Cloudinary itself.
Upload(i) ==
    /\ task[i] = "signed"
    /\ Task(i, "uploaded")
    /\ original' = [original EXCEPT ![i] = 0]
    /\ UNCHANGED <<images, thumbs, job, reorder, cleanup, muddled>>

\* The page is closed, or the upload or the attach fails.
Abandon(i) ==
    /\ task[i] \in {"signed", "uploaded"}
    /\ Task(i, "given up")
    /\ UNCHANGED <<images, original, thumbs, job, reorder, cleanup, muddled>>

\* Mutant: the number of images is not part of the filter.
AttachUnchecked(i) ==
    /\ task[i] = "uploaded"
    /\ images' = Append(images, [id |-> i, thumb |-> FALSE])
    /\ Task(i, "attached")
    /\ Job(i, "due")
    /\ UNCHANGED <<original, thumbs, reorder, cleanup, muddled>>

\* POST /:id/images: findOneAndUpdate pushes below the limit, else 409 ...
Attach(i) ==
    /\ task[i] = "uploaded"
    /\ IF Len(images) < MaxImages
       THEN /\ images' = Append(images, [id |-> i, thumb |-> FALSE])
            /\ Task(i, "attached")
            /\ Job(i, "due")
       ELSE UNCHANGED <<images, job>> /\ Task(i, "given up")
    /\ UNCHANGED <<original, thumbs, reorder, cleanup, muddled>>

\* ... then a job is added, or Redis refuses it or the API dies, and the
\* image stays without one.
Enqueue(i) ==
    /\ job[i].step = "due"
    /\ \E step \in {"waiting", "none"} : Job(i, step)
    /\ UNCHANGED <<images, task, original, thumbs, reorder, cleanup, muddled>>

-----------------------------------------------------------------------------
(* Removing and reordering.                                                *)

CanRemove(i) == Listed(i) /\ task[i] \in {"attached", "removed"}

\* DELETE /:id/images: $pull, then the original and the thumbnail are
\* destroyed, if Cloudinary is up and the API lives.
Remove(i) ==
    /\ \/ CanRemove(i) /\ Task(i, "pulled") /\ images' = Without(images, i)
          /\ UNCHANGED <<original, thumbs>>
       \/ task[i] = "pulled" /\ Task(i, "destroyed") /\ DestroyMaybe(i)
          /\ UNCHANGED <<images, thumbs>>
       \/ task[i] = "destroyed" /\ Task(i, "removed") /\ thumbs' \in {thumbs, thumbs \ {i}}
          /\ UNCHANGED <<images, original>>
    /\ UNCHANGED <<job, reorder, cleanup, muddled>>

Positions     == DOMAIN images
Reorderings   == {f \in [Positions -> Positions] : \A k, l \in Positions : f[k] = f[l] => k = l}
Reordered(f)  == [k \in Positions |-> images[f[k]]]

\* Mutant: some of the images will do.
ReadSome ==
    /\ reorder = None
    /\ images # <<>>
    /\ \E n \in Positions :
         reorder' = [read |-> images, write |-> SubSeq(images, 2, n)]
    /\ UNCHANGED <<images, task, original, thumbs, job, cleanup, muddled>>

\* PATCH /:id/images/reorder: findById; the publicIds sent must be a
\* reordering of those found ...
ReadOrder ==
    /\ reorder = None
    /\ images # <<>>
    /\ \E f \in Reorderings : reorder' = [read |-> images, write |-> Reordered(f)]
    /\ UNCHANGED <<images, task, original, thumbs, job, cleanup, muddled>>

\* ... and $set writes back the images that were read.
WriteOrder ==
    /\ reorder # None
    /\ images' = reorder.write
    /\ muddled' = muddled \cup
          {i \in Images : EntriesOf(images, i) # EntriesOf(reorder.read, i)}
    /\ reorder' = None
    /\ UNCHANGED <<task, original, thumbs, job, cleanup>>

-----------------------------------------------------------------------------
(* The thumbnail job.                                                      *)

\* fetchImageBuffer and sharp's verdict.
Fetch(i) ==
    /\ job[i].step = "waiting"
    /\ Stored(i)
    /\ Job(i, IF i \in BadImages THEN "bad" ELSE "fetched")
    /\ UNCHANGED <<images, task, original, thumbs, reorder, cleanup, muddled>>

\* Mutant: a rejected image stays in the listing.
RejectKeeping(i) ==
    /\ \/ job[i].step = "bad" /\ Job(i, "pulled") /\ UNCHANGED original
       \/ job[i].step = "pulled" /\ Ended(i, "done") /\ DestroyMaybe(i)
    /\ UNCHANGED <<images, task, thumbs, reorder, cleanup, muddled>>

\* A rejected image leaves the listing, then Cloudinary, and the job is done.
Reject(i) ==
    /\ \/ job[i].step = "bad" /\ Job(i, "pulled") /\ images' = Without(images, i)
          /\ UNCHANGED original
       \/ job[i].step = "pulled" /\ Ended(i, "done") /\ DestroyMaybe(i)
          /\ UNCHANGED images
    /\ UNCHANGED <<task, thumbs, reorder, cleanup, muddled>>

UploadThumb(i) ==
    /\ job[i].step = "fetched"
    /\ thumbs' = thumbs \cup {i}
    /\ Job(i, "thumbed")
    /\ UNCHANGED <<images, task, original, reorder, cleanup, muddled>>

\* images.$.thumbUrl, of the image of that publicId, if it is still there.
SetThumb(i) ==
    /\ job[i].step = "thumbed"
    /\ images' = [k \in DOMAIN images |->
          IF images[k].id = i THEN [images[k] EXCEPT !.thumb = TRUE] ELSE images[k]]
    /\ Ended(i, "done")
    /\ UNCHANGED <<task, original, thumbs, reorder, cleanup, muddled>>

\* Mutant: the failed attempts are not counted.
AttemptFailsForever(i) ==
    /\ Active(i)
    /\ Job(i, "waiting")
    /\ UNCHANGED <<images, task, original, thumbs, reorder, cleanup, muddled>>

\* Anything else throws.  BullMQ runs the job again, up to MaxAttempts times
\* in all, and keeps it as failed after that.
AttemptFails(i) ==
    /\ Active(i)
    /\ IF job[i].failed + 1 >= MaxAttempts THEN Ended(i, "failing")
       ELSE job' = [job EXCEPT ![i].step = "waiting", ![i].failed = @ + 1]
    /\ UNCHANGED <<images, task, original, thumbs, reorder, cleanup, muddled>>

\* handleFailedJob, which nobody waits for, adds the dead letter; Redis may
\* refuse it, and the worker may die first.
File(i) ==
    /\ job[i].step = "failing"
    /\ \E step \in {"dead", "failed"} : Ended(i, step)
    /\ UNCHANGED <<images, task, original, thumbs, reorder, cleanup, muddled>>

\* The worker dies with the job, which is found stalled and run again, as
\* often as MaxStalls allows; then it has failed, with attempts left, so that
\* handleFailedJob does not file it.
Stall(i) ==
    /\ Active(i)
    /\ IF job[i].stalls + 1 > MaxStalls THEN Ended(i, "failed")
       ELSE job' = [job EXCEPT ![i].step = "waiting", ![i].stalls = @ + 1]
    /\ UNCHANGED <<images, task, original, thumbs, reorder, cleanup, muddled>>

-----------------------------------------------------------------------------
(* The weekly clean-up.                                                    *)

\* The originals listResourcesByPrefix lists; thumbnails are passed over.
Assets == {i \in Images : Stored(i)}

StartCleanupOf(S) ==
    /\ cleanup = None
    /\ S # {}
    /\ cleanup' = [age |-> 0, left |-> S, doomed |-> {}]
    /\ UNCHANGED <<images, task, original, thumbs, job, reorder, muddled>>

\* Mutant: an image that was ever attached counts as referenced.
StartCleanupEver == StartCleanupOf({i \in Assets : task[i] \in {"uploaded", "given up"}})

\* getReferencedPublicIds, before the first page of assets is listed.  What
\* is referenced now is passed over by this run, and what is uploaded later
\* is too young for it; a run that finds nothing else changes nothing.
StartCleanup == StartCleanupOf(Assets \ IdsOf(images))

DestroyAssets(S) == original' = [i \in Images |-> IF i \in S THEN None ELSE original[i]]

\* Mutant: the age of the asset is not looked at.
OrphanedAssetsAnyAge(page) == page \cap Assets

\* findOrphanedAssets, of a page of assets that were not referenced.
OrphanedAssets(page) == {i \in page \cap Assets : original[i] = MinAge}

\* The run goes on, or ends with the orphans of its last page.
GoOn(left, doomed) ==
    cleanup' = IF left = {} /\ doomed = {} THEN None
               ELSE [cleanup EXCEPT !.left = left, !.doomed = doomed]

\* A page of assets is listed and judged ...
ListPage(i) ==
    /\ cleanup # None
    /\ cleanup.doomed = {}
    /\ i \in cleanup.left
    /\ \E page \in SUBSET cleanup.left :
         i \in page /\ GoOn(cleanup.left \ page, OrphanedAssets(page))
    /\ UNCHANGED <<images, task, original, thumbs, job, reorder, muddled>>

\* ... and its orphans are destroyed before the next.
DestroyPage ==
    /\ cleanup # None
    /\ cleanup.doomed # {}
    /\ DestroyAssets(cleanup.doomed)
    /\ GoOn(cleanup.left, {})
    /\ UNCHANGED <<images, task, thumbs, job, reorder, muddled>>

\* A call of Cloudinary fails, having destroyed some or none, or the worker
\* dies; the job is not tried again before the next week.
CleanupFails ==
    /\ cleanup # None
    /\ \E S \in SUBSET cleanup.doomed : DestroyAssets(S)
    /\ cleanup' = None
    /\ UNCHANGED <<images, task, thumbs, job, reorder, muddled>>

\* Time passes, as long as nothing takes longer than it may.
Tick ==
    /\ \E i \in Images : Stored(i) /\ original[i] < MinAge
    /\ \A i \in Images : task[i] = "uploaded" => original[i] < AttachWithin
    /\ cleanup # None => cleanup.age < CleanupWithin
    /\ original' = [i \in Images |->
          IF Stored(i) /\ original[i] < MinAge THEN original[i] + 1 ELSE original[i]]
    /\ cleanup' = IF cleanup = None THEN None ELSE [cleanup EXCEPT !.age = @ + 1]
    /\ UNCHANGED <<images, task, thumbs, job, reorder, muddled>>

-----------------------------------------------------------------------------
Owner(i)  == Sign(i) \/ Upload(i) \/ Abandon(i) \/ Attach(i) \/ Enqueue(i) \/ Remove(i)
Worker(i) == Fetch(i) \/ Reject(i) \/ UploadThumb(i) \/ SetThumb(i)
Failure(i) == AttemptFails(i) \/ File(i) \/ Stall(i)

Next ==
    \/ \E i \in Images : Owner(i) \/ Worker(i) \/ Failure(i) \/ ListPage(i)
    \/ ReadOrder \/ WriteOrder \/ StartCleanup \/ DestroyPage \/ CleanupFails \/ Tick

\* A request that has begun is carried on or given up, a job in the queue is
\* run, with whatever outcome, and the clean-up comes round every week.  Any
\* clean-up may fail, but not every one that lists an image before it gets
\* there, nor every one that is to destroy it.
Fairness ==
    /\ \A i \in Images :
        /\ WF_vars(Worker(i) \/ AttemptFails(i) \/ Stall(i))
        /\ WF_vars(File(i))
        /\ WF_vars(Attach(i) \/ Abandon(i))
        /\ WF_vars(Enqueue(i))
        /\ SF_vars(ListPage(i))
        /\ SF_vars(DestroyPage /\ i \in cleanup.doomed)
    /\ WF_vars(WriteOrder)
    /\ WF_vars(StartCleanup)
    /\ WF_vars(Tick)

Spec == Init /\ [][Next]_vars /\ Fairness

-----------------------------------------------------------------------------
(* Properties.                                                             *)

\* A listing has at most MaxImages images, each of them once, however
\* attaches, removals and reorders that hold an old list interleave
\* (listings.ts:502-530, 611-620).
WellFormed(seq) ==
    /\ Len(seq) <= MaxImages
    /\ \A k, l \in DOMAIN seq : seq[k].id = seq[l].id => k = l
ListingWellFormed == WellFormed(images)

\* Every image of the listing has its original at Cloudinary, and its
\* thumbnail once it shows one: removals and rejections take it out first,
\* and the clean-up, which judges by a list it read earlier, spares one
\* attached since.  Only an image that a stale reorder brought back may be
\* without (listings.ts:558-573, orphanCleanup.ts:5-28, 47-67).
AssetsBehindImages ==
    \A i \in Images \ muddled : \A e \in EntriesOf(images, i) :
        Stored(i) /\ (e.thumb => i \in thumbs)

\* An attached image stays until its owner removes it or the worker rejects
\* it; nothing but a reorder that read the images earlier takes it away
\* (listings.ts:479-627, thumbnailProcessor.ts:55-75).
AttachedStays ==
    \A i \in Images \ (muddled \cup BadImages) : task[i] = "attached" => Listed(i)

\* When the job is done its image has a thumbnail or has left the listing,
\* whatever happened in the meantime, so that the page stops polling; only a
\* stale reorder undoes it (thumbnailProcessor.ts:79-92).
DoneMeansShown ==
    \A i \in Images \ muddled :
        job[i].step = "done" => \A e \in EntriesOf(images, i) : e.thumb

-----------------------------------------------------------------------------
(* What the safety properties rest on.                                     *)

\* Until its attach an image is in no list, and has no job.
UnlistedAtFirst ==
    \A i \in Images : task[i] \in {"none", "signed", "uploaded", "given up"} =>
        /\ ~Listed(i)
        /\ reorder # None => i \notin IdsOf(reorder.read)
        /\ job[i].step = "none"

\* A reorder writes what it read.
ReorderSound ==
    reorder # None =>
        /\ WellFormed(reorder.read)
        /\ WellFormed(reorder.write)
        /\ \A i \in Images : EntriesOf(reorder.write, i) = EntriesOf(reorder.read, i)

\* Nothing that is being removed or rejected is listed.
ListedIsAttached ==
    \A i \in Images \ muddled :
        Listed(i) => task[i] = "attached" /\ job[i].step # "pulled"

OnlyBadRejected == \A i \in Images : job[i].step = "bad" => i \in BadImages

\* The worker sets a thumbnail it has uploaded.
ThumbedHasThumb ==
    \A i \in Images \ muddled : Listed(i) /\ job[i].step = "thumbed" => i \in thumbs

\* Nothing is stored before the upload, which is attached, if at all, before
\* it is AttachWithin old ...
UploadsAreYoung ==
    \A i \in Images :
        /\ task[i] \in {"none", "signed"} => original[i] = None
        /\ task[i] = "uploaded" => original[i] \in 0 .. AttachWithin

\* ... so one attached under a clean-up is too young for it.
MissedAreYoung ==
    cleanup # None =>
        \A i \in cleanup.left \ muddled : Listed(i) =>
            original[i] \in 0 .. AttachWithin + cleanup.age

\* What a clean-up is about to destroy can no longer be attached.
DoomedAreOrphans ==
    cleanup # None =>
        \A i \in cleanup.doomed :
            /\ task[i] \notin {"none", "signed", "uploaded"}
            /\ i \notin muddled => ~Listed(i)

IInv ==
    /\ TypeOK
    /\ ListingWellFormed /\ AssetsBehindImages /\ AttachedStays /\ DoneMeansShown
    /\ UnlistedAtFirst /\ ReorderSound /\ ListedIsAttached /\ OnlyBadRejected
    /\ ThumbedHasThumb /\ UploadsAreYoung /\ MissedAreYoung
    /\ DoomedAreOrphans

-----------------------------------------------------------------------------
(* Liveness.                                                               *)

\* A job does not go round for ever: it is done or has failed for good in the
\* end, however attempts fail and workers die.  Only one that ran out of
\* attempts is a dead letter, and only if that could be filed; the others stay
\* among BullMQ's failed jobs (thumbnailQueue.ts:18-24, thumbnailWorker.ts:17-41,
\* 53-55).
JobsEnd ==
    \A i \in Images : job[i].step = "waiting" ~> job[i].step \in {"done", "dead", "failed"}

\* An original no listing shows, because its upload was abandoned, refused
\* or removed and Cloudinary did not destroy it at once, goes in the end,
\* though any clean-up may break off at any page and none is retried
\* (listings.ts:567-569: "the weekly orphan-cleanup job catches it too";
\* orphanCleanup.ts:47-68, cleanupQueue.ts:15-21).
OrphansCollected ==
    \A i \in Images : Stored(i) /\ ~Listed(i) ~> ~Stored(i) \/ Listed(i)
=============================================================================
