--------------------------- MODULE TikTokPublication ---------------------------
(***************************************************************************)
(* A TikTok publication on the phone: the ledger on disk                   *)
(* (mobile/src/tiktok-ledger.ts, tiktok-policy.ts), the client that        *)
(* prepares a task, polls its checkpoint and result files and asks for the *)
(* operator's release (client.ts, tiktok-commit-review.ts), and the AutoJS *)
(* script that drives the app (task-scripts/tiktok_post_v2.js).  Client    *)
(* and script only share files; either may die while the other goes on.    *)
(* A task clicks "Post" at most once by its own control flow, so a post is *)
(* named after the task that made it.                                      *)
(***************************************************************************)
EXTENDS Integers, Sequences, FiniteSets, AdbKeyboard

CONSTANTS
  Publications,   \* publicationIds, each with its own media and caption
  Commercial,     \* those with postSettings and an expectedSha256
  Requests,       \* the requests that may come, [pub, action]
  Reviewed,       \* tiktok.commitReview.required
  MaxTasks,       \* bound: tasks the phone is given
  MaxTroubles,    \* bound: crashes, kills, stops, failed writes and restorations
  None

ASSUME TikTokPublicationAssumption ==
  /\ Commercial \subseteq Publications
  /\ Requests \subseteq [pub : Publications,
                          action : {"publish", "recover", "status"}]
  /\ Reviewed \in BOOLEAN
  /\ MaxTasks \in Nat /\ MaxTroubles \in Nat
  /\ None \notin Publications

Tasks == 1..MaxTasks
NoTask == 0

VARIABLES
  jobs,      \* the tiktok.post tasks received, in order
  next,      \* the first one not started
  client,    \* activeTask, with the ledger instance loaded for it
  disk,      \* publications.json
  script,    \* the AutoJS scripts, orphans included
  file,      \* checkpoint, acknowledgement and result file of each task
  clicked,   \* tasks that activated "Post"
  live,      \* posts visible on the profile
  desk,      \* commit-review/<publication>/<nonce>/, one nonce per task
  locks,     \* commit-review/<publication>.lock
  retrySafe, \* the task answered last, if it was answered so
  process,   \* the client: up, exiting (for 250 ms) or down
  troubles   \* how much may still go wrong

phone == <<jobs, next, client, disk, script, file, clicked, live,
           desk, locks, retrySafe, process, keyboard, troubles>>

Phases == {"PRECHECKED", "EDITOR_READY", "COMMITTING", "SUBMITTED",
           "POST_CONFIRMED", "LINK_CONFIRMED"}
Outcomes == {"PENDING", "SUCCESS", "FAILURE", "PUBLISHED_LINK_PENDING",
             "PUBLISH_OUTCOME_UNKNOWN"}
Counts == 0..MaxTasks

Record ==
  [phase : Phases,
   outcome : Outcomes,
   proof : BOOLEAN,                 \* postSettingsEvidence
   base : SUBSET Tasks,             \* baselinePostIds
   tiles : Counts \cup {None},      \* baselineTileCount
   link : Tasks \cup {None}]        \* canonicalUrl, postId

FreshRecord == [phase |-> "PRECHECKED", outcome |-> "PENDING", proof |-> FALSE,
                base |-> {}, tiles |-> None, link |-> None]

ScriptResult == [published : BOOLEAN, link : Tasks \cup {None}, proof : BOOLEAN,
                 base : SUBSET Tasks, tiles : Counts \cup {None}, safe : BOOLEAN]

\* None is like nothing it stands in for.
ASSUME NoneAssumption ==
  None \notin Record \cup ScriptResult \cup Counts /\ \A S \in SUBSET Tasks : S # None

NoCheckpoint == [phase |-> "none", base |-> {}, tiles |-> None]
NoFile == [checkpoint |-> NoCheckpoint, ack |-> "none", result |-> None]
Asleep == [pc |-> "none", mode |-> "publish", base |-> {}, tiles |-> None,
           proof |-> FALSE]
Idle == [task |-> NoTask, rec |-> None, committed |-> FALSE, seen |-> "none",
         review |-> "none"]

Pub(t) == jobs[t].pub
Committed(r) == r.phase \notin {"PRECHECKED", "EDITOR_READY"}        \* PHASE_ORDER
NeedsReview(t) == Reviewed /\ Pub(t) \in Commercial

Init ==
  /\ jobs = <<>> /\ next = 1 /\ client = Idle
  /\ disk = [p \in Publications |-> None]
  /\ script = [t \in Tasks |-> Asleep] /\ file = [t \in Tasks |-> NoFile]
  /\ clicked = {} /\ live = {}
  /\ desk = [t \in Tasks |-> "none"] /\ locks = {}
  /\ retrySafe = NoTask /\ troubles = MaxTroubles
  /\ process = "up" /\ KeyboardInit

Spend(n) == troubles >= n /\ troubles' = troubles - n
Trouble == Spend(1)

-----------------------------------------------------------------------------
(* The ledger.                                                             *)

\* persist
Save(p, r) == disk' = [disk EXCEPT ![p] = r]

\* advance.  (It refuses to go back; no step here would have it do so.)
Advanced(r, phase) == [r EXCEPT !.phase = phase]

\* setOutcome
Settled(r, outcome) == [r EXCEPT !.outcome = outcome]

\* What a result says of the context; base = None says it has no baseline.
WithContext(r, res) ==
  LET q == [r EXCEPT !.proof = @ \/ res.proof]
  IN  IF res.base = None THEN q
      ELSE [q EXCEPT !.base = res.base,
                     !.tiles = IF res.tiles = None THEN @ ELSE res.tiles]

\* Seeded defect: a post whose link could not be read counts as confirmed.
ApplyResultUnlinked(p, r, res) ==
  LET q == WithContext(r, res)
  IN  IF res.published /\ (p \in Commercial => q.proof)
      THEN [Settled(Advanced(q, "LINK_CONFIRMED"), "SUCCESS") EXCEPT !.link = res.link]
      ELSE Settled(q, IF Committed(q) \/ res.published THEN "PUBLISH_OUTCOME_UNKNOWN"
                      ELSE "FAILURE")

\* applyTikTokScriptResult
ApplyResult(p, r, res) ==
  LET q == WithContext(r, res)
      unproven == res.published /\ p \in Commercial /\ ~q.proof
  IN  CASE res.published /\ res.link # None /\ ~unproven ->
             [Settled(Advanced(q, "LINK_CONFIRMED"), "SUCCESS") EXCEPT !.link = res.link]
        [] res.published /\ res.link = None /\ ~unproven ->
             Settled(Advanced(q, "POST_CONFIRMED"), "PUBLISHED_LINK_PENDING")
        [] unproven \/ (~res.published /\ Committed(q)) ->
             Settled(q, "PUBLISH_OUTCOME_UNKNOWN")
        [] OTHER -> Settled(q, "FAILURE")

\* What recordTikTokFailure hands to it.
Failure(published) ==
  [published |-> published, link |-> None, proof |-> FALSE, base |-> None,
   tiles |-> None, safe |-> FALSE]

\* tikTokPublicationResult's retrySafe: the rest repeats the record.
LedgerAnswer(r) == ~Committed(r) /\ r.outcome # "PUBLISH_OUTCOME_UNKNOWN"

\* sanitizeTikTokResult: a commercial publication is answered from the ledger,
\* any other repeats what its script says.
ResultAnswer(p, r, res) == IF p \in Commercial THEN LedgerAnswer(r) ELSE res.safe

Answer(t, a) == retrySafe' = IF a THEN t ELSE NoTask

-----------------------------------------------------------------------------
(* Preparing a task.                                                       *)

Send(q) == Len(jobs) < MaxTasks /\ jobs' = Append(jobs, q)

\* The queue being the executor's, a task is requested when its turn has come.
Request(q) ==
  /\ process # "down" /\ client.task = NoTask /\ next > Len(jobs)
  /\ Send(q)
  /\ UNCHANGED <<next, client, disk, script, file, clicked, live,
                 desk, locks, retrySafe, process, keyboard, troubles>>

\* Seeded defect: an attempt with an unknown outcome is simply tried again.
DecisionRetryingUnknown(p, a) ==
  LET r == disk[p]
  IN  IF a # "publish" /\ r = None THEN "REJECT"
      ELSE IF a = "status" THEN "STATUS"
      ELSE IF r # None /\ r.phase = "LINK_CONFIRMED" THEN "CACHED"
      ELSE IF a = "recover" THEN "RECOVER"
      ELSE IF r = None THEN "NEW"
      ELSE IF r.outcome = "PUBLISH_OUTCOME_UNKNOWN" THEN "RESUME"
      ELSE IF Committed(r) THEN "RECOVER"
      ELSE IF r.proof THEN "REJECT" ELSE "RESUME"

\* prepareTikTokTask
Decision(p, a) ==
  LET r == disk[p]
  IN  IF a # "publish" /\ r = None THEN "REJECT"          \* NOT_FOUND
      ELSE IF a = "status" THEN "STATUS"
      ELSE IF r # None /\ r.phase = "LINK_CONFIRMED" THEN "CACHED"
      ELSE IF a = "recover" THEN "RECOVER"
      ELSE IF r = None THEN "NEW"
      ELSE IF Committed(r) THEN "RECOVER"
      ELSE IF r.proof THEN "REJECT"              \* POST_SETTINGS_REVIEW_REQUIRED
      ELSE IF p \in Commercial /\ r.outcome = "PUBLISH_OUTCOME_UNKNOWN" THEN "RECOVER"
      ELSE "RESUME"

\* inspectMediaCandidates: the media are gone or changed, at any time.
MediaRefused(a) == a = "publish"

\* The limits on posting and on using media and a caption again.  They depend on
\* the time, and hold for a publication that is new.
TooSoon(p, a) == a = "publish" /\ disk[p] = None

Waiting == process # "down" /\ client.task = NoTask /\ next <= Len(jobs)

\* The task needs no script: it is refused, or answered from the ledger.
AnswerAtOnce ==
  /\ Waiting
  /\ LET p == Pub(next)
         d == Decision(p, jobs[next].action)
     IN  \/ /\ d = "REJECT" \/ MediaRefused(jobs[next].action) \/ TooSoon(p, jobs[next].action)
            /\ Answer(next, FALSE)
         \/ d \in {"STATUS", "CACHED"}
            /\ Answer(next, LedgerAnswer(disk[p]))
  /\ next' = next + 1
  /\ UNCHANGED <<jobs, client, disk, script, file, clicked, live,
                 desk, locks, process, keyboard, troubles>>

\* The task becomes the active one; a new publication is recorded first.
PrepareTask ==
  /\ Waiting
  /\ LET p == Pub(next)
         d == Decision(p, jobs[next].action)
         r == IF d = "NEW" THEN FreshRecord ELSE disk[p]
     IN  /\ d \in {"NEW", "RESUME", "RECOVER"}
         /\ client' = [Idle EXCEPT !.task = next, !.rec = r]
         /\ script' = [script EXCEPT ![next] =
                         [Asleep EXCEPT !.mode = IF d = "RECOVER" THEN "recover"
                                                 ELSE "publish"]]
         /\ IF d = "NEW" THEN Save(p, r) ELSE UNCHANGED disk
  /\ next' = next + 1 /\ retrySafe' = NoTask
  /\ UNCHANGED <<jobs, file, clicked, live, desk, locks, process, keyboard,
                 troubles>>

Active(t) == client.task = t /\ t # NoTask

Preparing(t) == Active(t) /\ script[t].pc = "none"
PreparingOnly == UNCHANGED <<jobs, next, file, clicked, live, desk, locks>>

\* Seeded defect: what an interrupted activation left is not restored first.
ActivateOver(t) ==
  /\ Preparing(t) /\ script[t].mode = "publish" /\ ~InUse(keyboard)
  /\ keyboard' = Activating(keyboard)[4]
  /\ PreparingOnly /\ UNCHANGED <<client, disk, script, retrySafe, process, troubles>>

\* The network has been attested and TikTok reset: a task that publishes gets
\* the trusted input method.
ActivateKeyboard(t) ==
  /\ Preparing(t) /\ script[t].mode = "publish" /\ ~InUse(keyboard)
  /\ keyboard' = Activating(Restored(keyboard))[4]
  /\ PreparingOnly /\ UNCHANGED <<client, disk, script, retrySafe, process, troubles>>

\* buildScriptParams: a recovery is given what the ledger knows.
Started(t) ==
  LET known == script[t].mode = "recover"
  IN  [pc |-> "starting", mode |-> script[t].mode,
       base |-> IF known THEN client.rec.base ELSE {},
       tiles |-> IF known THEN client.rec.tiles ELSE None,
       proof |-> known /\ client.rec.proof]

\* AutoJS is ready and the script on its way.
LaunchScript(t) ==
  /\ Preparing(t)
  /\ script[t].mode = "publish" => InUse(keyboard)
  /\ script' = [script EXCEPT ![t] = Started(t)]
  /\ PreparingOnly /\ UNCHANGED <<client, disk, retrySafe, process, keyboard, troubles>>

\* The input method is given back; when that fails the client exits.
GiveBack(k) ==
  \/ keyboard' = Restored(k) /\ UNCHANGED <<process, troubles>>
  \/ keyboard' \in HalfRestored(k) /\ process' = "exiting" /\ Trouble

\* A step of the preparation fails: the ledger records it, the task is answered
\* and is no longer the active one, also while the client waits to exit.
PreparationFails(t) ==
  /\ Preparing(t)
  /\ LET r == ApplyResult(Pub(t), client.rec, Failure(FALSE))
     IN  /\ Save(Pub(t), r)
         /\ \E safe \in {LedgerAnswer(r), FALSE} : Answer(t, safe)
  /\ IF InUse(keyboard) THEN GiveBack(keyboard)
     ELSE \/ UNCHANGED <<keyboard, process, troubles>>
          \/ /\ script[t].mode = "publish"
             /\ \E i \in 1..4 : GiveBack(Activating(Restored(keyboard))[i])
  /\ client' = Idle
  /\ PreparingOnly /\ UNCHANGED script

\* The end of the active task t: a review that still waits is aborted, the input
\* method given back and its files removed.  When the input method cannot be
\* given back the client exits; the files that stay are not read again.
\* It is also told how many things have failed before.
CleanUp(t, failures) ==
  /\ client' = Idle
  /\ file' = [file EXCEPT ![t] = NoFile]
  /\ \/ Restore /\ UNCHANGED process /\ Spend(failures)
     \/ keyboard' \in HalfRestored(keyboard) /\ process' = "down" /\ Spend(failures + 1)
  /\ IF client.review = "waiting"
     THEN desk' = [desk EXCEPT ![t] = "held"] /\ locks' = locks \ {Pub(t)}
     ELSE UNCHANGED <<desk, locks>>

-----------------------------------------------------------------------------
(* The script, task-scripts/tiktok_post_v2.js.                             *)

\* writeCheckpoint; the client polls it whatever becomes of the script.
Writes(t, phase) ==
  file' = [file EXCEPT ![t].checkpoint =
             [phase |-> phase, base |-> script[t].base, tiles |-> script[t].tiles]]

ScriptOnly == UNCHANGED <<jobs, next, client, disk, live, desk, locks,
                          retrySafe, process, keyboard>>

\* The script writes its result and ends.  (What an orphan has written is not
\* read again, and is left out once it has ended.)
Ends(t, published, link, base, tiles, safe) ==
  /\ file' = IF client.task = t
             THEN [file EXCEPT ![t].result =
                     [published |-> published, link |-> link,
                      proof |-> script[t].proof, base |-> base, tiles |-> tiles,
                      safe |-> safe]]
             ELSE [file EXCEPT ![t] = NoFile]
  /\ script' = [script EXCEPT ![t] = [Asleep EXCEPT !.pc = "over"]]

\* A step that only brings the script on.
Advance(t, from, to) ==
  /\ script[t].pc = from
  /\ script' = [script EXCEPT ![t].pc = to]
  /\ ScriptOnly /\ UNCHANGED <<clicked, file, troubles>>

\* The chosen media and caption are those of the request, and readable.
PrepareContent(t) ==
  script[t].mode = "publish" /\ Advance(t, "starting", "ready")

\* loadRecoveryContext: what the ledger knows of the publication.
LoadRecoveryContext(t) ==
  script[t].mode = "recover" /\ Advance(t, "starting", "ready")

\* TikTok shows the profile of the expected account.
VerifyAccount(t) ==
  Advance(t, "ready", IF script[t].mode = "recover" THEN "locating" ELSE "profile")

\* captureBaselinePostIds: every post in sight is opened and named.
CaptureBaseline(t) ==
  /\ script[t].pc = "profile"
  /\ script' = [script EXCEPT ![t].pc = "captured", ![t].base = live,
                  ![t].tiles = Cardinality(live)]
  /\ ScriptOnly /\ UNCHANGED <<clicked, file, troubles>>

\* The verified file is shared with TikTok, up to the caption editor.
OpenEditor(t) == Advance(t, "captured", "editor")

\* enterAndVerifyCaption
EnterCaption(t) == Advance(t, "editor", "captioned")

\* The settings of a commercial publication are made and read back, once.
ApplySettings(t) ==
  /\ script[t].pc = "captioned"
  /\ script' = [script EXCEPT ![t].pc = "awaitEditor",
                  ![t].proof = Pub(t) \in Commercial]
  /\ Writes(t, "EDITOR_READY")
  /\ ScriptOnly /\ UNCHANGED <<clicked, troubles>>

\* Acknowledged, with the settings read again and time enough left.
AskToCommit(t) ==
  /\ script[t].pc = "awaitEditor"
  /\ file[t].ack = "EDITOR_READY"
  /\ script' = [script EXCEPT ![t].pc = "awaitCommit"]
  /\ Writes(t, "COMMITTING")
  /\ ScriptOnly /\ UNCHANGED <<clicked, troubles>>

\* Seeded defect: any acknowledgement lets the script go on.
ClickOnAnyAck(t) ==
  /\ script[t].pc = "awaitCommit"
  /\ file[t].ack # "none"
  /\ clicked' = clicked \cup {t}
  /\ script' = [script EXCEPT ![t].pc = "submitted"]
  /\ ScriptOnly /\ UNCHANGED <<file, troubles>>

\* Acknowledged, with the reviewed draft unchanged: "Post" is activated.
Click(t) ==
  /\ script[t].pc = "awaitCommit"
  /\ file[t].ack = "COMMITTING"
  /\ clicked' = clicked \cup {t}
  /\ script' = [script EXCEPT ![t].pc = "submitted"]
  /\ ScriptOnly /\ UNCHANGED <<file, troubles>>

ReportSubmitted(t) ==
  /\ script[t].pc = "submitted"
  /\ script' = [script EXCEPT ![t].pc = "uploading"]
  /\ Writes(t, "SUBMITTED")
  /\ ScriptOnly /\ UNCHANGED <<clicked, troubles>>

\* The upload has left the editor; the profile is opened and refreshed.
WaitForSubmission(t) == Advance(t, "uploading", "locating")

\* What is on the profile and was not there before.
Candidates(t) == live \ script[t].base

Reports(t, published, link) ==
  Ends(t, published, link, script[t].base, script[t].tiles, FALSE)

\* The one candidate has a readable link, which is taken for the publication's.
FindsLink(t) ==
  \E post \in Candidates(t) : Candidates(t) = {post} /\ Reports(t, TRUE, post)

\* Its link stays unreadable, but its content is recognised.
FindsPost(t) ==
  \E post \in Candidates(t) :
    Candidates(t) = {post} /\ Pub(post) = Pub(t) /\ Reports(t, TRUE, None)

\* findPublicationPost, on a complete baseline; more candidates are ambiguous.
Locate(t) ==
  /\ script[t].pc = "locating"
  /\ script[t].tiles # None
  /\ Cardinality(script[t].base) >= script[t].tiles
  /\ FindsLink(t) \/ FindsPost(t) \/ Reports(t, FALSE, None)
  /\ ScriptOnly /\ UNCHANGED <<clicked, troubles>>

PastCommit == {"awaitCommit", "submitted", "uploading", "locating"}

\* A step of the script throws: a challenge, a missing control, a deadline, an
\* acknowledgement that does not come.  buildResult reports the baseline the
\* script holds at that moment: none yet before it has read the profile
\* (publish) or its context (recover).
ScriptFails(t) ==
  /\ script[t].pc \notin {"none", "over"}
  /\ LET early == script[t].pc = "starting"
     IN  Ends(t, FALSE, None, IF early THEN {} ELSE script[t].base,
              IF early THEN None ELSE script[t].tiles,
              script[t].mode = "publish" /\ script[t].pc \notin PastCommit)
  /\ ScriptOnly /\ UNCHANGED <<clicked, troubles>>

\* Android kills the engine: no result will come.
ScriptKilled(t) ==
  /\ script[t].pc \notin {"none", "over"}
  /\ Trouble
  /\ script' = [script EXCEPT ![t] = [Asleep EXCEPT !.pc = "over"]]
  /\ file' = IF client.task = t THEN file ELSE [file EXCEPT ![t] = NoFile]
  /\ ScriptOnly /\ UNCHANGED clicked

\* A post shows up on the profile, some time after the click or never.
PostAppears(t) ==
  /\ t \in clicked \ live
  /\ live' = live \cup {t}
  /\ UNCHANGED <<jobs, next, client, disk, script, file, clicked,
                 desk, locks, retrySafe, process, keyboard, troubles>>

-----------------------------------------------------------------------------
(* The client's poll of the files of its active task.                      *)

PollOnly == UNCHANGED <<jobs, next, script, clicked, live>>
ClientOnly == PollOnly /\ UNCHANGED <<process, keyboard>>

\* EDITOR_READY: the settings evidence is saved before the acknowledgement.
PollEditor(t) ==
  /\ Active(t)
  /\ file[t].checkpoint.phase = "EDITOR_READY" /\ client.seen = "none"
  /\ LET r == [client.rec EXCEPT !.proof = Pub(t) \in Commercial]
     IN  /\ client' = [client EXCEPT !.rec = r, !.seen = "EDITOR_READY"]
         /\ Save(Pub(t), r)
  /\ file' = [file EXCEPT ![t].ack = "EDITOR_READY"]
  /\ ClientOnly /\ UNCHANGED <<desk, locks, retrySafe, troubles>>

\* The record a COMMITTING or SUBMITTED checkpoint of task t leads to.
Marked(t, phase) ==
  [Settled(Advanced(client.rec, phase), "PENDING") EXCEPT
     !.base = file[t].checkpoint.base, !.tiles = file[t].checkpoint.tiles]

\* Seeded defect: the checkpoint is acknowledged, then recorded.
PollCommittingAckFirst(t) ==
  /\ Active(t)
  /\ file[t].checkpoint.phase = "COMMITTING" /\ client.seen # "COMMITTING"
  /\ client.review \in {"none", "approved"}
  /\ UNCHANGED disk
  /\ client' = [client EXCEPT !.committed = TRUE, !.seen = "COMMITTING"]
  /\ file' = [file EXCEPT ![t].ack = "COMMITTING"]
  /\ ClientOnly /\ UNCHANGED <<desk, locks, retrySafe, troubles>>

\* The local review begins, unless the lock is held: pending.json is written.
BeginReview(t, c) ==
  /\ client' = [c EXCEPT !.review = IF Pub(t) \in locks THEN "rejected" ELSE "waiting"]
  /\ desk' = [desk EXCEPT ![t] = IF Pub(t) \in locks THEN @ ELSE "pending"]
  /\ locks' = locks \cup {Pub(t)}

\* COMMITTING: the baseline and the phase are persisted; then the script is let
\* through at once, or the draft is reviewed.  A write that fails leaves the
\* phase in memory only; the next poll repeats it.
PollCommitting(t) ==
  /\ Active(t)
  /\ file[t].checkpoint.phase = "COMMITTING" /\ client.seen # "COMMITTING"
  /\ client.review = "none"
  /\ LET r == Marked(t, "COMMITTING")
         c == [client EXCEPT !.committed = TRUE, !.rec = r]
     IN  \/ /\ ~NeedsReview(t)
            /\ Save(Pub(t), r)
            /\ client' = [c EXCEPT !.seen = "COMMITTING"]
            /\ file' = [file EXCEPT ![t].ack = "COMMITTING"]
            /\ UNCHANGED <<desk, locks, troubles>>
         \/ /\ NeedsReview(t)
            /\ Save(Pub(t), r)
            /\ BeginReview(t, c)
            /\ UNCHANGED <<file, troubles>>
         \/ /\ Trouble
            /\ client' = c
            /\ UNCHANGED <<disk, file, desk, locks>>
  /\ ClientOnly /\ UNCHANGED retrySafe

\* The operator writes release.json for a pending request, at any time.
OperatorReleases(t) ==
  /\ desk[t] = "pending"
  /\ desk' = [desk EXCEPT ![t] = "released"]
  /\ UNCHANGED <<jobs, next, client, disk, script, file, clicked,
                 live, locks, retrySafe, process, keyboard, troubles>>

\* The release is claimed by renaming it, journaled, and the lock given up.
ConsumeRelease(t) ==
  /\ Active(t) /\ client.review = "waiting"
  /\ desk[t] = "released"
  /\ desk' = [desk EXCEPT ![t] = "consumed"]
  /\ locks' = locks \ {Pub(t)}
  /\ client' = [client EXCEPT !.review = "approved"]
  /\ ClientOnly /\ UNCHANGED <<disk, file, retrySafe, troubles>>

\* No valid release in time.
ReviewExpires(t) ==
  /\ Active(t) /\ client.review = "waiting"
  /\ desk' = [desk EXCEPT ![t] = "held"]
  /\ locks' = locks \ {Pub(t)}
  /\ client' = [client EXCEPT !.review = "rejected"]
  /\ ClientOnly /\ UNCHANGED <<disk, file, retrySafe, troubles>>

\* The review has returned and its task is still the current one.
AckReviewed(t) ==
  /\ Active(t) /\ client.review = "approved" /\ client.seen # "COMMITTING"
  /\ file[t].checkpoint.phase = "COMMITTING"
  /\ client' = [client EXCEPT !.seen = "COMMITTING"]
  /\ file' = [file EXCEPT ![t].ack = "COMMITTING"]
  /\ ClientOnly /\ UNCHANGED <<disk, desk, locks, retrySafe, troubles>>

PollSubmitted(t) ==
  /\ Active(t)
  /\ file[t].checkpoint.phase = "SUBMITTED" /\ client.seen # "SUBMITTED"
  /\ LET r == Marked(t, "SUBMITTED")
     IN  /\ client' = [client EXCEPT !.rec = r, !.seen = "SUBMITTED"]
         /\ Save(Pub(t), r)
  /\ file' = [file EXCEPT ![t].ack = "SUBMITTED"]
  /\ ClientOnly /\ UNCHANGED <<desk, locks, retrySafe, troubles>>

\* The result is merged into the ledger and answered, also while a review
\* still holds up the last checkpoint.  If the ledger cannot be
\* written for three seconds the task is answered without it.
PollResult(t) ==
  /\ Active(t)
  /\ file[t].result # None
  /\ LET r == ApplyResult(Pub(t), client.rec, file[t].result)
     IN  \/ /\ Save(Pub(t), r)
            /\ Answer(t, ResultAnswer(Pub(t), r, file[t].result))
            /\ CleanUp(t, 0)
         \/ /\ UNCHANGED disk
            /\ Answer(t, FALSE)
            /\ CleanUp(t, 1)
  /\ PollOnly

-----------------------------------------------------------------------------
(* Stops, crashes, the passing of time.                                    *)

\* A timeout, a preemption or a forced deployment ends the script and records a
\* failure; an operator's cancellation records "published" once the commit
\* boundary has been seen.
StopTask(t) ==
  /\ Active(t)
  /\ script[t].pc # "none"
  /\ script' = [script EXCEPT ![t] = [Asleep EXCEPT !.pc = "over"]]
  /\ \E cancelled \in BOOLEAN :
       LET r == ApplyResult(Pub(t), client.rec,
                            Failure(cancelled /\ client.committed))
       IN  /\ Save(Pub(t), r)
           /\ Answer(t, IF cancelled THEN ~client.committed
                        ELSE client.committed /\ LedgerAnswer(r))
  /\ CleanUp(t, 1)
  /\ UNCHANGED <<jobs, next, clicked, live>>

\* The client dies with a task, or exits as it had decided.  The script, its
\* files and the lock of a review stay behind, and what an activation of the
\* input method had done.
Crash ==
  /\ \/ process = "up" /\ client.task # NoTask /\ Trouble
     \/ process = "exiting" /\ UNCHANGED troubles
  /\ process' = "down" /\ client' = Idle
  /\ file' = [t \in Tasks |-> IF script[t].pc = "over" THEN NoFile ELSE file[t]]
  /\ keyboard' \in
       {keyboard} \cup
       (IF \E t \in Tasks : Preparing(t) /\ script[t].mode = "publish" /\ ~InUse(keyboard)
        THEN {Activating(Restored(keyboard))[i] : i \in 1..4} ELSE {})
  /\ UNCHANGED <<jobs, next, disk, script, clicked, live, desk,
                 locks, retrySafe>>

\* It is started again and knows the ledger, not the task; no task is taken
\* before the input method is back.
StartUp ==
  /\ process = "down"
  /\ \/ Restore /\ process' = "up" /\ UNCHANGED troubles
     \/ keyboard' \in HalfRestored(keyboard) /\ UNCHANGED process /\ Trouble
  /\ UNCHANGED <<jobs, next, client, disk, script, file, clicked, live, desk,
                 locks, retrySafe>>

PhoneStep ==
  \/ AnswerAtOnce \/ PrepareTask \/ Crash \/ StartUp
  \/ \E t \in Tasks :
       \/ ActivateKeyboard(t) \/ LaunchScript(t) \/ PreparationFails(t)
       \/ PrepareContent(t) \/ LoadRecoveryContext(t) \/ VerifyAccount(t)
       \/ CaptureBaseline(t) \/ OpenEditor(t) \/ EnterCaption(t)
       \/ ApplySettings(t) \/ AskToCommit(t) \/ Click(t) \/ ReportSubmitted(t)
       \/ WaitForSubmission(t) \/ Locate(t) \/ ScriptFails(t) \/ ScriptKilled(t) \/ PostAppears(t)
       \/ PollEditor(t) \/ PollCommitting(t) \/ PollSubmitted(t)
       \/ OperatorReleases(t) \/ ConsumeRelease(t) \/ ReviewExpires(t)
       \/ AckReviewed(t) \/ PollResult(t) \/ StopTask(t)

Next == PhoneStep \/ \E q \in Requests : Request(q)

Spec == Init /\ [][Next]_phone

-----------------------------------------------------------------------------
(* Properties.                                                             *)

\* The variables hold what they are declared to hold; a publication is a
\* success on disk when its link is confirmed, and only then.
TypeOK ==
  /\ jobs \in Seq(Requests)
  /\ next \in 1..(MaxTasks + 1)
  /\ client.task \in Tasks \cup {NoTask}
  /\ disk \in [Publications -> Record \cup {None}]
  /\ \A p \in Publications :
       disk[p] # None =>
         /\ disk[p].link # None <=> disk[p].phase = "LINK_CONFIRMED"
         /\ disk[p].link # None <=> disk[p].outcome = "SUCCESS"
  /\ \A t \in Tasks : file[t].result \in ScriptResult \cup {None}
  /\ clicked \subseteq Tasks /\ live \subseteq clicked
  /\ locks \subseteq Publications /\ retrySafe \in Tasks \cup {NoTask}
  /\ process \in {"up", "exiting", "down"} /\ keyboard \in Keyboards
  /\ troubles \in 0..MaxTroubles

\* A publication is posted at most once, however often it is requested,
\* recovered or stopped, and whatever dies in between.
AtMostOnce ==
  \A t, u \in clicked : Pub(t) = Pub(u) => t = u

\* Once "Post" has been activated the ledger on disk says so, with the settings
\* evidence a commercial publication needs, and a post is never part of the
\* baseline that is to tell it from older ones.
CommitRecorded ==
  \A t \in clicked :
    LET r == disk[Pub(t)]
    IN  /\ r # None /\ Committed(r)
        /\ Pub(t) \in Commercial => r.proof
        /\ t \notin r.base

\* With the local review required, a commercial draft is only posted on the
\* release given for that very draft, and the release is used up.
ClickNeedsRelease ==
  \A t \in clicked : NeedsReview(t) => desk[t] = "consumed"

\* A client that waits for work has left the phone as its user had it, however
\* many activations of the input method were interrupted before; only one that is
\* about to exit may not have.
KeyboardRestored ==
  process = "up" /\ client.task = NoTask =>
    keyboard = [now |-> Untouched, saved |-> NotSaved]

\* A task answered retrySafe has not posted; a status answered retrySafe says the
\* same of every earlier task of its publication.
RetrySafeTruthful ==
  retrySafe # NoTask =>
    /\ retrySafe \notin clicked
    /\ jobs[retrySafe].action = "status" =>
         \A u \in clicked : Pub(u) = Pub(retrySafe) => u > retrySafe

\* The link recorded for a publication leads to the post of that publication:
\* it is not guessed from what is newest on the profile.
LinkIsOwn ==
  \A p \in Publications :
    disk[p] # None /\ disk[p].link # None => Pub(disk[p].link) = p

\* The baseline recorded when a publication commits stays with it, so that it
\* can still be recovered.
BaselineKept ==
  [][\A p \in Publications :
       disk[p] # None /\ Committed(disk[p]) => disk'[p].base = disk[p].base]_phone

=============================================================================
