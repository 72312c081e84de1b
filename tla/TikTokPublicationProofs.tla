------------------------ MODULE TikTokPublicationProofs ------------------------
(***************************************************************************)
(* Safety of a publication for any publications, requests, number of tasks *)
(* and number of failures: nothing is posted twice, the ledger knows of    *)
(* every post, a reviewed draft is posted on its own release only, and the *)
(* user's input method comes back.                                         *)
(***************************************************************************)
EXTENDS TikTokPublication, FiniteSetTheorems, TLAPS

Pcs == {"none", "starting", "ready", "profile", "captured", "editor", "captioned",
        "awaitEditor", "awaitCommit", "submitted", "uploading", "locating", "over"}
Publishing == {"profile", "captured", "editor", "captioned", "awaitEditor",
               "awaitCommit", "submitted", "uploading"}

Script == [pc : Pcs, mode : {"publish", "recover"}, base : SUBSET Tasks,
           tiles : Counts \cup {None}, proof : BOOLEAN]
Checkpoint == [phase : {"none", "EDITOR_READY", "COMMITTING", "SUBMITTED"},
               base : SUBSET Tasks, tiles : Counts \cup {None}]
Acks == {"none", "EDITOR_READY", "COMMITTING", "SUBMITTED"}
File == [checkpoint : Checkpoint, ack : Acks, result : ScriptResult \cup {None}]
Client == [task : Tasks \cup {NoTask}, rec : Record \cup {None},
           committed : BOOLEAN, seen : Acks,
           review : {"none", "waiting", "approved", "rejected"}]

\* Every variable, client, scripts and files included, keeps its type.
Typed ==
  /\ jobs \in Seq(Requests) /\ Len(jobs) <= MaxTasks
  /\ next \in 1..(Len(jobs) + 1)
  /\ client \in Client
  /\ disk \in [Publications -> Record \cup {None}]
  /\ script \in [Tasks -> Script] /\ file \in [Tasks -> File]
  /\ clicked \subseteq Tasks /\ live \subseteq clicked
  /\ desk \in [Tasks -> {"none", "pending", "released", "consumed", "held"}]
  /\ locks \subseteq Publications /\ retrySafe \in Tasks \cup {NoTask}
  /\ process \in {"up", "exiting", "down"} /\ troubles \in 0..MaxTroubles

\* Tasks are started in the order of their numbers; a task to come has left no trace.
InTurn ==
  /\ client.task # NoTask => next = client.task + 1
  /\ \A t \in Tasks : t >= next =>
       script[t] = Asleep /\ file[t] = NoFile /\ t \notin clicked /\ desk[t] = "none"

\* How far a script has come, and what it has been told on the way.
Course(t) ==
  /\ script[t].pc \in Publishing => script[t].mode = "publish"
  /\ t \in clicked => script[t].pc \in {"submitted", "uploading", "locating", "over"}
  /\ script[t].pc \in {"awaitCommit", "submitted", "uploading"} => file[t].ack # "none"
  /\ file[t].checkpoint.phase \in {"COMMITTING", "SUBMITTED"} => file[t].ack # "none"
  /\ file[t].result # None => script[t].pc = "over"

ScriptCourse == \A t \in Tasks : Course(t)

\* The script of t has posted, or has nothing left to wait for before it does.
LetThrough(t) ==
  \/ t \in clicked
  \/ script[t].pc = "awaitCommit" /\ file[t].ack = "COMMITTING"

\* r shows the commitment a post of p needs.
Backs(r, p) == r # None /\ Committed(r) /\ (p \in Commercial => r.proof)

\* The record in memory is never behind the one on disk, and the review has
\* begun after the commitment was written.
RecordAhead ==
  client.task # NoTask =>
    LET p == Pub(client.task)
        r == client.rec
        d == disk[p]
    IN  /\ r # None /\ r.phase # "LINK_CONFIRMED" /\ r.outcome # "SUCCESS"
        /\ r.link = None
        /\ d # None
        /\ Committed(d) => Committed(r)
        /\ p \in Commercial /\ (d.proof \/ file[client.task].ack # "none") => r.proof
        /\ client.review \in {"waiting", "approved"} => Backs(d, p)

\* A publication is linked on disk when it is a success, and only then.
DiskLinked ==
  \A p \in Publications : disk[p] # None =>
    /\ disk[p].link # None <=> disk[p].phase = "LINK_CONFIRMED"
    /\ disk[p].link # None <=> disk[p].outcome = "SUCCESS"

\* Who is let through is covered by the ledger, and is alone.
Covered == \A t \in Tasks : LetThrough(t) => Backs(disk[Pub(t)], Pub(t))
Alone ==
  /\ \A t, u \in Tasks : LetThrough(t) /\ LetThrough(u) /\ Pub(t) = Pub(u) => t = u
  /\ client.task # NoTask /\ script[client.task].mode = "publish"
       /\ script[client.task].pc # "over" =>
       \A t \in Tasks : LetThrough(t) /\ Pub(t) = Pub(client.task) => t = client.task

\* The baselines the active task may still bring to the ledger.
Known ==
  IF client.task = NoTask THEN {}
  ELSE client.rec.base \cup script[client.task].base
       \cup file[client.task].checkpoint.base
       \cup (IF file[client.task].result = None THEN {}
             ELSE file[client.task].result.base)

\* Baselines are of earlier tasks, and never contain the post they are to tell
\* from older ones.
Baselines ==
  /\ \A p \in Publications : disk[p] # None =>
       \A t \in disk[p].base : t < next /\ t # client.task
  /\ \A t \in Known : t < client.task
  /\ \A t \in Tasks : LetThrough(t) =>
       /\ t \notin disk[Pub(t)].base
       /\ client.task # NoTask /\ Pub(client.task) = Pub(t) => t \notin Known

\* Where the review of the active draft stands on the desk; and a release that
\* has let a script through is used up.
Reviews ==
  /\ client.task # NoTask =>
       LET d == desk[client.task] IN
       /\ client.review = "none" => d = "none"
       /\ client.review = "waiting" => d \in {"pending", "released"}
       /\ client.review = "approved" => d = "consumed"
  /\ \A t \in Tasks : LetThrough(t) /\ NeedsReview(t) => desk[t] = "consumed"

Clean == [now |-> Untouched, saved |-> NotSaved]

\* The recovery record says what the user had; without one the user has it.
UserKept(k) ==
  /\ k \in Keyboards
  /\ k.saved \in {NotSaved, Untouched}
  /\ ~HasPendingRecovery(k) => k = Clean

KeyboardSafe ==
  /\ UserKept(keyboard)
  /\ process = "up" => keyboard = Clean \/ (client.task # NoTask /\ InUse(keyboard))

IInv == Typed /\ InTurn /\ ScriptCourse /\ RecordAhead /\ DiskLinked /\ Covered
        /\ Alone /\ Baselines /\ Reviews /\ KeyboardSafe

-----------------------------------------------------------------------------
(* Facts about the data.                                                   *)

LEMMA TaskFacts ==
  /\ Tasks \subseteq Nat /\ NoTask \notin Tasks /\ Counts \subseteq Nat
  /\ \A t \in Tasks : t > NoTask /\ t <= MaxTasks
  BY TikTokPublicationAssumption DEF Tasks, Counts, NoTask

LEMMA CountType ==
  ASSUME NEW S \in SUBSET Tasks
  PROVE  Cardinality(S) \in Counts
<1>1. IsFiniteSet(Tasks) /\ Cardinality(Tasks) = MaxTasks
  BY TikTokPublicationAssumption, FS_Interval DEF Tasks
<1>2. IsFiniteSet(S) /\ Cardinality(S) <= Cardinality(Tasks)
  BY <1>1, FS_Subset
<1>3. Cardinality(S) \in Nat
  BY <1>2, FS_CardinalityType
<1> QED
  BY <1>1, <1>2, <1>3, TikTokPublicationAssumption DEF Counts

\* A result merged into the ledger never loses a commitment or its evidence,
\* and brings no baseline but its own.
LEMMA ApplyResultKeeps ==
  ASSUME NEW p, NEW r \in Record, NEW res,
         r.link = None, r.phase # "LINK_CONFIRMED", r.outcome # "SUCCESS",
         \/ res \in ScriptResult
         \/ \E b \in BOOLEAN : res = Failure(b)
  PROVE  LET q == ApplyResult(p, r, res) IN
         /\ q \in Record
         /\ Committed(r) => Committed(q)
         /\ r.proof => q.proof
         /\ q.base = IF res.base = None THEN r.base ELSE res.base
         /\ q.link # None <=> q.phase = "LINK_CONFIRMED"
         /\ q.link # None <=> q.outcome = "SUCCESS"
<1> DEFINE c == WithContext(r, res)
<1> DEFINE Fields ==
      /\ res.published \in BOOLEAN /\ res.link \in Tasks \cup {None}
      /\ res.proof \in BOOLEAN
      /\ res.base \in (SUBSET Tasks) \cup {None}
      /\ res.base # None => res.tiles \in Counts \cup {None}
<1>1. Fields
  <2>1. CASE res \in ScriptResult
    BY <2>1, NoneAssumption DEF ScriptResult
  <2>2. ASSUME NEW b \in BOOLEAN, res = Failure(b)
        PROVE  Fields
    BY <2>2 DEF Failure
  <2> QED
    BY <2>1, <2>2
<1>2. /\ c \in Record
      /\ c.phase = r.phase /\ c.outcome = r.outcome /\ c.link = None
      /\ r.proof => c.proof
      /\ c.base = IF res.base = None THEN r.base ELSE res.base
  BY <1>1 DEF WithContext, Record
<1> HIDE DEF c
<1>3. \/ ApplyResult(p, r, res) = [Settled(Advanced(c, "LINK_CONFIRMED"), "SUCCESS") EXCEPT !.link = res.link]
         /\ res.link # None
      \/ ApplyResult(p, r, res) = Settled(Advanced(c, "POST_CONFIRMED"), "PUBLISHED_LINK_PENDING")
      \/ ApplyResult(p, r, res) = Settled(c, "PUBLISH_OUTCOME_UNKNOWN")
      \/ ApplyResult(p, r, res) = Settled(c, "FAILURE")
  BY <1>1 DEF ApplyResult, c
<1> QED
  BY <1>1, <1>2, <1>3 DEF Settled, Advanced, Record, Committed, Phases, Outcomes

-----------------------------------------------------------------------------
(* The input method.                                                       *)

Keyboard(default, ime, package, saved) ==
  [now |-> [default |-> default, ime |-> ime, package |-> package], saved |-> saved]

LEMMA KeyboardParts ==
  ASSUME NEW k
  PROVE  k \in Keyboards <=>
         \E d \in {"user", "adb"}, i \in BOOLEAN, p \in BOOLEAN,
            s \in Settings \cup {NotSaved} : k = Keyboard(d, i, p, s)
<1>1. ASSUME k \in Keyboards
      PROVE  \E d \in {"user", "adb"}, i \in BOOLEAN, p \in BOOLEAN,
                s \in Settings \cup {NotSaved} : k = Keyboard(d, i, p, s)
  <2>1. /\ k = [now |-> k.now, saved |-> k.saved]
        /\ k.now \in Settings /\ k.saved \in Settings \cup {NotSaved}
    BY <1>1 DEF Keyboards
  <2>2. /\ k.now = [default |-> k.now.default, ime |-> k.now.ime, package |-> k.now.package]
        /\ k.now.default \in {"user", "adb"} /\ k.now.ime \in BOOLEAN
        /\ k.now.package \in BOOLEAN
    BY <2>1 DEF Settings
  <2> QED
    BY <2>1, <2>2 DEF Keyboard
<1>2. ASSUME NEW d \in {"user", "adb"}, NEW i \in BOOLEAN, NEW p \in BOOLEAN,
             NEW s \in Settings \cup {NotSaved}, k = Keyboard(d, i, p, s)
      PROVE  k \in Keyboards
  <2>1. [default |-> d, ime |-> i, package |-> p] \in Settings
    BY DEF Settings
  <2> QED
    BY <1>2, <2>1 DEF Keyboard, Keyboards
<1> QED
  BY <1>1, <1>2

LEMMA SettingsFacts == Untouched # NotSaved /\ Untouched \in Settings
  <1>1. NotSaved = [default |-> "none", ime |-> FALSE, package |-> FALSE]
    <2>1. PICK u : u = Untouched
      OBVIOUS
    <2>2. NotSaved = [u EXCEPT !.default = "none"]
      BY <2>1 DEF NotSaved
    <2>3. u = [default |-> "user", ime |-> FALSE, package |-> FALSE]
      BY <2>1 DEF Untouched
    <2> QED
      BY <2>2, <2>3
  <1> QED
    BY <1>1 DEF Untouched, Settings

\* What the user had is on record for every state an activation may leave.
LEMMA Kept ==
  ASSUME NEW d \in {"user", "adb"}, NEW i \in BOOLEAN, NEW p \in BOOLEAN
  PROVE  UserKept(Keyboard(d, i, p, Untouched))
<1> DEFINE k == Keyboard(d, i, p, Untouched)
<1>1. k \in Keyboards
  BY KeyboardParts, SettingsFacts
<1>2. k.saved = Untouched
  BY DEF Keyboard
<1>3. PICK h : h = k
  OBVIOUS
<1>4. UserKept(h)
  <2> HIDE DEF k
  <2> QED
    BY <1>1, <1>2, <1>3, SettingsFacts DEF UserKept, HasPendingRecovery
<1> QED
  BY <1>3, <1>4

LEMMA CleanKept == UserKept(Clean) /\ ~InUse(Clean) /\ Clean = Keyboard("user", FALSE, FALSE, NotSaved)
<1>1. Clean = Keyboard("user", FALSE, FALSE, NotSaved)
  BY DEF Clean, Keyboard, Untouched
<1>2. Clean \in Keyboards
  BY <1>1, KeyboardParts
<1>3. ~InUse(Clean)
  BY DEF Clean, Untouched, InUse
<1>4. Clean.saved = NotSaved
  BY DEF Clean
<1> QED
  BY <1>1, <1>2, <1>3, <1>4 DEF UserKept

LEMMA RestoreSteps ==
  ASSUME NEW k, UserKept(k)
  PROVE  /\ Restored(k) = Clean
         /\ \A h \in HalfRestored(k) : UserKept(h)
<1>1. CASE ~HasPendingRecovery(k)
  BY <1>1 DEF Restored, HalfRestored, UserKept
<1>2. CASE HasPendingRecovery(k)
  <2>1. k.saved = Untouched /\ k \in Keyboards
    BY <1>2 DEF UserKept, HasPendingRecovery
  <2>2. PICK d \in {"user", "adb"}, i \in BOOLEAN, p \in BOOLEAN :
          k = Keyboard(d, i, p, Untouched)
    <3>1. PICK d \in {"user", "adb"}, i \in BOOLEAN, p \in BOOLEAN,
               s \in Settings \cup {NotSaved} : k = Keyboard(d, i, p, s)
      BY <2>1, KeyboardParts
    <3>2. k.saved = s
      BY <3>1 DEF Keyboard
    <3> QED
      BY <2>1, <3>1, <3>2
  <2>3. k.saved.default = "user" /\ k.saved.ime = FALSE /\ k.saved.package = FALSE
    BY <2>1 DEF Untouched
  <2>4. PICK typed : typed = [k EXCEPT !.now.default = k.saved.default]
    OBVIOUS
  <2>5. typed = Keyboard("user", i, p, Untouched)
    BY <2>2, <2>3, <2>4 DEF Keyboard
  <2>6. PICK disabled : disabled = [typed EXCEPT !.now.ime = k.saved.ime]
    OBVIOUS
  <2>7. disabled = Keyboard("user", FALSE, p, Untouched)
    BY <2>3, <2>5, <2>6 DEF Keyboard
  <2>8. PICK done : done = [disabled EXCEPT !.now.package = k.saved.package]
    OBVIOUS
  <2>9. done = Keyboard("user", FALSE, FALSE, Untouched)
    BY <2>3, <2>7, <2>8 DEF Keyboard
  <2>10. [done EXCEPT !.saved = NotSaved] = Clean
    <3>1. ASSUME NEW u, NEW s, done = [now |-> u, saved |-> Untouched]
          PROVE  [done EXCEPT !.saved = s] = [now |-> u, saved |-> s]
      BY <3>1
    <3> QED
      BY <2>9, <3>1, CleanKept DEF Keyboard
  <2>11. Restoring(k) = <<k, typed, disabled, done>>
    BY <2>4, <2>6, <2>8 DEF Restoring
  <2>12. UserKept(k) /\ UserKept(typed) /\ UserKept(disabled) /\ UserKept(done)
    BY <2>5, <2>7, <2>9, Kept
  <2>13. HalfRestored(k) \subseteq {k, typed, disabled, done}
    <3> SUFFICES ASSUME NEW j \in 1..4
                 PROVE  <<k, typed, disabled, done>>[j] \in {k, typed, disabled, done}
      BY <1>2, <2>11 DEF HalfRestored
    <3>1. j = 1 \/ j = 2 \/ j = 3 \/ j = 4
      OBVIOUS
    <3> QED
      BY <3>1
  <2>14. Restored(k) = Clean
    BY <1>2, <2>10, <2>11 DEF Restored
  <2> QED
    BY <2>12, <2>13, <2>14
<1> QED
  BY <1>1, <1>2

LEMMA ActivateSteps ==
  /\ \A i \in 1..4 : UserKept(Activating(Clean)[i])
  /\ InUse(Activating(Clean)[4])
<1>1. PICK written : written = [Clean EXCEPT !.saved = Clean.now]
  OBVIOUS
<1>2. written = Keyboard("user", FALSE, FALSE, Untouched)
  <2>1. Clean.now = Untouched
    BY DEF Clean
  <2> QED
    BY <1>1, <2>1, CleanKept DEF Keyboard
<1>3. PICK enabled : enabled = [written EXCEPT !.now.package = TRUE]
  OBVIOUS
<1>4. enabled = Keyboard("user", FALSE, TRUE, Untouched)
  BY <1>2, <1>3 DEF Keyboard
<1>5. PICK usable : usable = [enabled EXCEPT !.now.ime = TRUE]
  OBVIOUS
<1>6. usable = Keyboard("user", TRUE, TRUE, Untouched)
  BY <1>4, <1>5 DEF Keyboard
<1>7. PICK chosen : chosen = [usable EXCEPT !.now.default = "adb"]
  OBVIOUS
<1>8. chosen = Keyboard("adb", TRUE, TRUE, Untouched)
  BY <1>6, <1>7 DEF Keyboard
<1>9. Activating(Clean) = <<written, enabled, usable, chosen>>
  BY <1>1, <1>3, <1>5, <1>7 DEF Activating
<1>10. UserKept(written) /\ UserKept(enabled) /\ UserKept(usable) /\ UserKept(chosen)
  BY <1>2, <1>4, <1>6, <1>8, Kept
<1>11. InUse(chosen)
  BY <1>8 DEF InUse, Keyboard
<1>12. \A i \in 1..4 : i = 1 \/ i = 2 \/ i = 3 \/ i = 4
  OBVIOUS
<1> QED
  BY <1>9, <1>10, <1>11, <1>12

LEMMA InitIInv == Init => IInv
<1> SUFFICES ASSUME Init PROVE IInv
  OBVIOUS
<1> USE TikTokPublicationAssumption, NoneAssumption, TaskFacts DEF Init
<1>1. Asleep \in Script /\ NoFile \in File /\ Idle \in Client
  BY DEF Asleep, Script, Pcs, NoFile, File, NoCheckpoint, Checkpoint, Acks, Idle, Client
<1>2. Typed
  BY <1>1 DEF Typed
<1>3. \A t \in Tasks : ~LetThrough(t)
  BY DEF LetThrough, NoFile
<1>4. client.task = NoTask /\ NoTask < next
  BY DEF Idle, NoTask
<1>5. InTurn /\ ScriptCourse
  BY <1>4 DEF InTurn, ScriptCourse, Course, Asleep, NoFile, NoCheckpoint, Publishing
<1>6. RecordAhead /\ DiskLinked /\ Covered /\ Alone /\ Baselines /\ Reviews
  BY <1>3, <1>4 DEF RecordAhead, DiskLinked, Covered, Alone, Baselines, Reviews, Known
<1>7. KeyboardSafe
  BY DEF KeyboardSafe, UserKept, KeyboardInit, Clean, Keyboards, Settings, Untouched,
         NotSaved, HasPendingRecovery
<1> QED
  BY <1>2, <1>5, <1>6, <1>7 DEF IInv

-----------------------------------------------------------------------------
(* Facts about the states.                                                 *)

LEMMA StateFacts ==
  ASSUME IInv
  PROVE  /\ \A t \in Tasks : t < next => Pub(t) \in Publications /\ t \in 1..Len(jobs)
         /\ \A t \in Tasks : LetThrough(t) => t < next /\ script[t].pc # "none"
         /\ \A t \in Tasks : script[t].pc # "none" => t < next
         /\ next \in Nat /\ next <= MaxTasks + 1
<1> USE TikTokPublicationAssumption, TaskFacts DEF IInv
<1>1. next \in 1..(Len(jobs) + 1) /\ Len(jobs) \in Nat /\ Len(jobs) <= MaxTasks
      /\ \A i \in 1..Len(jobs) : jobs[i] \in Requests
  BY DEF Typed
<1>2. \A t \in Tasks : t < next => Pub(t) \in Publications /\ t \in 1..Len(jobs)
  BY <1>1 DEF Pub, Tasks
<1>3. \A t \in Tasks : script[t].pc # "none" => t < next
  BY <1>1 DEF InTurn, Asleep
<1>4. \A t \in Tasks : LetThrough(t) => script[t].pc # "none"
  BY DEF LetThrough, ScriptCourse, Course
<1>5. next \in Nat /\ next <= MaxTasks + 1
  BY <1>1
<1>6. \A t \in Tasks : LetThrough(t) => t < next /\ script[t].pc # "none"
  BY <1>3, <1>4
<1> QED
  BY <1>2, <1>3, <1>5, <1>6

LEMMA ActiveFacts ==
  ASSUME IInv, NEW t, Active(t)
  PROVE  /\ t \in Tasks /\ next = t + 1 /\ Pub(t) \in Publications /\ client.task = t
         /\ client.rec \in Record /\ client.rec.link = None
         /\ client.rec.phase # "LINK_CONFIRMED" /\ client.rec.outcome # "SUCCESS"
         /\ disk[Pub(t)] \in Record
         /\ script[t] \in Script /\ file[t] \in File
<1> USE DEF IInv, Active
<1>1. t \in Tasks /\ client.task = t /\ client.rec \in Record \cup {None}
      /\ script[t] \in Script /\ file[t] \in File
  BY DEF Typed, Client
<1>2. next = t + 1
  BY <1>1 DEF InTurn
<1>3. Pub(t) \in Publications
  BY <1>1, <1>2, StateFacts, TaskFacts
<1>4. disk[Pub(t)] \in Record \cup {None}
  BY <1>3 DEF Typed
<1> QED
  BY <1>1, <1>2, <1>3, <1>4 DEF RecordAhead

\* A step that leaves the tasks received alone leaves their publications alone.
LEMMA SamePub ==
  ASSUME jobs' = jobs
  PROVE  \A t : Pub(t)' = Pub(t) /\ NeedsReview(t)' = NeedsReview(t)
  BY DEF Pub, NeedsReview

-----------------------------------------------------------------------------
(* What a script does.                                                     *)

\* Running scripts only ever read the world; what one does besides is to post,
\* when it has been let through.
LEMMA ScriptStep ==
  ASSUME IInv, NEW t \in Tasks, script[t].pc \notin {"none", "over"},
         UNCHANGED <<jobs, next, client, disk, live, desk, locks, retrySafe,
                     process, keyboard>>,
         troubles' \in 0..MaxTroubles,
         script' \in [Tasks -> Script], file' \in [Tasks -> File],
         \A u \in Tasks \ {t} : script'[u] = script[u] /\ file'[u] = file[u],
         Course(t)', script'[t].pc # "none",
         clicked' = clicked \/ (clicked' = clicked \cup {t} /\ LetThrough(t)),
         LetThrough(t)' => LetThrough(t),
         client.task = t =>
           /\ file'[t].ack = file[t].ack
           /\ script'[t].mode = "publish" /\ script'[t].pc # "over"
                => script[t].mode = "publish"
           /\ Known' \subseteq Known \cup IF script[t].pc = "profile" THEN live ELSE {}
  PROVE  IInv'
<1> USE TaskFacts, StateFacts DEF IInv
<1>1. t < next
  OBVIOUS
<1>2. \A u \in Tasks : LetThrough(u)' => LetThrough(u)
  BY DEF LetThrough
<1>3. Typed'
  BY DEF Typed
<1>4. InTurn'
  BY <1>1 DEF Typed, InTurn
<1>5. ScriptCourse'
  <2> SUFFICES ASSUME NEW u \in Tasks PROVE Course(u)'
    BY DEF ScriptCourse
  <2>1. CASE u # t
    BY <2>1 DEF ScriptCourse, Course
  <2> QED
    BY <2>1
<1>6. RecordAhead'
  <2>1. client.task # NoTask => file'[client.task].ack = file[client.task].ack
    BY DEF Typed, Client
  <2> QED
    BY <2>1 DEF RecordAhead, Pub, Backs
<1>7. DiskLinked'
  BY DEF DiskLinked
<1>8. Covered'
  BY <1>2, SamePub DEF Covered, Backs
<1>9. Alone'
  <2>1. \A u, v \in Tasks : LetThrough(u)' /\ LetThrough(v)' /\ Pub(u)' = Pub(v)' => u = v
    BY <1>2, SamePub DEF Alone
  <2>2. ASSUME client.task # NoTask, script'[client.task].mode = "publish",
               script'[client.task].pc # "over"
        PROVE  script[client.task].mode = "publish" /\ script[client.task].pc # "over"
    BY <2>2 DEF Typed, Client
  <2>3. ASSUME client.task # NoTask, script'[client.task].mode = "publish",
               script'[client.task].pc # "over", NEW u \in Tasks, LetThrough(u)',
               Pub(u)' = Pub(client.task)'
        PROVE  u = client.task
    BY <1>2, <2>2, <2>3, SamePub DEF Alone
  <2> QED
    BY <2>1, <2>3 DEF Alone
<1>10. Baselines'
  <2>1. Known' \subseteq Known \/ (client.task = t /\ script[t].pc = "profile"
                                   /\ Known' \subseteq Known \cup live)
    <3>1. CASE client.task = t
      BY <3>1
    <3>2. CASE client.task = NoTask
      BY <3>2 DEF Known
    <3>3. CASE client.task \in Tasks \ {t}
      BY <3>3 DEF Known
    <3> QED
      BY <3>1, <3>2, <3>3 DEF Typed, Client
  <2>2. ASSUME client.task = t, script[t].pc = "profile", NEW u \in live
        PROVE  u < client.task
    <3>1. u \in clicked /\ u \in Tasks /\ LetThrough(u) /\ t \notin clicked
      BY <2>2 DEF Typed, LetThrough, ScriptCourse, Course
    <3>2. u < next /\ next = t + 1 /\ u # t
      BY <2>2, <3>1 DEF InTurn
    <3> QED
      BY <2>2, <3>1, <3>2
  <2>3. ASSUME client.task = t, script[t].pc = "profile"
        PROVE  \A u \in Tasks : LetThrough(u) => Pub(u) # Pub(client.task)
    <3>1. ~LetThrough(t) /\ script[t].mode = "publish" /\ client.task # NoTask
      BY <2>3 DEF LetThrough, ScriptCourse, Course, Publishing
    <3> QED
      BY <2>3, <3>1 DEF Alone
  <2>4. \A u \in Known' : u < client.task
    BY <2>1, <2>2 DEF Baselines
  <2>5. ASSUME NEW u \in Tasks, LetThrough(u), client.task # NoTask,
               Pub(client.task) = Pub(u)
        PROVE  u \notin Known'
    BY <2>1, <2>3, <2>5 DEF Baselines
  <2> QED
    BY <1>2, <2>4, <2>5, SamePub DEF Baselines
<1>11. Reviews'
  BY <1>2, SamePub DEF Reviews
<1>12. KeyboardSafe'
  BY DEF KeyboardSafe
<1> QED
  BY <1>3, <1>4, <1>5, <1>6, <1>7, <1>8, <1>9, <1>10, <1>11, <1>12

\* Steps that only bring a script on, and leave its files alone.
LEMMA Advances ==
  ASSUME IInv, NEW t \in Tasks, NEW from, NEW to \in Pcs, Advance(t, from, to),
         from \notin {"none", "over", "awaitCommit"}, to \notin {"none", "awaitCommit"},
         to \in Publishing => script[t].mode = "publish",
         t \in clicked => to \in {"submitted", "uploading", "locating", "over"},
         to \notin {"submitted", "uploading", "over"}, file[t].result = None
  PROVE  IInv'
<1> USE DEF Advance, ScriptOnly
<1>1. script[t] \in Script /\ file[t] \in File /\ script \in [Tasks -> Script]
      /\ file \in [Tasks -> File] /\ troubles \in 0..MaxTroubles
  BY DEF IInv, Typed
<1>2. /\ script'[t] = [script[t] EXCEPT !.pc = to] /\ script'[t] \in Script
      /\ script'[t].mode = script[t].mode /\ script'[t].base = script[t].base
      /\ script'[t].pc = to
  BY <1>1 DEF Script
<1>3. script' \in [Tasks -> Script] /\ \A u \in Tasks \ {t} : script'[u] = script[u]
  BY <1>1, <1>2
<1>4. Course(t)'
  BY <1>2 DEF Course, IInv, ScriptCourse
<1>5. LetThrough(t)' => LetThrough(t)
  BY <1>2 DEF LetThrough
<1>6. client.task = t => Known' \subseteq Known
  BY <1>2, TaskFacts DEF Known
<1> QED
  BY <1>1, <1>2, <1>3, <1>4, <1>5, <1>6, ScriptStep

LEMMA AdvanceActions ==
  ASSUME IInv, NEW t \in Tasks,
         PrepareContent(t) \/ LoadRecoveryContext(t) \/ VerifyAccount(t)
         \/ OpenEditor(t) \/ EnterCaption(t) \/ WaitForSubmission(t)
  PROVE  IInv'
<1>1. Course(t) /\ script[t] \in Script
  BY DEF IInv, ScriptCourse, Typed
<1> USE <1>1 DEF Course, Publishing, Pcs
<1>2. CASE PrepareContent(t)
  <2>1. Advance(t, "starting", "ready") /\ script[t].pc = "starting"
    BY <1>2 DEF PrepareContent, Advance
  <2> QED
    BY <2>1, Advances
<1>3. CASE LoadRecoveryContext(t)
  <2>1. Advance(t, "starting", "ready") /\ script[t].pc = "starting"
    BY <1>3 DEF LoadRecoveryContext, Advance
  <2> QED
    BY <2>1, Advances
<1>4. CASE VerifyAccount(t)
  <2>1. PICK to : /\ to = (IF script[t].mode = "recover" THEN "locating" ELSE "profile")
                  /\ Advance(t, "ready", to) /\ script[t].pc = "ready"
    BY <1>4 DEF VerifyAccount, Advance
  <2>2. to = "locating" \/ (to = "profile" /\ script[t].mode = "publish")
    BY <2>1 DEF Script
  <2> QED
    BY <2>1, <2>2, Advances
<1>5. CASE OpenEditor(t)
  <2>1. Advance(t, "captured", "editor") /\ script[t].pc = "captured"
    BY <1>5 DEF OpenEditor, Advance
  <2> QED
    BY <2>1, Advances
<1>6. CASE EnterCaption(t)
  <2>1. Advance(t, "editor", "captioned") /\ script[t].pc = "editor"
    BY <1>6 DEF EnterCaption, Advance
  <2> QED
    BY <2>1, Advances
<1>7. CASE WaitForSubmission(t)
  <2>1. Advance(t, "uploading", "locating") /\ script[t].pc = "uploading"
    BY <1>7 DEF WaitForSubmission, Advance
  <2> QED
    BY <2>1, Advances
<1> QED
  BY <1>2, <1>3, <1>4, <1>5, <1>6, <1>7

LEMMA CaptureBaselineKeeps ==
  ASSUME IInv, NEW t \in Tasks, CaptureBaseline(t)
  PROVE  IInv'
<1> USE DEF CaptureBaseline, ScriptOnly
<1>1. script[t] \in Script /\ file[t] \in File /\ script \in [Tasks -> Script]
      /\ file \in [Tasks -> File] /\ troubles \in 0..MaxTroubles /\ live \in SUBSET Tasks
  BY DEF IInv, Typed
<1>2. Cardinality(live) \in Counts
  BY <1>1, CountType
<1>3. PICK n : n = Cardinality(live)
  OBVIOUS
<1>4. script' = [script EXCEPT ![t] = [script[t] EXCEPT !.pc = "captured", !.base = live,
                                                      !.tiles = n]]
  BY <1>1, <1>3
<1>5. /\ script'[t] \in Script /\ script'[t].mode = script[t].mode
      /\ script'[t].base = live /\ script'[t].pc = "captured"
  BY <1>1, <1>2, <1>3, <1>4 DEF Script, Pcs
<1>6. script' \in [Tasks -> Script] /\ \A u \in Tasks \ {t} : script'[u] = script[u]
  BY <1>1, <1>4, <1>5
<1>7. Course(t) /\ Course(t)'
  BY <1>5 DEF Course, Publishing, IInv, ScriptCourse
<1>8. LetThrough(t)' => LetThrough(t)
  BY <1>5 DEF LetThrough
<1>9. client.task = t => Known' \subseteq Known \cup live
  BY <1>5, TaskFacts DEF Known
<1> HIDE DEF CaptureBaseline
<1>10. script[t].pc = "profile"
  BY DEF CaptureBaseline
<1>11. UNCHANGED <<jobs, next, client, disk, live, desk, locks, retrySafe, process,
                   keyboard, clicked, file, troubles>>
  BY DEF CaptureBaseline
<1> QED
  BY <1>1, <1>5, <1>6, <1>7, <1>8, <1>9, <1>10, <1>11, ScriptStep

\* Writing a checkpoint leaves what the client has answered in its place.
LEMMA WritesFacts ==
  ASSUME IInv, NEW t \in Tasks, NEW phase \in {"EDITOR_READY", "COMMITTING", "SUBMITTED"},
         Writes(t, phase)
  PROVE  /\ file' \in [Tasks -> File] /\ \A u \in Tasks \ {t} : file'[u] = file[u]
         /\ file'[t].ack = file[t].ack /\ file'[t].result = file[t].result
         /\ file'[t].checkpoint.phase = phase
         /\ file'[t].checkpoint.base = script[t].base
<1>1. script[t] \in Script /\ file[t] \in File /\ file \in [Tasks -> File]
  BY DEF IInv, Typed
<1>2. PICK c : c = [phase |-> phase, base |-> script[t].base, tiles |-> script[t].tiles]
  OBVIOUS
<1>3. c \in Checkpoint /\ c.phase = phase /\ c.base = script[t].base
  BY <1>1, <1>2 DEF Script, Checkpoint
<1>4. file' = [file EXCEPT ![t] = [file[t] EXCEPT !.checkpoint = c]]
  BY <1>1, <1>2 DEF Writes
<1>5. [file[t] EXCEPT !.checkpoint = c] = [checkpoint |-> c, ack |-> file[t].ack,
                                           result |-> file[t].result]
  BY <1>1 DEF File
<1>6. file'[t] = [checkpoint |-> c, ack |-> file[t].ack, result |-> file[t].result]
  BY <1>1, <1>4, <1>5
<1>7. file'[t] \in File
  BY <1>1, <1>3, <1>6 DEF File
<1> QED
  BY <1>1, <1>3, <1>4, <1>6, <1>7

\* The steps that write a checkpoint.
LEMMA CheckpointActions ==
  ASSUME IInv, NEW t \in Tasks,
         ApplySettings(t) \/ AskToCommit(t) \/ ReportSubmitted(t)
  PROVE  IInv'
<1>1. script[t] \in Script /\ file[t] \in File /\ script \in [Tasks -> Script]
      /\ file \in [Tasks -> File] /\ troubles \in 0..MaxTroubles /\ Course(t)
  BY DEF IInv, Typed, ScriptCourse
<1> DEFINE Moves(pc, phase) ==
      /\ script' \in [Tasks -> Script] /\ \A u \in Tasks \ {t} : script'[u] = script[u]
      /\ script'[t].pc = pc /\ script'[t].mode = script[t].mode
      /\ script'[t].base = script[t].base
      /\ Writes(t, phase) /\ phase \in {"EDITOR_READY", "COMMITTING", "SUBMITTED"}
      /\ ScriptOnly /\ UNCHANGED <<clicked, troubles>>
<1>2. \/ script[t].pc = "captioned" /\ Moves("awaitEditor", "EDITOR_READY")
      \/ script[t].pc = "awaitEditor" /\ file[t].ack = "EDITOR_READY"
           /\ Moves("awaitCommit", "COMMITTING")
      \/ script[t].pc = "submitted" /\ Moves("uploading", "SUBMITTED")
  <2>1. CASE ApplySettings(t)
    <3>1. PICK b : b \in BOOLEAN /\ b = (Pub(t) \in Commercial)
      <4>1. (Pub(t) \in Commercial) \in BOOLEAN
        OBVIOUS
      <4> QED
        BY <4>1
    <3>2. script' = [script EXCEPT ![t] = [script[t] EXCEPT !.pc = "awaitEditor",
                                                            !.proof = b]]
      BY <1>1, <2>1, <3>1 DEF ApplySettings
    <3>3. PICK s : s = [script[t] EXCEPT !.pc = "awaitEditor", !.proof = b]
      OBVIOUS
    <3>4. /\ s \in Script /\ s.pc = "awaitEditor" /\ s.mode = script[t].mode
          /\ s.base = script[t].base
      <4>1. s = [pc |-> "awaitEditor", mode |-> script[t].mode, base |-> script[t].base,
                 tiles |-> script[t].tiles, proof |-> b]
        BY <1>1, <3>3 DEF Script
      <4> QED
        BY <1>1, <3>1, <4>1 DEF Script, Pcs
    <3>5. script' = [script EXCEPT ![t] = s]
      BY <3>2, <3>3
    <3>6. /\ script' \in [Tasks -> Script] /\ \A u \in Tasks \ {t} : script'[u] = script[u]
          /\ script'[t] = s
      BY <1>1, <3>4, <3>5
    <3> QED
      BY <2>1, <3>4, <3>6 DEF ApplySettings
  <2>2. ASSUME NEW pc \in {"awaitCommit", "uploading"},
               script' = [script EXCEPT ![t].pc = pc]
        PROVE  /\ script' \in [Tasks -> Script]
               /\ \A u \in Tasks \ {t} : script'[u] = script[u]
               /\ script'[t].pc = pc /\ script'[t].mode = script[t].mode
               /\ script'[t].base = script[t].base
    BY <1>1, <2>2 DEF Script, Pcs
  <2>3. CASE AskToCommit(t)
    BY <2>2, <2>3 DEF AskToCommit
  <2>4. CASE ReportSubmitted(t)
    BY <2>2, <2>4 DEF ReportSubmitted
  <2> QED
    BY <2>1, <2>3, <2>4
<1>3. PICK pc, phase : Moves(pc, phase)
                       /\ \/ script[t].pc = "captioned" /\ pc = "awaitEditor"
                               /\ phase = "EDITOR_READY"
                          \/ script[t].pc = "awaitEditor" /\ file[t].ack = "EDITOR_READY"
                               /\ pc = "awaitCommit" /\ phase = "COMMITTING"
                          \/ script[t].pc = "submitted" /\ pc = "uploading"
                               /\ phase = "SUBMITTED"
  BY <1>2
<1>4. /\ file' \in [Tasks -> File] /\ \A u \in Tasks \ {t} : file'[u] = file[u]
      /\ file'[t].ack = file[t].ack /\ file'[t].result = file[t].result
      /\ file'[t].checkpoint.phase = phase
      /\ file'[t].checkpoint.base = script[t].base
  BY <1>3, WritesFacts
<1>5. Course(t)'
  BY <1>1, <1>3, <1>4 DEF Course, Publishing
<1>6. LetThrough(t)' => LetThrough(t)
  BY <1>1, <1>3, <1>4 DEF LetThrough, Course
<1>7. client.task = t => Known' \subseteq Known
  BY <1>3, <1>4, TaskFacts DEF Known, ScriptOnly
<1>8. script[t].pc \notin {"none", "over", "profile"} /\ pc \notin {"none", "over"}
  BY <1>3
<1>9. UNCHANGED <<jobs, next, client, disk, live, desk, locks, retrySafe, process,
                  keyboard, clicked, troubles>>
  BY <1>3 DEF ScriptOnly
<1> QED
  BY <1>1, <1>3, <1>4, <1>5, <1>6, <1>7, <1>8, <1>9, ScriptStep

LEMMA ClickKeeps ==
  ASSUME IInv, NEW t \in Tasks, Click(t)
  PROVE  IInv'
<1>1. script[t] \in Script /\ file[t] \in File /\ script \in [Tasks -> Script]
      /\ file \in [Tasks -> File] /\ troubles \in 0..MaxTroubles /\ Course(t)
  BY DEF IInv, Typed, ScriptCourse
<1>2. /\ script' \in [Tasks -> Script] /\ \A u \in Tasks \ {t} : script'[u] = script[u]
      /\ script'[t].pc = "submitted" /\ script'[t].mode = script[t].mode
      /\ script'[t].base = script[t].base
  BY <1>1 DEF Click, Script, Pcs
<1>3. LetThrough(t) /\ script[t].pc = "awaitCommit" /\ clicked' = clicked \cup {t}
      /\ file' = file
  BY DEF Click, LetThrough
<1>4. Course(t)'
  BY <1>1, <1>2, <1>3 DEF Course, Publishing
<1>5. UNCHANGED <<jobs, next, client, disk, live, desk, locks, retrySafe, process,
                  keyboard, file, troubles>>
  BY DEF Click, ScriptOnly
<1>6. client.task = t => Known' \subseteq Known
  BY <1>2, <1>5, TaskFacts DEF Known
<1> QED
  BY <1>1, <1>2, <1>3, <1>4, <1>5, <1>6, ScriptStep

\* A script that ends leaves a result with the baseline it had, or nothing.
LEMMA EndsKeeps ==
  ASSUME IInv, NEW t \in Tasks, script[t].pc \notin {"none", "over"},
         NEW published \in BOOLEAN, NEW link \in Tasks \cup {None},
         NEW base \in SUBSET Tasks, NEW tiles \in Counts \cup {None},
         NEW safe \in BOOLEAN, base \subseteq script[t].base,
         Ends(t, published, link, base, tiles, safe), ScriptOnly,
         UNCHANGED <<clicked, troubles>>
  PROVE  IInv'
<1>1. script[t] \in Script /\ file[t] \in File /\ script \in [Tasks -> Script]
      /\ file \in [Tasks -> File] /\ troubles \in 0..MaxTroubles /\ Course(t)
  BY DEF IInv, Typed, ScriptCourse
<1>2. PICK r : r = [published |-> published, link |-> link, proof |-> script[t].proof,
                    base |-> base, tiles |-> tiles, safe |-> safe]
  OBVIOUS
<1>3. r \in ScriptResult /\ r.base = base /\ r # None
  BY <1>1, <1>2, NoneAssumption DEF ScriptResult, Script
<1>4. PICK over : over = [Asleep EXCEPT !.pc = "over"]
  OBVIOUS
<1>5. over \in Script /\ over.pc = "over" /\ over.base = {}
  BY <1>4, NoneAssumption DEF Asleep, Script, Pcs
<1>6. script' = [script EXCEPT ![t] = over]
  BY <1>4 DEF Ends
<1>7. script' \in [Tasks -> Script] /\ script'[t] = over
      /\ \A u \in Tasks \ {t} : script'[u] = script[u]
  BY <1>1, <1>5, <1>6
<1>8. CASE client.task = t
  <2>1. file' = [file EXCEPT ![t] = [file[t] EXCEPT !.result = r]]
    BY <1>1, <1>2, <1>8 DEF Ends
  <2>2. /\ file' \in [Tasks -> File] /\ \A u \in Tasks \ {t} : file'[u] = file[u]
        /\ file'[t].ack = file[t].ack /\ file'[t].result = r
        /\ file'[t].checkpoint = file[t].checkpoint
    BY <1>1, <1>3, <2>1 DEF File
  <2>3. Course(t)'
    BY <1>1, <1>5, <1>7, <2>2 DEF Course, Publishing
  <2>4. LetThrough(t)' => LetThrough(t)
    BY <1>5, <1>7, <2>2 DEF LetThrough
  <2>5. Known' \subseteq Known
    BY <1>3, <1>5, <1>7, <1>8, <2>2, TaskFacts DEF Known, ScriptOnly
  <2>6. UNCHANGED <<jobs, next, client, disk, live, desk, locks, retrySafe, process, keyboard>>
    BY DEF ScriptOnly
  <2> QED
    BY <1>1, <1>5, <1>7, <2>2, <2>3, <2>4, <2>5, <2>6, ScriptStep
<1>9. CASE client.task # t
  <2>1. file' = [file EXCEPT ![t] = NoFile]
    BY <1>9 DEF Ends
  <2>2. NoFile \in File /\ NoFile.ack = "none" /\ NoFile.result = None
        /\ NoFile.checkpoint.phase = "none"
    BY DEF NoFile, NoCheckpoint, File, Checkpoint, Acks
  <2>3. file' \in [Tasks -> File] /\ file'[t] = NoFile
        /\ \A u \in Tasks \ {t} : file'[u] = file[u]
    BY <1>1, <2>1, <2>2
  <2>4. Course(t)'
    BY <1>1, <1>5, <1>7, <2>2, <2>3 DEF Course, Publishing
  <2>5. LetThrough(t)' => LetThrough(t)
    BY <1>5, <1>7, <2>3 DEF LetThrough
  <2>6. UNCHANGED <<jobs, next, client, disk, live, desk, locks, retrySafe, process, keyboard>>
    BY DEF ScriptOnly
  <2> QED
    BY <1>1, <1>5, <1>7, <1>9, <2>3, <2>4, <2>5, <2>6, ScriptStep
<1> QED
  BY <1>8, <1>9

LEMMA EndActions ==
  ASSUME IInv, NEW t \in Tasks, Locate(t) \/ ScriptFails(t)
  PROVE  IInv'
<1>1. script[t] \in Script /\ script[t].base \in SUBSET Tasks
      /\ script[t].tiles \in Counts \cup {None} /\ live \subseteq Tasks
  BY DEF IInv, Typed, Script
<1>2. CASE Locate(t)
  <2>1. script[t].pc = "locating" /\ ScriptOnly /\ UNCHANGED <<clicked, troubles>>
    BY <1>2 DEF Locate
  <2>2. \E published \in BOOLEAN, link \in Tasks \cup {None} :
          Ends(t, published, link, script[t].base, script[t].tiles, FALSE)
    BY <1>1, <1>2 DEF Locate, FindsLink, FindsPost, Reports, Candidates
  <2> QED
    BY <1>1, <2>1, <2>2, EndsKeeps
<1>3. CASE ScriptFails(t)
  <2>1. PICK base, tiles, safe :
          /\ base = (IF script[t].pc = "starting" THEN {} ELSE script[t].base)
          /\ tiles = (IF script[t].pc = "starting" THEN None ELSE script[t].tiles)
          /\ safe = (script[t].mode = "publish" /\ script[t].pc \notin PastCommit)
    OBVIOUS
  <2>2. base \in SUBSET Tasks /\ tiles \in Counts \cup {None} /\ safe \in BOOLEAN
        /\ base \subseteq script[t].base
    BY <1>1, <2>1
  <2>3. /\ script[t].pc \notin {"none", "over"} /\ ScriptOnly
        /\ UNCHANGED <<clicked, troubles>>
        /\ Ends(t, FALSE, None, base, tiles, safe)
    BY <1>3, <2>1 DEF ScriptFails
  <2> QED
    BY <2>2, <2>3, EndsKeeps
<1> QED
  BY <1>2, <1>3

LEMMA NoFileFacts ==
  /\ NoFile \in File /\ NoFile.ack = "none" /\ NoFile.result = None
  /\ NoFile.checkpoint.phase = "none" /\ NoFile.checkpoint.base = {}
  BY DEF NoFile, NoCheckpoint, File, Checkpoint, Acks

LEMMA OverFacts ==
  \A over : over = [Asleep EXCEPT !.pc = "over"]
              => over \in Script /\ over.pc = "over" /\ over.base = {}
  BY NoneAssumption DEF Asleep, Script, Pcs

LEMMA TroubleSpent ==
  ASSUME IInv, NEW n \in Nat, Spend(n)
  PROVE  troubles' \in 0..MaxTroubles
<1>1. troubles \in 0..MaxTroubles /\ MaxTroubles \in Nat
  BY TikTokPublicationAssumption DEF IInv, Typed
<1> QED
  BY <1>1 DEF Spend

LEMMA ScriptKilledKeeps ==
  ASSUME IInv, NEW t \in Tasks, ScriptKilled(t)
  PROVE  IInv'
<1>1. script[t] \in Script /\ file[t] \in File /\ script \in [Tasks -> Script]
      /\ file \in [Tasks -> File] /\ Course(t)
  BY DEF IInv, Typed, ScriptCourse
<1>2. troubles' \in 0..MaxTroubles
  BY TroubleSpent DEF ScriptKilled, Trouble
<1>3. PICK over : over = [Asleep EXCEPT !.pc = "over"]
  OBVIOUS
<1>4. over \in Script /\ over.pc = "over" /\ over.base = {}
  BY <1>3, OverFacts
<1>5. script' = [script EXCEPT ![t] = over] /\ script[t].pc \notin {"none", "over"}
  BY <1>3 DEF ScriptKilled
<1>6. script' \in [Tasks -> Script] /\ script'[t] = over
      /\ \A u \in Tasks \ {t} : script'[u] = script[u]
  BY <1>1, <1>4, <1>5
<1>7. /\ file' \in [Tasks -> File] /\ \A u \in Tasks \ {t} : file'[u] = file[u]
      /\ file'[t] = file[t] \/ (client.task # t /\ file'[t] = NoFile)
  BY <1>1, NoFileFacts DEF ScriptKilled
<1>8. Course(t)'
  BY <1>1, <1>4, <1>6, <1>7, NoFileFacts DEF Course, Publishing, ScriptKilled
<1>9. UNCHANGED <<jobs, next, client, disk, live, desk, locks, retrySafe, process,
                  keyboard, clicked>>
  BY DEF ScriptKilled, ScriptOnly
<1>10. LetThrough(t)' => LetThrough(t)
  BY <1>4, <1>6, <1>9 DEF LetThrough
<1>11. client.task = t => Known' \subseteq Known
  BY <1>4, <1>6, <1>7, <1>9, TaskFacts DEF Known
<1> QED
  BY <1>2, <1>4, <1>5, <1>6, <1>7, <1>8, <1>9, <1>10, <1>11, ScriptStep

-----------------------------------------------------------------------------
(* What the client does.                                                   *)

\* The baselines known to a step that ends the task, or keeps to it.
LEMMA KnownFacts ==
  ASSUME IInv, NEW t, Active(t)
  PROVE  /\ client.rec.base \subseteq Known /\ file[t].checkpoint.base \subseteq Known
         /\ file[t].result # None => file[t].result.base \subseteq Known
         /\ \A u \in Known : u < t
         /\ \A u \in Tasks : LetThrough(u) /\ Pub(u) = Pub(t) => u \notin Known
<1>1. client.task = t /\ client.task # NoTask
  BY DEF Active
<1> QED
  BY <1>1 DEF IInv, Baselines, Known

\* What may be saved for the active task without failing an earlier one.
Savable(t, r) ==
  /\ r \in Record /\ r.base \subseteq Known \cup disk[Pub(t)].base
  /\ disk[Pub(t)] # None /\ Committed(disk[Pub(t)]) => Committed(r)
  /\ Pub(t) \in Commercial /\ disk[Pub(t)].proof => r.proof
  /\ r.link # None <=> r.phase = "LINK_CONFIRMED"
  /\ r.link # None <=> r.outcome = "SUCCESS"

\* Whatever the client makes of its active task, other tasks are not let through
\* by it; this one is when the ledger has all it takes.
LEMMA PollStep ==
  ASSUME IInv, NEW t, Active(t),
         UNCHANGED <<jobs, next, script, clicked, live, process, keyboard>>,
         client' \in Client, client'.task = t, client'.rec \in Record,
         client'.rec.phase # "LINK_CONFIRMED", client'.rec.outcome # "SUCCESS",
         client'.rec.link = None,
         client'.rec.base \subseteq Known,
         NEW d \in Record, Savable(t, d), disk' = [disk EXCEPT ![Pub(t)] = d],
         Committed(d) => Committed(client'.rec),
         Pub(t) \in Commercial /\ (d.proof \/ file'[t].ack # "none") => client'.rec.proof,
         client'.review \in {"waiting", "approved"} => Backs(d, Pub(t)),
         file' \in [Tasks -> File], \A u \in Tasks \ {t} : file'[u] = file[u],
         file'[t].checkpoint = file[t].checkpoint, file'[t].result = file[t].result,
         file'[t].ack \in {file[t].ack, "EDITOR_READY", "COMMITTING", "SUBMITTED"},
         file[t].ack # "none" => file'[t].ack # "none",
         script[t].pc = "awaitCommit" /\ file'[t].ack = "COMMITTING" =>
           LetThrough(t) \/ (Backs(d, Pub(t)) /\ (NeedsReview(t) => desk[t] = "consumed")),
         desk' \in [Tasks -> {"none", "pending", "released", "consumed", "held"}],
         \A u \in Tasks \ {t} : desk'[u] = desk[u],
         desk'[t] = desk[t] \/ desk[t] # "consumed" \/ desk'[t] = "consumed",
         client'.review = "none" => desk'[t] = "none",
         client'.review = "waiting" => desk'[t] \in {"pending", "released"},
         client'.review = "approved" => desk'[t] = "consumed",
         locks' \subseteq Publications, retrySafe' = retrySafe,
         troubles' \in 0..MaxTroubles
  PROVE  IInv'
<1> DEFINE p == Pub(t)
<1> USE TaskFacts, StateFacts, ActiveFacts, SamePub
<1>1. /\ t \in Tasks /\ next = t + 1 /\ p \in Publications /\ client.task = t
      /\ disk[p] \in Record /\ script[t] \in Script /\ file[t] \in File
  OBVIOUS
<1>2. /\ disk' \in [Publications -> Record \cup {None}] /\ disk'[p] = d
      /\ \A q \in Publications \ {p} : disk'[q] = disk[q]
  BY <1>1 DEF IInv, Typed
<1>3. \A u \in Tasks \ {t} : LetThrough(u)' <=> LetThrough(u)
  BY DEF LetThrough
<1>4. d # None /\ client'.rec # None
  BY NoneAssumption
<1>5. /\ \A u \in Known : u < t
      /\ \A u \in Tasks : LetThrough(u) /\ Pub(u) = p => u \notin Known
  BY KnownFacts
<1>6. Known' \subseteq Known
  BY <1>1 DEF Known
<1>7. LetThrough(t)' =>
         LetThrough(t) \/ (script[t].pc = "awaitCommit" /\ Backs(d, p)
                            /\ (NeedsReview(t) => desk[t] = "consumed"))
  BY DEF LetThrough
<1>8. \A u \in Tasks : LetThrough(u) /\ Pub(u) = p => Backs(d, p)
  BY <1>1, <1>4 DEF IInv, Covered, Backs, Savable
<1>9. Typed'
  BY <1>2 DEF IInv, Typed
<1>10. InTurn'
  BY <1>1 DEF IInv, InTurn
<1>11. ScriptCourse'
  <2> SUFFICES ASSUME NEW u \in Tasks PROVE Course(u)'
    BY DEF ScriptCourse
  <2>1. Course(u)
    BY DEF IInv, ScriptCourse
  <2>2. CASE u = t
    BY <2>1, <2>2 DEF Course
  <2>3. CASE u # t
    BY <2>1, <2>3 DEF Course
  <2> QED
    BY <2>2, <2>3
<1>12. RecordAhead'
  BY <1>1, <1>2, <1>4 DEF RecordAhead
<1>13. DiskLinked'
  BY <1>2 DEF IInv, DiskLinked, Savable
<1>14. Covered'
  <2> SUFFICES ASSUME NEW u \in Tasks, LetThrough(u)' PROVE Backs(disk'[Pub(u)], Pub(u))
    BY DEF Covered, Backs
  <2>1. CASE Pub(u) = p
    BY <1>2, <1>3, <1>7, <1>8, <2>1
  <2>2. CASE Pub(u) # p
    <3>1. LetThrough(u)
      BY <1>3, <2>2
    <3>2. disk'[Pub(u)] = disk[Pub(u)]
      BY <1>2, <2>2, <3>1
    <3> QED
      BY <3>1, <3>2 DEF IInv, Covered
  <2> QED
    BY <2>1, <2>2
<1>15. Alone'
  <2>1. ASSUME script[t].mode = "publish", script[t].pc # "over", NEW u \in Tasks,
               LetThrough(u)', Pub(u) = p
        PROVE  u = t
    BY <1>1, <1>3, <2>1 DEF IInv, Alone
  <2>2. script[t].pc = "awaitCommit" => script[t].mode = "publish"
    BY <1>1 DEF IInv, ScriptCourse, Course, Publishing
  <2>3. ASSUME NEW u \in Tasks, LetThrough(u)', Pub(u) = p, LetThrough(t)'
        PROVE  u = t
    <3>1. CASE script[t].pc = "awaitCommit"
      BY <2>1, <2>2, <2>3, <3>1
    <3>2. CASE script[t].pc # "awaitCommit"
      BY <1>1, <1>3, <1>7, <2>3, <3>2 DEF IInv, Alone
    <3> QED
      BY <3>1, <3>2
  <2>4. \A u, v \in Tasks : LetThrough(u)' /\ LetThrough(v)' /\ Pub(u) = Pub(v) => u = v
    BY <1>1, <1>3, <2>3 DEF IInv, Alone
  <2> QED
    BY <1>1, <2>1, <2>4 DEF Alone
<1>16. Baselines'
  <2>1. \A q \in Publications : disk'[q] # None =>
          \A u \in disk'[q].base : u < next /\ u # t
    <3>1. ASSUME NEW u \in d.base PROVE u < next /\ u # t
      <4>1. CASE u \in Known
        <5>1. u \in Tasks /\ u < t
          BY <1>5, <4>1 DEF Record
        <5> QED
          BY <1>1, <5>1
      <4>2. CASE u \in disk[p].base
        BY <1>1, <1>4, <4>2, NoneAssumption DEF IInv, Baselines
      <4> QED
        BY <4>1, <4>2 DEF Savable
    <3>2. ASSUME NEW q \in Publications \ {p}, disk[q] # None
          PROVE  \A u \in disk[q].base : u < next /\ u # t
      BY <1>1, <3>2 DEF IInv, Baselines
    <3> QED
      BY <1>2, <3>1, <3>2
  <2>2. ASSUME NEW u \in Tasks, LetThrough(u)', Pub(u) = p
        PROVE  u \notin Known /\ u \notin disk[p].base
    <3>1. CASE u # t
      BY <1>3, <1>5, <2>2, <3>1 DEF IInv, Baselines
    <3>2. CASE u = t
      <4>1. t \in Nat /\ ~(t < t)
        BY <1>1
      <4>2. t \notin Known
        <5> HIDE TaskFacts, StateFacts, ActiveFacts, SamePub
        <5> QED
          BY <1>5, <4>1
      <4>3. t \notin disk[p].base
        BY <1>1, NoneAssumption DEF IInv, Baselines
      <4> QED
        BY <3>2, <4>2, <4>3
    <3> QED
      BY <3>1, <3>2
  <2>3. ASSUME NEW u \in Tasks, LetThrough(u)'
        PROVE  u \notin disk'[Pub(u)].base
    <3>1. CASE Pub(u) = p
      BY <1>2, <2>2, <2>3, <3>1 DEF Savable
    <3>2. CASE Pub(u) # p
      <4>1. LetThrough(u)
        BY <1>3, <2>3, <3>2
      <4>2. disk'[Pub(u)] = disk[Pub(u)]
        BY <1>2, <3>2, <4>1
      <4> QED
        BY <4>1, <4>2 DEF IInv, Baselines
    <3> QED
      BY <3>1, <3>2
  <2> QED
    BY <1>1, <1>5, <1>6, <2>1, <2>2, <2>3 DEF Baselines
<1>17. Reviews'
  <2>1. ASSUME NEW u \in Tasks, LetThrough(u)', NeedsReview(u)
        PROVE  desk'[u] = "consumed"
    BY <1>1, <1>3, <1>7, <2>1 DEF IInv, Reviews
  <2> QED
    BY <1>1, <2>1 DEF Reviews
<1>18. KeyboardSafe'
  BY <1>1 DEF IInv, KeyboardSafe
<1> QED
  BY <1>9, <1>10, <1>11, <1>12, <1>13, <1>14, <1>15, <1>16, <1>17, <1>18 DEF IInv

LEMMA ClientFields ==
  ASSUME IInv
  PROVE  /\ client \in Client /\ disk \in [Publications -> Record \cup {None}]
         /\ file \in [Tasks -> File] /\ locks \subseteq Publications
         /\ desk \in [Tasks -> {"none", "pending", "released", "consumed", "held"}]
         /\ troubles \in 0..MaxTroubles
  BY DEF IInv, Typed

\* What Marked makes of the record in memory.
LEMMA MarkedFacts ==
  ASSUME IInv, NEW t, Active(t), NEW phase \in {"COMMITTING", "SUBMITTED"},
         file[t].checkpoint.phase = phase
  PROVE  LET r == Marked(t, phase) IN
         /\ r \in Record /\ r.phase = phase /\ r.outcome = "PENDING" /\ r.link = None
         /\ r.base = file[t].checkpoint.base /\ r.proof = client.rec.proof
         /\ Committed(r) /\ Savable(t, r) /\ r.base \subseteq Known
         /\ Pub(t) \in Commercial => r.proof
         /\ Backs(r, Pub(t))
<1> DEFINE r == Marked(t, phase)
<1>1. client.rec \in Record /\ client.rec.link = None /\ file[t] \in File
      /\ disk[Pub(t)] \in Record /\ t \in Tasks /\ client.task = t
  BY ActiveFacts
<1>2. file[t].checkpoint.base \in SUBSET Tasks /\ file[t].checkpoint.tiles \in Counts \cup {None}
  BY <1>1 DEF File, Checkpoint
<1>3. r = [phase |-> phase, outcome |-> "PENDING", proof |-> client.rec.proof,
           base |-> file[t].checkpoint.base, tiles |-> file[t].checkpoint.tiles,
           link |-> None]
  <2>1. PICK a : a = Advanced(client.rec, phase)
    OBVIOUS
  <2>2. PICK b : b = Settled(a, "PENDING")
    OBVIOUS
  <2>3. r = [b EXCEPT !.base = file[t].checkpoint.base, !.tiles = file[t].checkpoint.tiles]
    BY <2>1, <2>2 DEF Marked
  <2>4. a = [phase |-> phase, outcome |-> client.rec.outcome, proof |-> client.rec.proof,
             base |-> client.rec.base, tiles |-> client.rec.tiles, link |-> None]
    BY <1>1, <2>1 DEF Advanced, Record
  <2>5. b = [phase |-> phase, outcome |-> "PENDING", proof |-> client.rec.proof,
             base |-> client.rec.base, tiles |-> client.rec.tiles, link |-> None]
    BY <2>2, <2>4 DEF Settled
  <2> QED
    BY <2>3, <2>5
<1>4. r \in Record
  BY <1>1, <1>2, <1>3 DEF Record, Phases, Outcomes
<1>5. /\ r.phase = phase /\ r.outcome = "PENDING" /\ r.link = None
      /\ r.base = file[t].checkpoint.base /\ r.proof = client.rec.proof
  BY <1>3
<1> HIDE DEF r
<1>6. Committed(r)
  BY <1>5 DEF Committed
<1>7. Pub(t) \in Commercial => client.rec.proof
  <2>1. file[t].ack # "none"
    BY <1>1 DEF IInv, ScriptCourse, Course
  <2> QED
    BY <1>1, <2>1 DEF IInv, RecordAhead, Active
<1>8. r.base \subseteq Known
  BY <1>5, KnownFacts
<1>9. Savable(t, r)
  BY <1>4, <1>5, <1>6, <1>7, <1>8 DEF Savable
<1>10. Backs(r, Pub(t))
  BY <1>4, <1>5, <1>6, <1>7, NoneAssumption DEF Backs
<1> QED
  BY <1>4, <1>5, <1>6, <1>7, <1>8, <1>9, <1>10 DEF r

LEMMA AckFacts ==
  ASSUME IInv, NEW t \in Tasks, NEW a \in Acks, file' = [file EXCEPT ![t].ack = a]
  PROVE  /\ file' \in [Tasks -> File] /\ \A u \in Tasks \ {t} : file'[u] = file[u]
         /\ file'[t].checkpoint = file[t].checkpoint /\ file'[t].result = file[t].result
         /\ file'[t].ack = a
<1>1. file[t] \in File /\ file \in [Tasks -> File]
  BY ClientFields
<1>2. PICK f : f = [file[t] EXCEPT !.ack = a]
  OBVIOUS
<1>3. /\ f \in File /\ f.ack = a /\ f.checkpoint = file[t].checkpoint
      /\ f.result = file[t].result
  BY <1>1, <1>2 DEF File
<1>4. file' = [file EXCEPT ![t] = f]
  BY <1>2
<1> QED
  BY <1>1, <1>3, <1>4

LEMMA PollEditorKeeps ==
  ASSUME IInv, NEW t, PollEditor(t)
  PROVE  IInv'
<1> DEFINE p == Pub(t)
<1>1. Active(t)
  BY DEF PollEditor
<1>2. /\ client.rec \in Record /\ client.rec.link = None /\ file[t] \in File
      /\ disk[p] \in Record /\ t \in Tasks /\ client.task = t /\ p \in Publications
      /\ client.rec.phase # "LINK_CONFIRMED" /\ client.rec.outcome # "SUCCESS"
  BY <1>1, ActiveFacts
<1>3. client \in Client /\ locks \subseteq Publications /\ troubles \in 0..MaxTroubles
      /\ desk \in [Tasks -> {"none", "pending", "released", "consumed", "held"}]
  BY ClientFields
<1>4. PICK b : b \in BOOLEAN /\ b = (p \in Commercial)
  <2>1. (p \in Commercial) \in BOOLEAN
    OBVIOUS
  <2> QED
    BY <2>1
<1>5. PICK r : r = [client.rec EXCEPT !.proof = b]
  OBVIOUS
<1>6. /\ r \in Record /\ r.phase = client.rec.phase /\ r.outcome = client.rec.outcome
      /\ r.link = None /\ r.base = client.rec.base /\ r.proof = b
  <2>1. r = [phase |-> client.rec.phase, outcome |-> client.rec.outcome, proof |-> b,
             base |-> client.rec.base, tiles |-> client.rec.tiles, link |-> client.rec.link]
    BY <1>2, <1>5 DEF Record
  <2> QED
    BY <1>2, <1>4, <2>1 DEF Record
<1>7. /\ client' = [client EXCEPT !.rec = r, !.seen = "EDITOR_READY"]
      /\ disk' = [disk EXCEPT ![p] = r]
      /\ file' = [file EXCEPT ![t].ack = "EDITOR_READY"]
      /\ UNCHANGED <<jobs, next, script, clicked, live, process, keyboard, desk, locks,
                     retrySafe, troubles>>
  BY <1>4, <1>5 DEF PollEditor, Save, ClientOnly, PollOnly
<1>8. /\ client' \in Client /\ client'.task = t /\ client'.rec = r
      /\ client'.review = client.review
  BY <1>2, <1>3, <1>6, <1>7 DEF Client, Acks
<1>9. /\ file' \in [Tasks -> File] /\ \A u \in Tasks \ {t} : file'[u] = file[u]
      /\ file'[t].checkpoint = file[t].checkpoint /\ file'[t].result = file[t].result
      /\ file'[t].ack = "EDITOR_READY"
  BY <1>2, <1>7, AckFacts DEF Acks
<1>10. client.rec.base \subseteq Known
  BY <1>1, KnownFacts
<1>11. Committed(r) <=> Committed(client.rec)
  BY <1>6 DEF Committed
<1>12. /\ Committed(disk[p]) => Committed(r)
       /\ p \in Commercial => r.proof
       /\ client.review \in {"waiting", "approved"} => Committed(disk[p])
  BY <1>1, <1>4, <1>6, <1>11 DEF IInv, RecordAhead, Active, Backs
<1>13. Savable(t, r)
  BY <1>2, <1>6, <1>10, <1>12 DEF Savable
<1>14. client'.review \in {"waiting", "approved"} => Backs(r, p)
  BY <1>6, <1>8, <1>12, NoneAssumption DEF Backs
<1>15. r.base \subseteq Known
  BY <1>6, <1>10
<1>16. r.phase # "LINK_CONFIRMED" /\ r.outcome # "SUCCESS" /\ r.link = None
  BY <1>2, <1>6
<1>17. /\ client.review = "none" => desk[t] = "none"
       /\ client.review = "waiting" => desk[t] \in {"pending", "released"}
       /\ client.review = "approved" => desk[t] = "consumed"
  BY <1>1 DEF IInv, Reviews, Active
<1> QED
  BY <1>1, <1>2, <1>3, <1>6, <1>7, <1>8, <1>9, <1>10, <1>12, <1>13, <1>14, <1>15,
     <1>16, <1>17, PollStep

LEMMA PollSubmittedKeeps ==
  ASSUME IInv, NEW t, PollSubmitted(t)
  PROVE  IInv'
<1> DEFINE p == Pub(t)
<1>1. Active(t) /\ file[t].checkpoint.phase = "SUBMITTED"
  BY DEF PollSubmitted
<1>2. client.rec \in Record /\ file[t] \in File /\ t \in Tasks /\ client.task = t
  BY <1>1, ActiveFacts
<1>3. client \in Client /\ locks \subseteq Publications /\ troubles \in 0..MaxTroubles
      /\ desk \in [Tasks -> {"none", "pending", "released", "consumed", "held"}]
  BY ClientFields
<1>4. PICK r : r = Marked(t, "SUBMITTED")
  OBVIOUS
<1>5. /\ r \in Record /\ r.phase = "SUBMITTED" /\ r.outcome = "PENDING" /\ r.link = None
      /\ r.base = file[t].checkpoint.base /\ r.proof = client.rec.proof
      /\ Committed(r) /\ Savable(t, r) /\ (p \in Commercial => r.proof) /\ Backs(r, p)
      /\ r.base \subseteq Known
  BY <1>1, <1>4, MarkedFacts
<1>6. /\ client' = [client EXCEPT !.rec = r, !.seen = "SUBMITTED"]
      /\ disk' = [disk EXCEPT ![p] = r]
      /\ file' = [file EXCEPT ![t].ack = "SUBMITTED"]
      /\ UNCHANGED <<jobs, next, script, clicked, live, process, keyboard, desk, locks,
                     retrySafe, troubles>>
  BY <1>4 DEF PollSubmitted, Save, ClientOnly, PollOnly
<1>7. /\ client' \in Client /\ client'.task = t /\ client'.rec = r
      /\ client'.review = client.review
  BY <1>2, <1>3, <1>5, <1>6 DEF Client, Acks
<1>8. /\ file' \in [Tasks -> File] /\ \A u \in Tasks \ {t} : file'[u] = file[u]
      /\ file'[t].checkpoint = file[t].checkpoint /\ file'[t].result = file[t].result
      /\ file'[t].ack = "SUBMITTED"
  BY <1>2, <1>6, AckFacts DEF Acks
<1>9. /\ client.review = "none" => desk[t] = "none"
      /\ client.review = "waiting" => desk[t] \in {"pending", "released"}
      /\ client.review = "approved" => desk[t] = "consumed"
  BY <1>1 DEF IInv, Reviews, Active
<1> QED
  BY <1>1, <1>2, <1>3, <1>5, <1>6, <1>7, <1>8, <1>9, PollStep

\* What is on disk may stay there.
LEMMA DiskSavable ==
  ASSUME IInv, NEW t, Active(t)
  PROVE  /\ Savable(t, disk[Pub(t)])
         /\ disk = [disk EXCEPT ![Pub(t)] = disk[Pub(t)]]
<1>1. disk[Pub(t)] \in Record /\ Pub(t) \in Publications
      /\ disk \in [Publications -> Record \cup {None}]
  BY ActiveFacts, ClientFields
<1> QED
  BY <1>1, NoneAssumption DEF Savable, IInv, DiskLinked

\* The steps of a review, none of which touches the ledger.
LEMMA ReviewActions ==
  ASSUME IInv, NEW t, ConsumeRelease(t) \/ ReviewExpires(t) \/ AckReviewed(t)
  PROVE  IInv'
<1> DEFINE p == Pub(t)
<1>1. Active(t)
  BY DEF ConsumeRelease, ReviewExpires, AckReviewed
<1>2. /\ client.rec \in Record /\ client.rec.link = None /\ file[t] \in File
      /\ disk[p] \in Record /\ t \in Tasks /\ client.task = t /\ p \in Publications
      /\ client.rec.phase # "LINK_CONFIRMED" /\ client.rec.outcome # "SUCCESS"
  BY <1>1, ActiveFacts
<1>3. /\ client \in Client /\ locks \subseteq Publications /\ troubles \in 0..MaxTroubles
      /\ desk \in [Tasks -> {"none", "pending", "released", "consumed", "held"}]
      /\ file \in [Tasks -> File]
  BY ClientFields
<1>4. Savable(t, disk[p]) /\ disk = [disk EXCEPT ![p] = disk[p]]
      /\ client.rec.base \subseteq Known
  BY <1>1, DiskSavable, KnownFacts
<1>5. /\ Committed(disk[p]) => Committed(client.rec)
      /\ p \in Commercial /\ (disk[p].proof \/ file[t].ack # "none") => client.rec.proof
      /\ client.review \in {"waiting", "approved"} => Backs(disk[p], p)
  BY <1>1 DEF IInv, RecordAhead, Active
<1>6. /\ client.review = "none" => desk[t] = "none"
      /\ client.review = "waiting" => desk[t] \in {"pending", "released"}
      /\ client.review = "approved" => desk[t] = "consumed"
  BY <1>1 DEF IInv, Reviews, Active
<1>7. script[t].pc = "awaitCommit" /\ file[t].ack = "COMMITTING" => LetThrough(t)
  BY DEF LetThrough
<1>8. CASE ConsumeRelease(t)
  <2>1. /\ client' = [client EXCEPT !.review = "approved"] /\ client.review = "waiting"
        /\ desk' = [desk EXCEPT ![t] = "consumed"] /\ locks' = locks \ {p}
        /\ UNCHANGED <<jobs, next, script, clicked, live, process, keyboard, disk, file,
                       retrySafe, troubles>>
    BY <1>8 DEF ConsumeRelease, ClientOnly, PollOnly
  <2>2. /\ client' \in Client /\ client'.task = t /\ client'.rec = client.rec
        /\ client'.review = "approved"
    BY <1>2, <1>3, <2>1 DEF Client
  <2>3. /\ desk' \in [Tasks -> {"none", "pending", "released", "consumed", "held"}]
        /\ \A u \in Tasks \ {t} : desk'[u] = desk[u]
        /\ desk'[t] = "consumed" /\ desk[t] # "consumed"
    BY <1>2, <1>3, <1>6, <2>1
  <2>4. file'[t].ack = file[t].ack /\ locks' \subseteq Publications
    BY <1>3, <2>1
  <2> QED
    BY <1>1, <1>2, <1>3, <1>4, <1>5, <1>6, <1>7, <2>1, <2>2, <2>3, <2>4, PollStep
<1>9. CASE ReviewExpires(t)
  <2>1. /\ client' = [client EXCEPT !.review = "rejected"] /\ client.review = "waiting"
        /\ desk' = [desk EXCEPT ![t] = "held"] /\ locks' = locks \ {p}
        /\ UNCHANGED <<jobs, next, script, clicked, live, process, keyboard, disk, file,
                       retrySafe, troubles>>
    BY <1>9 DEF ReviewExpires, ClientOnly, PollOnly
  <2>2. /\ client' \in Client /\ client'.task = t /\ client'.rec = client.rec
        /\ client'.review = "rejected"
    BY <1>2, <1>3, <2>1 DEF Client
  <2>3. /\ desk' \in [Tasks -> {"none", "pending", "released", "consumed", "held"}]
        /\ \A u \in Tasks \ {t} : desk'[u] = desk[u]
        /\ desk[t] # "consumed"
    BY <1>2, <1>3, <1>6, <2>1
  <2>4. file'[t].ack = file[t].ack /\ locks' \subseteq Publications
    BY <1>3, <2>1
  <2> QED
    BY <1>1, <1>2, <1>3, <1>4, <1>5, <1>6, <1>7, <2>1, <2>2, <2>3, <2>4, PollStep
<1>10. CASE AckReviewed(t)
  <2>1. /\ client' = [client EXCEPT !.seen = "COMMITTING"] /\ client.review = "approved"
        /\ file' = [file EXCEPT ![t].ack = "COMMITTING"]
        /\ UNCHANGED <<jobs, next, script, clicked, live, process, keyboard, disk, desk,
                       locks, retrySafe, troubles>>
        /\ file[t].checkpoint.phase = "COMMITTING"
    BY <1>10 DEF AckReviewed, ClientOnly, PollOnly
  <2>2. /\ client' \in Client /\ client'.task = t /\ client'.rec = client.rec
        /\ client'.review = "approved"
    BY <1>2, <1>3, <2>1 DEF Client, Acks
  <2>3. /\ file' \in [Tasks -> File] /\ \A u \in Tasks \ {t} : file'[u] = file[u]
        /\ file'[t].checkpoint = file[t].checkpoint /\ file'[t].result = file[t].result
        /\ file'[t].ack = "COMMITTING"
    BY <1>2, <2>1, AckFacts DEF Acks
  <2>4. p \in Commercial => client.rec.proof
    <3>1. file[t].ack # "none"
      BY <1>2, <2>1 DEF IInv, ScriptCourse, Course
    <3> QED
      BY <1>5, <3>1
  <2>5. Backs(disk[p], p) /\ desk[t] = "consumed"
    BY <1>5, <1>6, <2>1
  <2> QED
    BY <1>1, <1>2, <1>3, <1>4, <1>5, <1>6, <1>7, <2>1, <2>2, <2>3, <2>4, <2>5, PollStep
<1> QED
  BY <1>8, <1>9, <1>10

LEMMA PollCommittingKeeps ==
  ASSUME IInv, NEW t, PollCommitting(t)
  PROVE  IInv'
<1> DEFINE p == Pub(t)
<1>1. Active(t) /\ file[t].checkpoint.phase = "COMMITTING" /\ client.review = "none"
  BY DEF PollCommitting
<1>2. /\ client.rec \in Record /\ file[t] \in File /\ disk[p] \in Record
      /\ t \in Tasks /\ client.task = t /\ p \in Publications
  BY <1>1, ActiveFacts
<1>3. /\ client \in Client /\ locks \subseteq Publications /\ troubles \in 0..MaxTroubles
      /\ desk \in [Tasks -> {"none", "pending", "released", "consumed", "held"}]
      /\ file \in [Tasks -> File]
  BY ClientFields
<1>4. Savable(t, disk[p]) /\ disk = [disk EXCEPT ![p] = disk[p]]
  BY <1>1, DiskSavable
<1>5. PICK r : r = Marked(t, "COMMITTING")
  OBVIOUS
<1>6. /\ r \in Record /\ r.phase = "COMMITTING" /\ r.outcome = "PENDING" /\ r.link = None
      /\ Committed(r) /\ Savable(t, r) /\ (p \in Commercial => r.proof) /\ Backs(r, p)
      /\ r.base \subseteq Known
  BY <1>1, <1>5, MarkedFacts
<1>7. PICK c : c = [client EXCEPT !.committed = TRUE, !.rec = r]
  OBVIOUS
<1>8. c \in Client /\ c.task = t /\ c.rec = r /\ c.review = "none"
  BY <1>1, <1>2, <1>3, <1>6, <1>7 DEF Client
<1>9. desk[t] = "none"
  BY <1>1 DEF IInv, Reviews, Active
<1>10. script[t].pc = "awaitCommit" /\ file[t].ack = "COMMITTING" => LetThrough(t)
  BY DEF LetThrough
<1>11. UNCHANGED <<jobs, next, script, clicked, live, process, keyboard, retrySafe>>
  BY DEF PollCommitting, ClientOnly, PollOnly
<1>12. \/ /\ ~NeedsReview(t) /\ disk' = [disk EXCEPT ![p] = r]
          /\ client' = [c EXCEPT !.seen = "COMMITTING"]
          /\ file' = [file EXCEPT ![t].ack = "COMMITTING"]
          /\ UNCHANGED <<desk, locks, troubles>>
       \/ /\ disk' = [disk EXCEPT ![p] = r] /\ BeginReview(t, c)
          /\ UNCHANGED <<file, troubles>>
       \/ Trouble /\ client' = c /\ UNCHANGED <<disk, file, desk, locks>>
  BY <1>5, <1>7 DEF PollCommitting, Save
<1> HIDE DEF PollCommitting
<1>13. CASE /\ ~NeedsReview(t) /\ disk' = [disk EXCEPT ![p] = r]
            /\ client' = [c EXCEPT !.seen = "COMMITTING"]
            /\ file' = [file EXCEPT ![t].ack = "COMMITTING"]
            /\ UNCHANGED <<desk, locks, troubles>>
  <2>1. client' \in Client /\ client'.task = t /\ client'.rec = r /\ client'.review = "none"
    BY <1>8, <1>13 DEF Client, Acks
  <2>2. /\ file' \in [Tasks -> File] /\ \A u \in Tasks \ {t} : file'[u] = file[u]
        /\ file'[t].checkpoint = file[t].checkpoint /\ file'[t].result = file[t].result
        /\ file'[t].ack = "COMMITTING"
    BY <1>2, <1>13, AckFacts DEF Acks
  <2>3. /\ desk' = desk /\ desk'[t] = "none" /\ locks' \subseteq Publications
        /\ troubles' \in 0..MaxTroubles
        /\ desk' \in [Tasks -> {"none", "pending", "released", "consumed", "held"}]
        /\ disk' = [disk EXCEPT ![p] = r] /\ ~NeedsReview(t)
    BY <1>3, <1>9, <1>13
  <2> QED
    BY <1>1, <1>6, <1>11, <2>1, <2>2, <2>3, PollStep
<1>14. CASE /\ disk' = [disk EXCEPT ![p] = r] /\ BeginReview(t, c)
            /\ UNCHANGED <<file, troubles>>
  <2>1. PICK v : v = (IF p \in locks THEN "rejected" ELSE "waiting")
    OBVIOUS
  <2>2. client' = [c EXCEPT !.review = v]
    BY <1>14, <2>1 DEF BeginReview
  <2>3. /\ client' \in Client /\ client'.task = t /\ client'.rec = r
        /\ client'.review = v /\ v \in {"rejected", "waiting"}
    BY <1>8, <2>1, <2>2 DEF Client
  <2>4. /\ desk' \in [Tasks -> {"none", "pending", "released", "consumed", "held"}]
        /\ \A u \in Tasks \ {t} : desk'[u] = desk[u]
        /\ v = "waiting" => desk'[t] = "pending"
        /\ desk'[t] \in {"none", "pending"}
    BY <1>2, <1>3, <1>9, <1>14, <2>1 DEF BeginReview
  <2>5. locks' \subseteq Publications
    BY <1>2, <1>3, <1>14 DEF BeginReview
  <2> QED
    BY <1>1, <1>3, <1>6, <1>9, <1>10, <1>11, <1>14, <2>3, <2>4, <2>5, PollStep
<1>15. CASE Trouble /\ client' = c /\ UNCHANGED <<disk, file, desk, locks>>
  <2>1. troubles' \in 0..MaxTroubles
    BY <1>15, TroubleSpent DEF Trouble
  <2> QED
    BY <1>1, <1>2, <1>3, <1>4, <1>6, <1>8, <1>9, <1>10, <1>11, <1>15, <2>1, PollStep
<1> QED
  BY <1>12, <1>13, <1>14, <1>15

\* The end of the active task lets nobody through.
LEMMA EndStep ==
  ASSUME IInv, NEW t, Active(t), UNCHANGED <<jobs, next, clicked, live>>,
         client' = Idle, NEW d \in Record, Savable(t, d),
         disk' = [disk EXCEPT ![Pub(t)] = d],
         script' \in [Tasks -> Script], \A u \in Tasks \ {t} : script'[u] = script[u],
         script'[t] = script[t] \/ script'[t].pc = "over",
         file' \in [Tasks -> File], \A u \in Tasks \ {t} : file'[u] = file[u],
         \/ file'[t] = file[t]
         \/ file'[t] = NoFile /\ script'[t].pc \notin {"awaitCommit", "submitted", "uploading"},
         desk' \in [Tasks -> {"none", "pending", "released", "consumed", "held"}],
         \A u \in Tasks \ {t} : desk'[u] = desk[u],
         desk'[t] = desk[t] \/ desk[t] # "consumed",
         locks' \subseteq Publications, retrySafe' \in Tasks \cup {NoTask},
         process' \in {"up", "exiting", "down"}, troubles' \in 0..MaxTroubles,
         UserKept(keyboard'), process' = "up" => keyboard' = Clean
  PROVE  IInv'
<1> DEFINE p == Pub(t)
<1> USE TaskFacts, StateFacts, ActiveFacts, SamePub
<1>1. /\ t \in Tasks /\ next = t + 1 /\ p \in Publications /\ client.task = t
      /\ disk[p] \in Record /\ script[t] \in Script /\ file[t] \in File
  OBVIOUS
<1>2. /\ disk' \in [Publications -> Record \cup {None}] /\ disk'[p] = d
      /\ \A q \in Publications \ {p} : disk'[q] = disk[q]
      /\ d # None /\ disk[p] # None
  BY <1>1, NoneAssumption DEF IInv, Typed
<1>3. \A u \in Tasks : LetThrough(u)' => LetThrough(u)
  BY NoFileFacts DEF LetThrough
<1>4. client'.task = NoTask /\ client' \in Client
  BY DEF Idle, Client, Acks
<1>5. Typed'
  BY <1>2, <1>4 DEF IInv, Typed
<1>6. InTurn'
  <2> SUFFICES ASSUME NEW u \in Tasks, u >= next
               PROVE  script'[u] = Asleep /\ file'[u] = NoFile /\ u \notin clicked
                      /\ desk'[u] = "none"
    BY <1>4 DEF InTurn
  <2>1. u # t
    BY <1>1
  <2> QED
    BY <2>1 DEF IInv, InTurn
<1>7. ScriptCourse'
  <2> SUFFICES ASSUME NEW u \in Tasks PROVE Course(u)'
    BY DEF ScriptCourse
  <2>1. Course(u)
    BY DEF IInv, ScriptCourse
  <2>2. CASE u = t
    BY <2>1, <2>2, NoFileFacts DEF Course, Publishing
  <2>3. CASE u # t
    BY <2>1, <2>3 DEF Course
  <2> QED
    BY <2>2, <2>3
<1>8. RecordAhead'
  BY <1>4 DEF RecordAhead
<1>9. DiskLinked'
  BY <1>2 DEF IInv, DiskLinked, Savable
<1>10. Covered'
  <2> SUFFICES ASSUME NEW u \in Tasks, LetThrough(u) PROVE Backs(disk'[Pub(u)], Pub(u))
    BY <1>3 DEF Covered, Backs
  <2>1. Backs(disk[Pub(u)], Pub(u)) /\ Pub(u) \in Publications
    BY DEF IInv, Covered
  <2>2. CASE Pub(u) = p
    BY <1>2, <2>1, <2>2 DEF Savable, Backs
  <2>3. CASE Pub(u) # p
    BY <1>2, <2>1, <2>3
  <2> QED
    BY <2>2, <2>3
<1>11. Alone'
  BY <1>3, <1>4 DEF IInv, Alone
<1>12. Baselines'
  <2>2. \A q \in Publications : disk'[q] # None =>
          \A u \in disk'[q].base : u < next /\ u # NoTask
    <3>1. ASSUME NEW q \in Publications, disk[q] # None
          PROVE  \A u \in disk[q].base : u < next /\ u # NoTask
      <4>1. disk[q].base \subseteq Tasks
        BY <3>1 DEF IInv, Typed, Record
      <4> QED
        BY <3>1, <4>1 DEF IInv, Baselines
    <3>2. ASSUME NEW u \in d.base PROVE u < next /\ u # NoTask
      <4>1. u \in Tasks
        BY DEF Record
      <4>2. CASE u \in Known
        <5>1. u < t
          BY <4>2, KnownFacts
        <5> QED
          BY <1>1, <4>1, <5>1
      <4>3. CASE u \in disk[p].base
        BY <1>1, <1>2, <3>1, <4>3
      <4> QED
        BY <4>2, <4>3 DEF Savable
    <3> QED
      BY <1>2, <3>1, <3>2
  <2>3. ASSUME NEW u \in Tasks, LetThrough(u)
        PROVE  u \notin disk'[Pub(u)].base
    <3>1. u \notin disk[Pub(u)].base /\ Pub(u) \in Publications
          /\ (Pub(u) = p => u \notin Known)
      BY <2>3, KnownFacts DEF IInv, Baselines
    <3>2. CASE Pub(u) = p
      BY <1>2, <3>1, <3>2 DEF Savable
    <3>3. CASE Pub(u) # p
      BY <1>2, <3>1, <3>3
    <3> QED
      BY <3>2, <3>3
  <2>4. Known' = {}
    BY <1>4 DEF Known
  <2> QED
    BY <1>3, <1>4, <2>2, <2>3, <2>4 DEF Baselines
<1>13. Reviews'
  BY <1>3, <1>4 DEF IInv, Reviews
<1>14. KeyboardSafe'
  BY DEF KeyboardSafe
<1> QED
  BY <1>5, <1>6, <1>7, <1>8, <1>9, <1>10, <1>11, <1>12, <1>13, <1>14 DEF IInv

\* What the end of a task may save.
LEMMA EndSavable ==
  ASSUME IInv, NEW t, Active(t), NEW res,
         \/ res \in ScriptResult /\ file[t].result = res
         \/ \E b \in BOOLEAN : res = Failure(b)
  PROVE  Savable(t, ApplyResult(Pub(t), client.rec, res))
<1>1. PICK q : q = ApplyResult(Pub(t), client.rec, res)
  OBVIOUS
<1>2. /\ client.rec \in Record /\ client.rec.link = None
      /\ client.rec.phase # "LINK_CONFIRMED" /\ client.rec.outcome # "SUCCESS"
  BY ActiveFacts
<1>3. /\ q \in Record
      /\ Committed(client.rec) => Committed(q)
      /\ client.rec.proof => q.proof
      /\ q.base = IF res.base = None THEN client.rec.base ELSE res.base
      /\ q.link # None <=> q.phase = "LINK_CONFIRMED"
      /\ q.link # None <=> q.outcome = "SUCCESS"
  <2>1. \/ res \in ScriptResult
        \/ \E b \in BOOLEAN : res = Failure(b)
    OBVIOUS
  <2> QED
    BY <1>1, <1>2, <2>1, ApplyResultKeeps
<1>4. q.base \subseteq Known
  <2>1. CASE res \in ScriptResult /\ file[t].result = res
    <3>1. res # None /\ res.base # None
      BY <2>1, NoneAssumption DEF ScriptResult
    <3> QED
      BY <1>3, <2>1, <3>1, KnownFacts
  <2>2. CASE \E b \in BOOLEAN : res = Failure(b)
    <3>1. res.base = None
      BY <2>2 DEF Failure
    <3> QED
      BY <1>3, <3>1, KnownFacts
  <2> QED
    BY <2>1, <2>2
<1>5. /\ Committed(disk[Pub(t)]) => Committed(client.rec)
      /\ Pub(t) \in Commercial /\ disk[Pub(t)].proof => client.rec.proof
  BY DEF IInv, RecordAhead, Active
<1> QED
  BY <1>1, <1>3, <1>4, <1>5 DEF Savable

LEMMA KeyboardFacts ==
  ASSUME IInv
  PROVE  /\ UserKept(keyboard) /\ Restored(keyboard) = Clean
         /\ \A h \in HalfRestored(keyboard) : UserKept(h)
         /\ \A i \in 1..4 : UserKept(Activating(Restored(keyboard))[i])
         /\ InUse(Activating(Restored(keyboard))[4])
<1>1. UserKept(keyboard)
  BY DEF IInv, KeyboardSafe
<1> QED
  BY <1>1, RestoreSteps, ActivateSteps

LEMMA AnswerType ==
  ASSUME NEW t \in Tasks, NEW a, Answer(t, a)
  PROVE  retrySafe' \in Tasks \cup {NoTask}
  BY DEF Answer

LEMMA CleanUpFacts ==
  ASSUME IInv, NEW t, Active(t), NEW n \in Nat, CleanUp(t, n)
  PROVE  /\ client' = Idle
         /\ file' \in [Tasks -> File] /\ \A u \in Tasks \ {t} : file'[u] = file[u]
         /\ file'[t] = NoFile
         /\ desk' \in [Tasks -> {"none", "pending", "released", "consumed", "held"}]
         /\ \A u \in Tasks \ {t} : desk'[u] = desk[u]
         /\ desk'[t] = desk[t] \/ desk[t] # "consumed"
         /\ locks' \subseteq Publications /\ process' \in {"up", "exiting", "down"}
         /\ troubles' \in 0..MaxTroubles
         /\ UserKept(keyboard') /\ (process' = "up" => keyboard' = Clean)
<1>1. t \in Tasks /\ client.task = t
  BY ActiveFacts
<1>2. /\ file \in [Tasks -> File] /\ locks \subseteq Publications
      /\ desk \in [Tasks -> {"none", "pending", "released", "consumed", "held"}]
      /\ process \in {"up", "exiting", "down"}
  BY DEF IInv, Typed
<1>3. client' = Idle /\ file' = [file EXCEPT ![t] = NoFile]
  BY DEF CleanUp
<1>4. /\ file' \in [Tasks -> File] /\ \A u \in Tasks \ {t} : file'[u] = file[u]
      /\ file'[t] = NoFile
  BY <1>1, <1>2, <1>3, NoFileFacts
<1>5. client.review = "waiting" => desk[t] \in {"pending", "released"}
  BY DEF IInv, Reviews, Active
<1>6. /\ desk' \in [Tasks -> {"none", "pending", "released", "consumed", "held"}]
      /\ \A u \in Tasks \ {t} : desk'[u] = desk[u]
      /\ desk'[t] = desk[t] \/ desk[t] # "consumed"
      /\ locks' \subseteq Publications
  BY <1>1, <1>2, <1>5 DEF CleanUp
<1>7. /\ process' \in {"up", "exiting", "down"} /\ UserKept(keyboard')
      /\ process' = "up" => keyboard' = Clean
  BY <1>2, KeyboardFacts, CleanKept DEF CleanUp, Restore
<1>8. troubles' \in 0..MaxTroubles
  <2>1. Spend(n) \/ Spend(n + 1)
    BY DEF CleanUp
  <2>2. n + 1 \in Nat
    OBVIOUS
  <2> QED
    BY <2>1, <2>2, TroubleSpent
<1> QED
  BY <1>3, <1>4, <1>6, <1>7, <1>8

LEMMA PollResultKeeps ==
  ASSUME IInv, NEW t, PollResult(t)
  PROVE  IInv'
<1>1. Active(t) /\ file[t].result # None
      /\ UNCHANGED <<jobs, next, script, clicked, live>>
  BY DEF PollResult, PollOnly
<1>2. t \in Tasks /\ file[t] \in File /\ disk[Pub(t)] \in Record /\ script \in [Tasks -> Script]
  BY <1>1, ActiveFacts DEF IInv, Typed
<1>3. PICK r : r = ApplyResult(Pub(t), client.rec, file[t].result)
  OBVIOUS
<1>4. Savable(t, r) /\ r \in Record
  <2>1. file[t].result \in ScriptResult
    BY <1>1, <1>2 DEF File
  <2> QED
    BY <1>1, <1>3, <2>1, EndSavable DEF Savable
<1>5. PICK d : d \in Record /\ Savable(t, d) /\ disk' = [disk EXCEPT ![Pub(t)] = d]
               /\ \E n \in {0, 1} : CleanUp(t, n)
               /\ \E a : Answer(t, a)
  BY <1>1, <1>2, <1>3, <1>4, DiskSavable DEF PollResult, Save
<1>6. PICK n \in Nat : CleanUp(t, n)
  BY <1>5
<1>7. retrySafe' \in Tasks \cup {NoTask}
  BY <1>2, <1>5, AnswerType
<1>8. script[t].pc = "over"
  BY <1>1, <1>2 DEF IInv, ScriptCourse, Course
<1> QED
  BY <1>1, <1>2, <1>5, <1>6, <1>7, <1>8, CleanUpFacts, EndStep

LEMMA StopTaskKeeps ==
  ASSUME IInv, NEW t, StopTask(t)
  PROVE  IInv'
<1>1. Active(t) /\ CleanUp(t, 1) /\ UNCHANGED <<jobs, next, clicked, live>>
  BY DEF StopTask
<1>2. t \in Tasks /\ script \in [Tasks -> Script]
  BY <1>1, ActiveFacts DEF IInv, Typed
<1>3. PICK over : over = [Asleep EXCEPT !.pc = "over"]
  OBVIOUS
<1>4. over \in Script /\ over.pc = "over"
  BY <1>3, OverFacts
<1>5. script' = [script EXCEPT ![t] = over]
  BY <1>3 DEF StopTask
<1>6. script' \in [Tasks -> Script] /\ script'[t].pc = "over"
      /\ \A u \in Tasks \ {t} : script'[u] = script[u]
  BY <1>2, <1>4, <1>5
<1>7. PICK b \in BOOLEAN :
        /\ disk' = [disk EXCEPT ![Pub(t)] = ApplyResult(Pub(t), client.rec, Failure(b))]
        /\ \E a : Answer(t, a)
  <2>1. PICK cancelled \in BOOLEAN :
          /\ Save(Pub(t), ApplyResult(Pub(t), client.rec,
                                      Failure(cancelled /\ client.committed)))
          /\ \E a : Answer(t, a)
    BY DEF StopTask
  <2>2. (cancelled /\ client.committed) \in BOOLEAN
    OBVIOUS
  <2> QED
    BY <2>1, <2>2 DEF Save
<1>8. PICK r : r = ApplyResult(Pub(t), client.rec, Failure(b))
  OBVIOUS
<1>9. Savable(t, r) /\ r \in Record
  BY <1>1, <1>8, EndSavable DEF Savable
<1>10. retrySafe' \in Tasks \cup {NoTask}
  BY <1>2, <1>7, AnswerType
<1>11. disk' = [disk EXCEPT ![Pub(t)] = r]
  BY <1>7, <1>8
<1>12. /\ client' = Idle
       /\ file' \in [Tasks -> File] /\ \A u \in Tasks \ {t} : file'[u] = file[u]
       /\ file'[t] = NoFile
       /\ desk' \in [Tasks -> {"none", "pending", "released", "consumed", "held"}]
       /\ \A u \in Tasks \ {t} : desk'[u] = desk[u]
       /\ desk'[t] = desk[t] \/ desk[t] # "consumed"
       /\ locks' \subseteq Publications /\ process' \in {"up", "exiting", "down"}
       /\ troubles' \in 0..MaxTroubles
       /\ UserKept(keyboard') /\ (process' = "up" => keyboard' = Clean)
  BY <1>1, CleanUpFacts
<1> QED
  BY <1>1, <1>6, <1>9, <1>10, <1>11, <1>12, EndStep

LEMMA PreparationFailsKeeps ==
  ASSUME IInv, NEW t, PreparationFails(t)
  PROVE  IInv'
<1>1. Active(t) /\ client' = Idle
      /\ UNCHANGED <<jobs, next, file, clicked, live, desk, locks, script>>
  BY DEF PreparationFails, Preparing, PreparingOnly
<1>2. /\ t \in Tasks /\ script \in [Tasks -> Script] /\ file \in [Tasks -> File]
      /\ desk \in [Tasks -> {"none", "pending", "released", "consumed", "held"}]
      /\ locks \subseteq Publications /\ process \in {"up", "exiting", "down"}
      /\ troubles \in 0..MaxTroubles
  BY <1>1, ActiveFacts DEF IInv, Typed
<1>3. PICK r : r = ApplyResult(Pub(t), client.rec, Failure(FALSE))
  OBVIOUS
<1>4. Savable(t, r) /\ r \in Record
  BY <1>1, <1>3, EndSavable DEF Savable
<1>5. disk' = [disk EXCEPT ![Pub(t)] = r] /\ \E a : Answer(t, a)
  BY <1>3 DEF PreparationFails, Save
<1>6. retrySafe' \in Tasks \cup {NoTask}
  BY <1>2, <1>5, AnswerType
<1>7. ASSUME NEW k, UserKept(k), GiveBack(k)
      PROVE  /\ UserKept(keyboard') /\ process' \in {"up", "exiting", "down"}
             /\ troubles' \in 0..MaxTroubles /\ (process' = "up" => keyboard' = Clean)
  <2>1. Restored(k) = Clean /\ \A h \in HalfRestored(k) : UserKept(h)
    BY <1>7, RestoreSteps
  <2>2. CASE keyboard' = Restored(k) /\ UNCHANGED <<process, troubles>>
    BY <1>2, <2>1, <2>2, CleanKept
  <2>3. CASE keyboard' \in HalfRestored(k) /\ process' = "exiting" /\ Trouble
    BY <2>1, <2>3, TroubleSpent DEF Trouble
  <2> QED
    BY <1>7, <2>2, <2>3 DEF GiveBack
<1>8. /\ UserKept(keyboard') /\ process' \in {"up", "exiting", "down"}
      /\ troubles' \in 0..MaxTroubles /\ (process' = "up" => keyboard' = Clean)
  <2>1. CASE InUse(keyboard)
    BY <1>7, <2>1, KeyboardFacts DEF PreparationFails
  <2>2. CASE ~InUse(keyboard) /\ UNCHANGED <<keyboard, process, troubles>>
    BY <1>2, <2>2 DEF IInv, KeyboardSafe
  <2>3. CASE \E i \in 1..4 : GiveBack(Activating(Restored(keyboard))[i])
    BY <1>7, <2>3, KeyboardFacts
  <2> QED
    BY <2>1, <2>2, <2>3 DEF PreparationFails
<1> QED
  BY <1>1, <1>2, <1>4, <1>5, <1>6, <1>8, EndStep

-----------------------------------------------------------------------------
(* Beginning a task, and what happens around it.                           *)

LEMMA RequestKeeps ==
  ASSUME IInv, NEW q \in Requests, Request(q)
  PROVE  IInv'
<1> USE TaskFacts, StateFacts
<1>1. /\ jobs' = Append(jobs, q) /\ Len(jobs) < MaxTasks /\ client.task = NoTask
      /\ UNCHANGED <<next, client, disk, script, file, clicked, live,
                     desk, locks, retrySafe, process, keyboard, troubles>>
  BY DEF Request, Send
<1>2. jobs \in Seq(Requests) /\ Len(jobs) \in Nat
  BY DEF IInv, Typed
<1>3. /\ jobs' \in Seq(Requests) /\ Len(jobs') = Len(jobs) + 1
      /\ \A i \in 1..Len(jobs) : jobs'[i] = jobs[i]
  BY <1>1, <1>2
<1>4. \A u \in Tasks : u < next => Pub(u)' = Pub(u)
  BY <1>3 DEF Pub
<1>5. \A u \in Tasks : LetThrough(u)' <=> LetThrough(u)
  BY <1>1 DEF LetThrough
<1>6. Typed'
  BY <1>1, <1>2, <1>3, TikTokPublicationAssumption DEF IInv, Typed
<1>7. InTurn'
  BY <1>1 DEF IInv, InTurn
<1>8. ScriptCourse'
  BY <1>1 DEF IInv, ScriptCourse, Course
<1>9. RecordAhead' /\ Known' = {} /\ Known = {}
  BY <1>1 DEF RecordAhead, Known
<1>10. DiskLinked'
  BY <1>1 DEF IInv, DiskLinked
<1>11. Covered'
  BY <1>1, <1>4, <1>5 DEF IInv, Covered, Backs
<1>12. Alone'
  BY <1>1, <1>4, <1>5 DEF IInv, Alone
<1>13. Baselines'
  BY <1>1, <1>4, <1>5, <1>9 DEF IInv, Baselines
<1>14. Reviews'
  <2>1. \A u \in Tasks : LetThrough(u) => NeedsReview(u)' = NeedsReview(u)
    BY <1>4 DEF NeedsReview
  <2> QED
    BY <1>1, <1>5, <2>1 DEF IInv, Reviews
<1>15. KeyboardSafe'
  BY <1>1 DEF IInv, KeyboardSafe
<1> QED
  BY <1>6, <1>7, <1>8, <1>9, <1>10, <1>11, <1>12, <1>13, <1>14, <1>15 DEF IInv

\* Waiting for a task, the client knows of nobody who is not in the ledger.
LEMMA AnswerAtOnceKeeps ==
  ASSUME IInv, AnswerAtOnce
  PROVE  IInv'
<1> USE TaskFacts, StateFacts, SamePub
<1>1. /\ next' = next + 1 /\ next <= Len(jobs) /\ client.task = NoTask
      /\ UNCHANGED <<jobs, client, disk, script, file, clicked, live,
                     desk, locks, process, keyboard, troubles>>
  BY DEF AnswerAtOnce, Waiting
<1>2. next \in 1..Len(jobs) /\ Len(jobs) <= MaxTasks /\ next \in Tasks /\ Len(jobs) \in Nat
  <2>1. Len(jobs) \in Nat /\ next \in 1..(Len(jobs) + 1) /\ Len(jobs) <= MaxTasks
    BY DEF IInv, Typed
  <2> QED
    BY <1>1, <2>1, TikTokPublicationAssumption DEF Tasks
<1>3. retrySafe' \in Tasks \cup {NoTask}
  BY <1>2, AnswerType DEF AnswerAtOnce
<1>4. \A u \in Tasks : LetThrough(u)' <=> LetThrough(u)
  BY <1>1 DEF LetThrough
<1>5. Typed'
  BY <1>1, <1>2, <1>3 DEF IInv, Typed
<1>6. InTurn'
  BY <1>1, <1>2 DEF IInv, InTurn
<1>7. ScriptCourse'
  BY <1>1 DEF IInv, ScriptCourse, Course
<1>8. RecordAhead' /\ Known' = {} /\ Known = {}
  BY <1>1 DEF RecordAhead, Known
<1>9. DiskLinked' /\ Covered' /\ Alone'
  BY <1>1, <1>4 DEF IInv, DiskLinked, Covered, Backs, Alone
<1>10. Baselines'
  <2>1. ASSUME NEW p \in Publications, disk[p] # None, NEW u \in disk[p].base
        PROVE  u < next + 1 /\ u # NoTask
    <3>1. u \in Tasks
      BY <2>1 DEF IInv, Typed, Record
    <3>2. u < next /\ u # NoTask
      BY <1>1, <2>1 DEF IInv, Baselines
    <3>3. u \in Nat /\ next \in Nat
      BY <1>2, <3>1
    <3> HIDE TaskFacts, StateFacts, SamePub
    <3> QED
      BY <3>2, <3>3
  <2> QED
    BY <1>1, <1>4, <1>8, <2>1 DEF IInv, Baselines
<1>11. Reviews' /\ KeyboardSafe'
  BY <1>1, <1>4 DEF IInv, Reviews, KeyboardSafe
<1> QED
  BY <1>5, <1>6, <1>7, <1>8, <1>9, <1>10, <1>11 DEF IInv

LEMMA PrepareTaskKeeps ==
  ASSUME IInv, PrepareTask
  PROVE  IInv'
<1>0. PICK t : t = next
  OBVIOUS
<1> DEFINE p == Pub(t)
<1> USE <1>0, TaskFacts, StateFacts, SamePub
<1>1. /\ next' = next + 1 /\ next <= Len(jobs) /\ client.task = NoTask
      /\ UNCHANGED <<jobs, file, clicked, live, desk, locks, process, keyboard, troubles>>
      /\ retrySafe' = NoTask
  BY DEF PrepareTask, Waiting
<1>2. next \in 1..Len(jobs) /\ Len(jobs) <= MaxTasks /\ next \in Tasks /\ Len(jobs) \in Nat
      /\ p \in Publications
  <2>1. /\ Len(jobs) \in Nat /\ next \in 1..(Len(jobs) + 1) /\ Len(jobs) <= MaxTasks
        /\ \A i \in 1..Len(jobs) : jobs[i] \in Requests
    BY DEF IInv, Typed
  <2> QED
    BY <1>1, <2>1, TikTokPublicationAssumption DEF Tasks, Pub
<1>3. PICK d : d = Decision(p, jobs[t].action)
  OBVIOUS
<1>4. PICK r : r = IF d = "NEW" THEN FreshRecord ELSE disk[p]
  OBVIOUS
<1>5. PICK m : m = IF d = "RECOVER" THEN "recover" ELSE "publish"
  OBVIOUS
<1>6. /\ d \in {"NEW", "RESUME", "RECOVER"}
      /\ client' = [Idle EXCEPT !.task = t, !.rec = r]
      /\ script' = [script EXCEPT ![t] = [Asleep EXCEPT !.mode = m]]
      /\ disk' = IF d = "NEW" THEN [disk EXCEPT ![p] = r] ELSE disk
  BY <1>3, <1>4, <1>5 DEF PrepareTask, Save
<1>7. disk \in [Publications -> Record \cup {None}] /\ script \in [Tasks -> Script]
  BY DEF IInv, Typed
<1>8. /\ d = "NEW" => disk[p] = None
      /\ d # "NEW" => disk[p] \in Record /\ disk[p].phase # "LINK_CONFIRMED"
      /\ d # "RECOVER" => disk[p] = None \/ ~Committed(disk[p])
  BY <1>2, <1>3, <1>6, <1>7 DEF Decision
<1>9. FreshRecord \in Record /\ ~Committed(FreshRecord) /\ FreshRecord.base = {}
      /\ FreshRecord.phase = "PRECHECKED" /\ FreshRecord.outcome = "PENDING"
      /\ FreshRecord.link = None /\ FreshRecord.proof = FALSE
  BY DEF FreshRecord, Record, Phases, Outcomes, Committed
<1>10. /\ r \in Record /\ r # None /\ r.phase # "LINK_CONFIRMED" /\ r.outcome # "SUCCESS"
       /\ r.link = None
  BY <1>2, <1>4, <1>8, <1>9, NoneAssumption DEF IInv, DiskLinked
<1>11. /\ disk' \in [Publications -> Record \cup {None}] /\ disk'[p] = r
       /\ \A q \in Publications \ {p} : disk'[q] = disk[q]
  BY <1>2, <1>4, <1>6, <1>7, <1>10
<1>12. /\ client' \in Client /\ client'.task = t /\ client'.rec = r
       /\ client'.review = "none"
  BY <1>2, <1>6, <1>10 DEF Idle, Client, Acks
<1>13. PICK s : s = [Asleep EXCEPT !.mode = m]
  OBVIOUS
<1>14. s \in Script /\ s.pc = "none" /\ s.mode = m /\ s.base = {}
  BY <1>5, <1>13, NoneAssumption DEF Asleep, Script, Pcs
<1>15. /\ script' \in [Tasks -> Script] /\ script'[t] = s
       /\ \A u \in Tasks \ {t} : script'[u] = script[u]
  BY <1>2, <1>6, <1>7, <1>13, <1>14
<1>16. /\ script[t] = Asleep /\ file[t] = NoFile /\ t \notin clicked /\ desk[t] = "none"
  BY <1>2 DEF IInv, InTurn
<1>17. \A u \in Tasks : (LetThrough(u)' <=> LetThrough(u)) /\ (LetThrough(u) => u # t)
  BY <1>1, <1>2, <1>14, <1>15, <1>16, NoFileFacts DEF LetThrough
<1>18. \A u \in Tasks : LetThrough(u) /\ Pub(u) = p
         => Backs(disk[p], p) /\ d = "RECOVER" /\ r = disk[p]
  BY <1>4, <1>6, <1>8 DEF IInv, Covered, Backs
<1>19. Known' = r.base
  BY <1>1, <1>2, <1>12, <1>14, <1>15, <1>16, NoFileFacts DEF Known
<1>20. ASSUME NEW q \in Publications, disk[q] # None, NEW u \in disk[q].base
       PROVE  u < t /\ u \in Nat
  <2>1. u \in Tasks
    BY <1>7, <1>20 DEF Record
  <2> QED
    BY <1>1, <1>20, <2>1 DEF IInv, Baselines
<1>21. \A u \in r.base : u < t /\ u \in Nat
  BY <1>2, <1>4, <1>8, <1>9, <1>10, <1>20
<1>22. Typed'
  BY <1>1, <1>2, <1>11, <1>12, <1>15 DEF IInv, Typed
<1>23. InTurn'
  <2>1. ASSUME NEW u \in Tasks, u >= next + 1
        PROVE  u # t /\ u >= next
    <3> HIDE StateFacts, SamePub
    <3> QED
      BY <1>2, <2>1
  <2> QED
    BY <1>1, <1>12, <1>15, <2>1 DEF IInv, InTurn
<1>24. ScriptCourse'
  <2> SUFFICES ASSUME NEW u \in Tasks PROVE Course(u)'
    BY DEF ScriptCourse
  <2>1. CASE u = t
    BY <1>1, <1>14, <1>15, <1>16, <2>1, NoFileFacts DEF Course, Publishing
  <2>2. CASE u # t
    BY <1>1, <1>15, <2>2 DEF IInv, ScriptCourse, Course
  <2> QED
    BY <2>1, <2>2
<1>25. RecordAhead'
  <2>1. jobs'[client'.task].pub = p
    BY <1>1, <1>12 DEF Pub
  <2>2. file'[t].ack = "none"
    BY <1>1, <1>16, NoFileFacts
  <2> QED
    BY <1>10, <1>11, <1>12, <2>1, <2>2 DEF RecordAhead, Pub
<1>26. DiskLinked'
  BY <1>2, <1>10, <1>11 DEF IInv, DiskLinked
<1>27. Covered'
  <2> SUFFICES ASSUME NEW u \in Tasks, LetThrough(u) PROVE Backs(disk'[Pub(u)], Pub(u))
    BY <1>1, <1>17 DEF Covered, Backs
  <2>1. CASE Pub(u) = p
    BY <1>11, <1>18, <2>1
  <2>2. CASE Pub(u) # p
    BY <1>11, <2>2 DEF IInv, Covered
  <2> QED
    BY <2>1, <2>2
<1>28. Alone'
  <2>1. ASSUME script'[t].mode = "publish", NEW u \in Tasks, LetThrough(u)
        PROVE  Pub(u) # p
    BY <1>5, <1>14, <1>15, <1>18, <2>1
  <2> QED
    BY <1>1, <1>12, <1>17, <2>1 DEF IInv, Alone
<1>29. Baselines'
  <2>1. \A q \in Publications : disk'[q] # None =>
          \A u \in disk'[q].base : u < next + 1 /\ u # t
    <3>1. \A u : u < t /\ u \in Nat => u < next + 1 /\ u # t
      BY <1>2
    <3> QED
      BY <1>11, <1>20, <1>21, <3>1
  <2>2. ASSUME NEW u \in Tasks, LetThrough(u)
        PROVE  u \notin disk'[Pub(u)].base /\ (Pub(u) = p => u \notin r.base)
    <3>1. u \notin disk[Pub(u)].base /\ Pub(u) \in Publications
      BY <2>2 DEF IInv, Baselines
    <3> QED
      BY <1>11, <1>18, <2>2, <3>1
  <2> QED
    BY <1>1, <1>12, <1>17, <1>19, <1>21, <2>1, <2>2 DEF Baselines
<1>30. Reviews'
  BY <1>1, <1>12, <1>16, <1>17 DEF IInv, Reviews
<1>31. KeyboardSafe'
  <2>1. process = "up" => keyboard = Clean
    BY <1>1 DEF IInv, KeyboardSafe
  <2> QED
    BY <1>1, <2>1 DEF IInv, KeyboardSafe
<1> QED
  BY <1>22, <1>23, <1>24, <1>25, <1>26, <1>27, <1>28, <1>29, <1>30, <1>31 DEF IInv

\* The parts of the invariant that do not look at the input method, the process
\* or what may still go wrong.
LEMMA SameTasks ==
  ASSUME IInv, UNCHANGED <<jobs, next, client, disk, script, file, clicked, live, desk>>
  PROVE  InTurn' /\ ScriptCourse' /\ RecordAhead' /\ DiskLinked' /\ Covered' /\ Alone'
         /\ Baselines' /\ Reviews'
<1> USE DEF IInv
<1>1. \A u : LetThrough(u)' <=> LetThrough(u)
  BY DEF LetThrough
<1>2. Known' = Known /\ \A u : Pub(u)' = Pub(u) /\ NeedsReview(u)' = NeedsReview(u)
  BY SamePub DEF Known
<1>3. InTurn' /\ ScriptCourse'
  BY DEF InTurn, ScriptCourse, Course
<1>4. RecordAhead' /\ DiskLinked'
  BY <1>2 DEF RecordAhead, DiskLinked, Backs
<1>5. Covered' /\ Alone'
  BY <1>1, <1>2 DEF Covered, Backs, Alone
<1>6. Baselines' /\ Reviews'
  BY <1>1, <1>2 DEF Baselines, Reviews
<1> QED
  BY <1>3, <1>4, <1>5, <1>6

LEMMA ActivateKeyboardKeeps ==
  ASSUME IInv, NEW t, ActivateKeyboard(t)
  PROVE  IInv'
<1>1. /\ client.task # NoTask /\ keyboard' = Activating(Restored(keyboard))[4]
      /\ UNCHANGED <<jobs, next, client, disk, script, file, clicked, live, desk, locks,
                     retrySafe, process, troubles>>
  BY DEF ActivateKeyboard, Preparing, Active, PreparingOnly
<1>2. UserKept(keyboard') /\ InUse(keyboard')
  BY <1>1, KeyboardFacts
<1>3. KeyboardSafe'
  BY <1>1, <1>2 DEF KeyboardSafe
<1>4. Typed'
  BY <1>1 DEF IInv, Typed
<1> QED
  BY <1>1, <1>3, <1>4, SameTasks DEF IInv

LEMMA StartUpKeeps ==
  ASSUME IInv, StartUp
  PROVE  IInv'
<1>1. /\ UNCHANGED <<jobs, next, client, disk, script, file, clicked, live, desk, locks,
                     retrySafe>>
      /\ \/ keyboard' = Clean /\ process' = "up" /\ UNCHANGED troubles
         \/ UserKept(keyboard') /\ process' = "down" /\ Trouble
  BY KeyboardFacts DEF StartUp, Restore
<1>2. KeyboardSafe'
  BY <1>1, CleanKept DEF KeyboardSafe
<1>3. troubles' \in 0..MaxTroubles
  BY <1>1, TroubleSpent DEF Trouble, IInv, Typed
<1>4. Typed'
  BY <1>1, <1>3 DEF IInv, Typed
<1> QED
  BY <1>1, <1>2, <1>4, SameTasks DEF IInv

LEMMA PostAppearsKeeps ==
  ASSUME IInv, NEW t \in Tasks, PostAppears(t)
  PROVE  IInv'
<1>1. t \in clicked /\ live' = live \cup {t}
      /\ UNCHANGED <<jobs, next, client, disk, script, file, clicked,
                     desk, locks, retrySafe, process, keyboard, troubles>>
  BY DEF PostAppears
<1> USE <1>1 DEF IInv
<1>2. \A u : LetThrough(u)' <=> LetThrough(u)
  BY DEF LetThrough
<1>3. Known' = Known /\ \A u : Pub(u)' = Pub(u) /\ NeedsReview(u)' = NeedsReview(u)
  BY SamePub DEF Known
<1>4. Typed' /\ InTurn' /\ ScriptCourse' /\ KeyboardSafe'
  BY DEF Typed, InTurn, ScriptCourse, Course, KeyboardSafe
<1>5. RecordAhead' /\ DiskLinked' /\ Covered' /\ Alone'
  BY <1>2, <1>3 DEF RecordAhead, DiskLinked, Backs, Covered, Alone
<1>6. Baselines' /\ Reviews'
  BY <1>2, <1>3 DEF Baselines, Reviews
<1> QED
  BY <1>4, <1>5, <1>6

LEMMA OperatorReleasesKeeps ==
  ASSUME IInv, NEW t \in Tasks, OperatorReleases(t)
  PROVE  IInv'
<1>1. desk[t] = "pending" /\ desk' = [desk EXCEPT ![t] = "released"]
      /\ UNCHANGED <<jobs, next, client, disk, script, file, clicked,
                     live, locks, retrySafe, process, keyboard, troubles>>
  BY DEF OperatorReleases
<1> USE <1>1 DEF IInv
<1>2. \A u : LetThrough(u)' <=> LetThrough(u)
  BY DEF LetThrough
<1>3. Known' = Known /\ \A u : Pub(u)' = Pub(u) /\ NeedsReview(u)' = NeedsReview(u)
  BY SamePub DEF Known
<1>4. /\ desk \in [Tasks -> {"none", "pending", "released", "consumed", "held"}]
      /\ desk'[t] = "released" /\ \A u \in Tasks \ {t} : desk'[u] = desk[u]
      /\ desk' \in [Tasks -> {"none", "pending", "released", "consumed", "held"}]
  BY DEF Typed
<1>5. Typed' /\ ScriptCourse' /\ KeyboardSafe'
  BY <1>4 DEF Typed, ScriptCourse, Course, KeyboardSafe
<1>6. InTurn'
  BY <1>4 DEF InTurn
<1>7. RecordAhead' /\ DiskLinked' /\ Covered' /\ Alone'
  BY <1>2, <1>3 DEF RecordAhead, DiskLinked, Backs, Covered, Alone
<1>8. Baselines'
  BY <1>2, <1>3 DEF Baselines
<1>9. Reviews'
  <2>1. client.task # NoTask => client.task \in Tasks
    BY DEF Typed, Client
  <2> QED
    BY <1>2, <1>3, <1>4, <2>1 DEF Reviews
<1> QED
  BY <1>5, <1>6, <1>7, <1>8, <1>9

LEMMA LaunchScriptKeeps ==
  ASSUME IInv, NEW t, LaunchScript(t)
  PROVE  IInv'
<1> USE TaskFacts, SamePub
<1>1. /\ Active(t) /\ script[t].pc = "none"
      /\ script' = [script EXCEPT ![t] = Started(t)]
      /\ UNCHANGED <<jobs, next, file, clicked, live, desk, locks, client, disk, retrySafe,
                     process, keyboard, troubles>>
  BY DEF LaunchScript, Preparing, PreparingOnly
<1>2. /\ t \in Tasks /\ client.task = t /\ next = t + 1 /\ client.rec \in Record
      /\ script[t] \in Script
  BY <1>1, ActiveFacts
<1>3. PICK s : s = Started(t)
  OBVIOUS
<1>4. /\ s \in Script /\ s.pc = "starting" /\ s.mode = script[t].mode
      /\ s.base \subseteq client.rec.base
  <2>1. PICK k : k \in BOOLEAN /\ k = (script[t].mode = "recover" /\ client.rec.proof)
    <3>1. (script[t].mode = "recover" /\ client.rec.proof) \in BOOLEAN
      OBVIOUS
    <3> QED
      BY <3>1
  <2>2. PICK b, n :
          /\ b = (IF script[t].mode = "recover" THEN client.rec.base ELSE {})
          /\ n = (IF script[t].mode = "recover" THEN client.rec.tiles ELSE None)
    OBVIOUS
  <2>3. b \subseteq client.rec.base /\ b \in SUBSET Tasks /\ n \in Counts \cup {None}
    BY <1>2, <2>2 DEF Record
  <2>4. s = [pc |-> "starting", mode |-> script[t].mode, base |-> b, tiles |-> n,
             proof |-> k]
    BY <1>3, <2>1, <2>2 DEF Started
  <2> QED
    BY <1>2, <2>1, <2>3, <2>4 DEF Script, Pcs
<1>5. /\ script \in [Tasks -> Script] /\ script' \in [Tasks -> Script] /\ script'[t] = s
      /\ \A u \in Tasks \ {t} : script'[u] = script[u]
  BY <1>1, <1>2, <1>3, <1>4 DEF IInv, Typed
<1>6. ~LetThrough(t) /\ t \notin clicked
  BY <1>1, <1>2 DEF IInv, ScriptCourse, Course, LetThrough
<1>7. \A u \in Tasks : LetThrough(u)' <=> LetThrough(u)
  BY <1>1, <1>4, <1>5, <1>6 DEF LetThrough
<1>8. Known' \subseteq Known
  BY <1>1, <1>2, <1>4, <1>5 DEF Known
<1>9. Typed' /\ KeyboardSafe' /\ DiskLinked'
  BY <1>1, <1>5 DEF IInv, Typed, KeyboardSafe, DiskLinked
<1>10. InTurn'
  <2>1. \A u \in Tasks : u >= next => u # t
    BY <1>2
  <2> QED
    BY <1>1, <1>5, <2>1 DEF IInv, InTurn
<1>11. ScriptCourse'
  <2> SUFFICES ASSUME NEW u \in Tasks PROVE Course(u)'
    BY DEF ScriptCourse
  <2>1. Course(u)
    BY DEF IInv, ScriptCourse
  <2>2. CASE u = t
    BY <1>1, <1>4, <1>5, <1>6, <2>1, <2>2 DEF Course, Publishing
  <2>3. CASE u # t
    BY <1>1, <1>5, <2>1, <2>3 DEF Course
  <2> QED
    BY <2>2, <2>3
<1>12. RecordAhead' /\ Covered'
  BY <1>1, <1>7 DEF IInv, RecordAhead, Backs, Covered
<1>13. Alone'
  BY <1>1, <1>2, <1>4, <1>5, <1>7 DEF IInv, Alone
<1>14. Baselines'
  BY <1>1, <1>7, <1>8 DEF IInv, Baselines
<1>15. Reviews'
  BY <1>1, <1>7 DEF IInv, Reviews
<1> QED
  BY <1>9, <1>10, <1>11, <1>12, <1>13, <1>14, <1>15 DEF IInv

LEMMA CrashKeeps ==
  ASSUME IInv, Crash
  PROVE  IInv'
<1> USE TaskFacts, SamePub
<1>1. /\ client' = Idle /\ process' = "down"
      /\ file' = [t \in Tasks |-> IF script[t].pc = "over" THEN NoFile ELSE file[t]]
      /\ UNCHANGED <<jobs, next, disk, script, clicked, live, desk, locks, retrySafe>>
  BY DEF Crash
<1>2. client'.task = NoTask /\ client' \in Client
  BY <1>1 DEF Idle, Client, Acks
<1>3. file' \in [Tasks -> File]
  BY <1>1, NoFileFacts DEF IInv, Typed
<1>4. troubles' \in 0..MaxTroubles
  <2>1. troubles' = troubles \/ Trouble
    BY DEF Crash
  <2> QED
    BY <2>1, TroubleSpent DEF Trouble, IInv, Typed
<1>5. UserKept(keyboard')
  BY KeyboardFacts DEF Crash
<1>6. KeyboardSafe'
  BY <1>1, <1>5 DEF KeyboardSafe
<1>7. Typed'
  BY <1>1, <1>2, <1>3, <1>4 DEF IInv, Typed
<1>8. \A u \in Tasks : LetThrough(u)' => LetThrough(u)
  BY <1>1, NoFileFacts DEF LetThrough
<1>9. InTurn'
  BY <1>1, <1>2 DEF IInv, InTurn
<1>10. ScriptCourse'
  <2> SUFFICES ASSUME NEW u \in Tasks PROVE Course(u)'
    BY DEF ScriptCourse
  <2>1. Course(u)
    BY DEF IInv, ScriptCourse
  <2>2. CASE script[u].pc = "over"
    BY <1>1, <2>1, <2>2, NoFileFacts DEF Course, Publishing
  <2>3. CASE script[u].pc # "over"
    BY <1>1, <2>1, <2>3 DEF Course
  <2> QED
    BY <2>2, <2>3
<1>11. RecordAhead' /\ Known' = {}
  BY <1>2 DEF RecordAhead, Known
<1>12. DiskLinked' /\ Covered' /\ Alone'
  BY <1>1, <1>2, <1>8 DEF IInv, DiskLinked, Covered, Backs, Alone
<1>13. Baselines'
  <2>1. ASSUME NEW p \in Publications, disk[p] # None, NEW u \in disk[p].base
        PROVE  u < next /\ u # NoTask
    <3>1. u \in Tasks
      BY <2>1 DEF IInv, Typed, Record
    <3> QED
      BY <2>1, <3>1 DEF IInv, Baselines
  <2> QED
    BY <1>1, <1>2, <1>8, <1>11, <2>1 DEF IInv, Baselines
<1>14. Reviews'
  BY <1>1, <1>2, <1>8 DEF IInv, Reviews
<1> QED
  BY <1>6, <1>7, <1>9, <1>10, <1>11, <1>12, <1>13, <1>14 DEF IInv

-----------------------------------------------------------------------------
(* The invariant, and what it is for.                                      *)

LEMMA StepKeeps ==
  ASSUME IInv, Next
  PROVE  IInv'
<1>1. CASE AnswerAtOnce \/ PrepareTask \/ Crash \/ StartUp
  BY <1>1, AnswerAtOnceKeeps, PrepareTaskKeeps, CrashKeeps, StartUpKeeps
<1>2. ASSUME NEW t \in Tasks, ActivateKeyboard(t) \/ LaunchScript(t) \/ PreparationFails(t)
      PROVE  IInv'
  BY <1>2, ActivateKeyboardKeeps, LaunchScriptKeeps, PreparationFailsKeeps
<1>3. ASSUME NEW t \in Tasks, PrepareContent(t) \/ LoadRecoveryContext(t) \/ VerifyAccount(t)
                              \/ OpenEditor(t) \/ EnterCaption(t) \/ WaitForSubmission(t)
      PROVE  IInv'
  BY <1>3, AdvanceActions
<1>4. ASSUME NEW t \in Tasks, CaptureBaseline(t) \/ ApplySettings(t) \/ AskToCommit(t)
                              \/ Click(t) \/ ReportSubmitted(t)
      PROVE  IInv'
  BY <1>4, CaptureBaselineKeeps, CheckpointActions, ClickKeeps
<1>5. ASSUME NEW t \in Tasks, Locate(t) \/ ScriptFails(t) \/ ScriptKilled(t)
                              \/ PostAppears(t)
      PROVE  IInv'
  BY <1>5, EndActions, ScriptKilledKeeps, PostAppearsKeeps
<1>6. ASSUME NEW t \in Tasks, PollEditor(t) \/ PollCommitting(t) \/ PollSubmitted(t)
      PROVE  IInv'
  BY <1>6, PollEditorKeeps, PollCommittingKeeps, PollSubmittedKeeps
<1>7. ASSUME NEW t \in Tasks, OperatorReleases(t) \/ ConsumeRelease(t) \/ ReviewExpires(t)
                              \/ AckReviewed(t)
      PROVE  IInv'
  BY <1>7, OperatorReleasesKeeps, ReviewActions
<1>8. ASSUME NEW t \in Tasks, PollResult(t) \/ StopTask(t)
      PROVE  IInv'
  BY <1>8, PollResultKeeps, StopTaskKeeps
<1>9. ASSUME NEW q \in Requests, Request(q)
      PROVE  IInv'
  BY <1>9, RequestKeeps
<1> QED
  BY <1>1, <1>2, <1>3, <1>4, <1>5, <1>6, <1>7, <1>8, <1>9 DEF Next, PhoneStep

LEMMA StutterKeeps ==
  ASSUME IInv, UNCHANGED phone
  PROVE  IInv'
<1>1. UNCHANGED <<jobs, next, client, disk, script, file, clicked, live, desk, locks,
                  retrySafe, process, keyboard, troubles>>
  BY DEF phone
<1>2. Typed' /\ KeyboardSafe'
  BY <1>1 DEF IInv, Typed, KeyboardSafe
<1> QED
  BY <1>1, <1>2, SameTasks DEF IInv

\* Ledger in memory and on disk, checkpoint files, scripts, locks, reviews and
\* input method keep to the invariant in every reachable state: between any two
\* steps of client and script, and after the death of either.
THEOREM Invariance == Spec => []IInv
<1>1. IInv /\ [Next]_phone => IInv'
  BY StepKeeps, StutterKeeps
<1> QED
  BY InitIInv, <1>1, PTL DEF Spec

\* Every variable holds what it is declared to hold, and the ledger calls a
\* publication a success when its link is confirmed and only then, whatever a
\* script, a poll, a stop or a crash has last written to it.
THEOREM TypeCorrect == Spec => []TypeOK
<1>1. IInv => TypeOK
  <2> SUFFICES ASSUME IInv PROVE TypeOK
    OBVIOUS
  <2>1. next \in 1..(MaxTasks + 1)
    <3>1. next \in 1..(Len(jobs) + 1) /\ Len(jobs) \in Nat /\ Len(jobs) <= MaxTasks
      BY DEF IInv, Typed
    <3> QED
      BY <3>1, TikTokPublicationAssumption
  <2>2. keyboard \in Keyboards
    BY DEF IInv, KeyboardSafe, UserKept
  <2>3. \A t \in Tasks : file[t].result \in ScriptResult \cup {None}
    BY DEF IInv, Typed, File
  <2> QED
    BY <2>1, <2>2, <2>3 DEF IInv, Typed, DiskLinked, TypeOK, Client
<1> QED
  BY Invariance, <1>1, PTL

\* A publication is posted at most once: of two tasks of one publication, the
\* script of at most one gets as far as its "Post" button, in whatever order the
\* client and the scripts it has lost track of go on.
THEOREM PublishedAtMostOnce == Spec => []AtMostOnce
<1>1. IInv => AtMostOnce
  BY DEF IInv, Typed, Alone, LetThrough, AtMostOnce
<1> QED
  BY Invariance, <1>1, PTL

\* Once a script has activated "Post", the ledger on disk has the commitment and
\* the evidence a recovery relies on, and no baseline that would hide the post.
THEOREM CommitIsRecorded == Spec => []CommitRecorded
<1>1. IInv => CommitRecorded
  BY DEF IInv, Typed, Covered, Baselines, Backs, LetThrough, CommitRecorded
<1> QED
  BY Invariance, <1>1, PTL

\* A commercial draft under local review is posted on the release given for it,
\* which is claimed before the script is let through.
THEOREM ClickHasRelease == Spec => []ClickNeedsRelease
<1>1. IInv => ClickNeedsRelease
  BY DEF IInv, Typed, Reviews, LetThrough, ClickNeedsRelease
<1> QED
  BY Invariance, <1>1, PTL

\* A client that waits for work has given the input method back, however often
\* it died, or failed, while it was activating or restoring it.
THEOREM KeyboardIsRestored == Spec => []KeyboardRestored
<1>1. IInv => KeyboardRestored
  BY DEF IInv, KeyboardSafe, Clean, KeyboardRestored
<1> QED
  BY Invariance, <1>1, PTL
=============================================================================
