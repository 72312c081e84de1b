----------------------------- MODULE OpsExecutor -----------------------------
(***************************************************************************)
(* What the phone's maintenance operations do to the device                *)
(* (ops-executor.ts).  An execution is a request and the number of the     *)
(* time it was started.  Plain reads, screenshots and alerts are one       *)
(* step; setting the brightness is a read, up to two writes, a second      *)
(* read, and the writes that undo the first ones.  A command that fails    *)
(* may have taken effect.                                                  *)
(***************************************************************************)
EXTENDS Naturals

CONSTANTS
  Tasks,        \* requests, named by the task of the server they carry
  MaxStarts,    \* times a request may be started
  Levels,
  Found,        \* settings at the start
  Wanted,       \* what each request for a brightness asks for
  MaxTroubles   \* things that may go wrong, on either side

Screen == [level : Levels, mode : {"manual", "automatic"}]

ASSUME ExecutorAssumption ==
  MaxStarts \in Nat /\ MaxTroubles \in Nat
  /\ Levels # {} /\ Found \subseteq Screen /\ Wanted \in [Tasks -> Screen]

VARIABLES
  screen,    \* Android's brightness settings
  job,       \* executions
  troubles   \* things that have gone wrong: troubles, timeouts, restarts...

executorVars == <<screen, job, troubles>>

Jobs == Tasks \X (1..MaxStarts)

Steps == {"idle", "command", "read", "mode", "level", "verify",
          "undoLevel", "undoMode", "throw", "ok", "failed", "killed"}
Running == Steps \ {"idle", "ok", "failed", "killed"}
Setting == Running \ {"command"}

\* "read" stands for every operation that only looks at the device.
Operations == {"read", "capture", "brightness", "alert"}

\* clean: no other set ran meanwhile and no undoing command failed.
Job == [step : Steps, op : {"none"} \cup Operations,
        held : BOOLEAN, want : Screen, prev : Screen, clean : BOOLEAN]

Still == CHOOSE x \in Screen : TRUE
NoJob == [step |-> "idle", op |-> "none", held |-> FALSE, want |-> Still,
          prev |-> Still, clean |-> FALSE]

ExecutorInit ==
  /\ screen \in Found
  /\ job = [j \in Jobs |-> NoJob]
  /\ troubles = 0

Trouble == troubles < MaxTroubles /\ troubles' = troubles + 1

IsRunning(j) == job[j].step \in Running
IsSetting(j) == job[j].step \in Setting

-----------------------------------------------------------------------------
(* setBrightness.                                                          *)

Written(field, value) == [screen EXCEPT ![field] = value]
Moves(j, x, s) == job' = [job EXCEPT ![j] = x] /\ screen' = s

\* Only what differs from the values read is written, the mode first.
AfterMode(x) == IF x.want.level # x.prev.level THEN "level" ELSE "verify"
AfterRead(x) == IF x.want.mode # x.prev.mode THEN "mode" ELSE AfterMode(x)

\* Seeded defect: a write counts as attempted once it has succeeded.
UndoFromTheSucceeded(x, step) ==
  IF x.step = "verify" /\ x.want.level # x.prev.level THEN "undoLevel"
  ELSE IF x.step # "mode" /\ x.want.mode # x.prev.mode THEN "undoMode" ELSE "throw"

\* Where a failure leads: to the last setting whose write was attempted.
UndoFrom(x, step) ==
  IF step = "level" /\ x.want.level # x.prev.level THEN "undoLevel"
  ELSE IF x.want.mode # x.prev.mode THEN "undoMode" ELSE "throw"

ReadBrightness(j) ==
  /\ job[j].step = "read"
  /\ LET x == [job[j] EXCEPT !.prev = screen]
     IN Moves(j, [x EXCEPT !.step = AfterRead(x)], screen)
  /\ UNCHANGED troubles

\* One write; a command that fails may have taken effect all the same.
Write(j, field, next, undo) ==
  LET done == Written(field, job[j].want[field])
  IN \/ Moves(j, [job[j] EXCEPT !.step = next], done) /\ UNCHANGED troubles
     \/ /\ Trouble
        /\ \E s \in {screen, done} : Moves(j, [job[j] EXCEPT !.step = undo], s)

WriteMode(j) ==
  /\ job[j].step = "mode"
  /\ Write(j, "mode", AfterMode(job[j]), UndoFrom(job[j], "mode"))

WriteLevel(j) ==
  /\ job[j].step = "level"
  /\ Write(j, "level", "verify", UndoFrom(job[j], "level"))

\* The read of the result fails.
VerifyFails(j) ==
  /\ job[j].step = "verify"
  /\ Trouble
  /\ Moves(j, [job[j] EXCEPT !.step = UndoFrom(job[j], "level")], screen)

\* A restoring command that fails is let go.
Restore(j, field, next) ==
  LET done == Written(field, job[j].prev[field])
  IN \/ Moves(j, [job[j] EXCEPT !.step = next], done) /\ UNCHANGED troubles
     \/ /\ Trouble
        /\ \E s \in {screen, done} :
             Moves(j, [job[j] EXCEPT !.step = next, !.clean = FALSE], s)

UndoLevel(j) ==
  /\ job[j].step = "undoLevel"
  /\ Restore(j, "level", UndoFrom(job[j], "mode"))

UndoMode(j) ==
  /\ job[j].step = "undoMode"
  /\ Restore(j, "mode", "throw")

BrightnessStep(j) ==
  \/ ReadBrightness(j) \/ WriteMode(j) \/ WriteLevel(j)
  \/ VerifyFails(j) \/ UndoLevel(j) \/ UndoMode(j)

-----------------------------------------------------------------------------
(* How an execution starts and ends.  The session that asked for it holds  *)
(* one of its slots until the answer.                                      *)

Start(j, op) ==
  /\ job' = [i \in Jobs |->
       CASE i = j -> [step |-> IF op = "brightness" THEN "read" ELSE "command",
                      op |-> op, held |-> TRUE, want |-> Wanted[j[1]], prev |-> Still,
                      clean |-> \A k \in Jobs : ~IsSetting(k)]
         [] i # j /\ op = "brightness" /\ IsSetting(i) ->
              [job[i] EXCEPT !.clean = FALSE]
         [] OTHER -> job[i]]
  /\ UNCHANGED <<screen, troubles>>

Ended(j, step) == [job[j] EXCEPT !.step = step, !.held = FALSE]

Succeed(j) ==
  /\ job[j].step \in {"command", "verify"}
  /\ Moves(j, Ended(j, "ok"), screen)

Fail(j) ==
  /\ \/ job[j].step \in {"command", "read"} /\ Trouble
     \/ job[j].step = "throw" /\ UNCHANGED troubles
  /\ Moves(j, Ended(j, "failed"), screen)
=============================================================================
