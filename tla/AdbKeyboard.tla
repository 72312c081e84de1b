------------------------------ MODULE AdbKeyboard ------------------------------
(***************************************************************************)
(* The trusted input method of a publication (mobile/src/adb-keyboard.ts). *)
(* What the user had is written to restore.json before Android is touched, *)
(* and the file goes when everything is back.  Every command may fail, and *)
(* the client may die between any two of them.                             *)
(***************************************************************************)
EXTENDS Naturals

VARIABLE keyboard

\* Android's settings: the default input method, and whether AdbKeyboard is
\* enabled as an input method and as a package.
Settings == [default : {"user", "adb"}, ime : BOOLEAN, package : BOOLEAN]
Untouched == [default |-> "user", ime |-> FALSE, package |-> FALSE]
NotSaved == [Untouched EXCEPT !.default = "none"]

Keyboards == [now : Settings, saved : Settings \cup {NotSaved}]

KeyboardInit == keyboard = [now |-> Untouched, saved |-> NotSaved]

HasPendingRecovery(k) == k.saved # NotSaved
InUse(k) == k.now.default = "adb"

\* The commands of activateForPublish, in order, after the file is written.
Activating(k) ==
  LET written == [k EXCEPT !.saved = k.now]
      enabled == [written EXCEPT !.now.package = TRUE]
      usable  == [enabled EXCEPT !.now.ime = TRUE]
  IN  <<written, enabled, usable, [usable EXCEPT !.now.default = "adb"]>>

\* The commands of restore, in order, before the file is removed.
Restoring(k) ==
  LET typed    == [k EXCEPT !.now.default = k.saved.default]
      disabled == [typed EXCEPT !.now.ime = k.saved.ime]
  IN  <<k, typed, disabled, [disabled EXCEPT !.now.package = k.saved.package]>>

\* What restore makes of k: it has succeeded, or stopped on the way.
Restored(k) ==
  IF HasPendingRecovery(k) THEN [Restoring(k)[4] EXCEPT !.saved = NotSaved] ELSE k
HalfRestored(k) ==
  {Restoring(k)[i] : i \in IF HasPendingRecovery(k) THEN 1..4 ELSE {}}

Restore == keyboard' = Restored(keyboard)

=============================================================================
