---------------------------- MODULE BootSession -----------------------------
(***************************************************************************)
(* The front end around a game: Run and BootGame take the support session, *)
(* the clocks and the display one after the other and give them back on    *)
(* every way out: the hotkey, a core that stops, a boot that fails, an     *)
(* exception during a display handoff, Horizon's exit request.  The        *)
(* process may die at any step and is then launched again.                 *)
(***************************************************************************)
EXTENDS ClockSession, SupportBundle

VARIABLES
  pc,         \* the position of Run and BootGame
  console,    \* console_active
  window,     \* who holds buffers of the native window
  appRunning, \* app_running
  accepted    \* BootCore returned true

bootVars == <<pc, console, window, appRunning, accepted>>
supportVars == <<sessionVars, bundleVars>>
vars == <<bootVars, clockVars, supportVars>>

Init ==
  /\ ClockInit /\ SessionInit /\ BundleInit
  /\ pc = "dead" /\ console = FALSE /\ window = {}
  /\ appRunning = TRUE /\ accepted = TRUE

\* Nothing of the support component is in progress.
Idle == sup = "idle"

\* Run up to the menu: InitializeConsole, then the recovery.
Launch ==
  /\ pc = "dead"
  /\ RecoverInterruptedSupportSession
  /\ console' = TRUE /\ window' = {"console"}
  /\ pc' = "menu"
  /\ UNCHANGED <<appRunning, accepted, clockVars, bundleVars>>

\* The diagnostics page.
Diagnose ==
  /\ pc = "menu"
  /\ GenerateSupportBundle
  /\ UNCHANGED <<bootVars, clockVars>>

\* The menu's Exit, or an exit request while the menu is shown.
Exit ==
  /\ pc = "menu" /\ Idle
  /\ \E running \in BOOLEAN : appRunning' = running
  /\ pc' = "shutdown"
  /\ UNCHANGED <<console, window, accepted, clockVars, supportVars>>

-----------------------------------------------------------------------------
(* BootGame, once the selected file was found bootable. *)

BeginGame ==
  /\ pc = "menu"
  /\ BeginSupportSession
  /\ pc' = "clocks"
  /\ UNCHANGED <<console, window, appRunning, accepted, clockVars, bundleVars>>

\* AutoClockSession::Start; when it is disabled in the settings no clock is touched.
StartClocks ==
  /\ pc = "clocks" /\ Idle
  /\ StartSucceeds \/ StartFails
  /\ pc' = "readings"
  /\ UNCHANGED <<console, window, appRunning, accepted, supportVars>>

ClockReadings ==
  /\ pc = "readings" /\ clk.phase \in {"off", "active"}
  /\ UpdateSupportClockReadings
  /\ pc' = "suspend"
  /\ UNCHANGED <<console, window, appRunning, accepted, clockVars, bundleVars>>

\* Mutant: the window is prepared although the previous renderer still has buffers in it.
PrepareDisplayWindowAnyway(w) == {TRUE, FALSE}

\* PrepareDisplayWindow refuses a window whose buffers are still configured, and may fail.
PrepareDisplayWindow(w) == IF w = {} THEN {TRUE, FALSE} ELSE {FALSE}

\* The console is closed, then the window prepared for the renderer; a failure is thrown.
SuspendConsole ==
  /\ pc = "suspend" /\ Idle
  /\ console' = FALSE /\ window' = {}
  /\ \E prepared \in PrepareDisplayWindow({}) : pc' = IF prepared THEN "boot" ELSE "unwind"
  /\ UNCHANGED <<appRunning, accepted, clockVars, supportVars>>

BootCore ==
  /\ pc = "boot"
  /\ \E ok \in BOOLEAN :
       /\ accepted' = ok
       /\ window' = IF ok THEN {"graphics"} ELSE window
       /\ pc' = IF ok THEN "game" ELSE "stop"
  /\ UNCHANGED <<console, appRunning, clockVars, supportVars>>

\* The hotkey, or the core stops by itself.
GameStops ==
  /\ pc = "game"
  /\ pc' = "stop"
  /\ UNCHANGED <<console, window, appRunning, accepted, clockVars, supportVars>>

\* Horizon asks the application to exit: the session is ended before the core is stopped.
ExitRequested ==
  /\ pc = "game"
  /\ EndSupportSession("clean_exit")
  /\ appRunning' = FALSE
  /\ pc' = "stop"
  /\ UNCHANGED <<console, window, accepted, clockVars, bundleVars>>

\* Core::Stop and Core::Shutdown; the driver may not have given its buffers back.
StopCore ==
  /\ pc = "stop" /\ Idle
  /\ window' \in {{}, window}
  /\ EndSupportSession(IF accepted THEN "clean_exit" ELSE "boot_failed")
  /\ accepted' = TRUE   \* not used any more
  /\ pc' = "release"
  /\ UNCHANGED <<console, appRunning, clockVars, bundleVars>>

ReleaseClocks ==
  /\ pc = "release" /\ Idle
  /\ StopClocks
  /\ pc' = "resume"
  /\ UNCHANGED <<console, window, appRunning, accepted, supportVars>>

\* The window is prepared for the console, which is initialised; both may fail and throw.
ResumeConsole ==
  /\ pc = "resume" /\ clk.phase = "off" /\ appRunning
  /\ \E prepared \in PrepareDisplayWindow(window), ready \in BOOLEAN :
       /\ console' = (prepared /\ ready)
       /\ window' = IF prepared /\ ready THEN window \union {"console"} ELSE window
       /\ pc' = IF prepared /\ ready THEN "menu" ELSE "unwind"
  /\ UNCHANGED <<appRunning, accepted, clockVars, supportVars>>

\* After an exit request BootGame, GameBrowser and the menu loop return without drawing.
SkipResume ==
  /\ pc = "resume" /\ clk.phase = "off" /\ ~appRunning
  /\ pc' = "shutdown"
  /\ UNCHANGED <<console, window, appRunning, accepted, clockVars, supportVars>>

\* An exception leaves BootGame: its AutoClockSession is destroyed.
Unwind ==
  /\ pc = "unwind"
  /\ StopClocks
  /\ pc' = "shutdown"
  /\ UNCHANGED <<console, window, appRunning, accepted, supportVars>>

-----------------------------------------------------------------------------
\* The end of the process, one way or the other: what it held is gone.
Gone ==
  /\ console' = FALSE /\ window' = {}
  /\ appRunning' = TRUE /\ accepted' = TRUE
  /\ pc' = "dead"

\* ShutdownConsole closes the console if there is one, and Run returns.
Shutdown ==
  /\ pc = "shutdown" /\ clk.phase = "off"
  /\ Gone
  /\ ClockEnds /\ SessionEnds
  /\ NoFault
  /\ UNCHANGED bundleVars

Crash ==
  /\ pc # "dead" /\ Fault
  /\ Gone
  /\ ClockEnds /\ SessionEnds /\ BundleCrash

\* A function that was called goes on.
Called ==
  \/ ClockStep /\ UNCHANGED <<bootVars, supportVars>>
  \/ SessionStep /\ UNCHANGED <<bootVars, clockVars, bundleVars>>
  \/ BundleStep /\ UNCHANGED <<bootVars, clockVars>>

\* The other clock manager.  Nothing reads an override while no game is booted or running, so a
\* change made then is the same as one made just before the clocks are started.
Manage ==
  /\ pc \notin {"dead", "menu"} /\ Fault
  /\ ManagerWrites
  /\ UNCHANGED <<bootVars, card, dirs, writing, active, status, sup, begun, excused, bundleVars>>

Next ==
  \/ Launch \/ Diagnose \/ Exit \/ BeginGame \/ StartClocks \/ ClockReadings
  \/ SuspendConsole \/ BootCore \/ GameStops \/ ExitRequested \/ StopCore
  \/ ReleaseClocks \/ ResumeConsole \/ SkipResume \/ Unwind \/ Shutdown
  \/ Called
  \/ Crash
  \/ Manage

Spec == Init /\ [][Next]_vars

-----------------------------------------------------------------------------
\* Whenever the menu is ready no session is being recorded, and each one that ever began has a
\* final summary, written by this launch or recovered after the one that died: only a failure
\* to write that summary, or to remove the marker, excuses a session.
SessionsAreAccounted ==
  pc = "menu" /\ Idle =>
    /\ active = NoSession
    /\ \A s \in begun \ excused : card[Summary(s)] \in Final

\* What draws text has the console's framebuffer, in a window no renderer holds buffers of
\* (Main.cpp:909: never draw into a missing framebuffer).
DrawsOnlyToConsole ==
  /\ pc \in {"menu", "clocks", "readings", "suspend"} => console
  /\ console => window = {"console"}
=============================================================================
