--------------------------- MODULE SupportSession ---------------------------
(***************************************************************************)
(* The life of a support session on the SD card: its summary, and the      *)
(* marker that names the session being recorded.  A launch that finds a    *)
(* marker takes the session for interrupted.  Every file is replaced by    *)
(* WriteTextAtomic, which removes the old file before it renames the new   *)
(* one; the process may die between any two operations on the card.        *)
(* Telemetry, checkpoints, events and settings are files nothing here      *)
(* decides on; they are left out.                                          *)
(***************************************************************************)
EXTENDS Naturals, FiniteSets

CONSTANTS
  Sessions,         \* names of session directories
  MaxDisturbances   \* bound: failed operations on the card, crashes, interference

ASSUME SessionsAssumption ==
  /\ IsFiniteSet(Sessions) /\ MaxDisturbances \in Nat
  /\ {"none", "absent"} \intersect Sessions = {}

VARIABLES
  card,       \* the files, by kind and session
  dirs,       \* the session directories
  active,     \* s_session: the session being recorded
  status,     \* the status EndSupportSession was called with
  sup,        \* the position in a function of this component, or "idle"
  writing,    \* WriteTextAtomic has removed the old file
  disturbed,  \* the number of disturbances
  begun,      \* the sessions BeginSupportSession returned true for
  excused     \* those whose final summary or marker removal failed

cardVars == <<card, dirs, writing, disturbed>>
sessionVars == <<cardVars, active, status, sup, begun, excused>>

NoSession == "none"
Absent == "absent"
Marker == <<"marker", NoSession>>
Summary(s) == <<"summary", s>>
Bundled(s) == <<"bundled", s>>
Files == {Marker} \union ({"summary", "bundled"} \X Sessions)
Final == {"clean_exit", "boot_failed", "abnormal_exit"}

SessionInit ==
  /\ card = [f \in Files |-> Absent]
  /\ dirs = {} /\ active = NoSession /\ status = "clean_exit"
  /\ sup = "idle" /\ writing = FALSE /\ disturbed = 0
  /\ begun = {} /\ excused = {}

\* An operation on the card fails, or something else disturbs the program.
Fault == disturbed < MaxDisturbances /\ disturbed' = disturbed + 1
NoFault == disturbed' = disturbed
Faulted == disturbed' > disturbed

\* WriteTextAtomic(f, v): the temporary file is written, the old one removed, the new one renamed.
WriteTextAtomic(f, v, next, failed) ==
  /\ \/ /\ ~writing /\ Fault
        /\ sup' = failed
        /\ UNCHANGED <<card, writing>>
     \/ /\ ~writing /\ NoFault
        /\ card' = [card EXCEPT ![f] = Absent] /\ writing' = TRUE
        /\ UNCHANGED sup
     \/ /\ writing /\ NoFault
        /\ card' = [card EXCEPT ![f] = v] /\ writing' = FALSE
        /\ sup' = next
     \/ /\ writing /\ Fault
        /\ writing' = FALSE /\ sup' = failed
        /\ UNCHANGED card
  /\ UNCHANGED dirs

\* fs::remove(ActiveMarker()): its error is ignored.
RemoveMarker ==
  /\ \/ NoFault /\ card' = [card EXCEPT ![Marker] = Absent]
     \/ Fault /\ UNCHANGED card
  /\ sup' = "idle"
  /\ UNCHANGED <<dirs, writing>>

Excuse(s) == excused' = IF Faulted THEN excused \union {s} ELSE excused

-----------------------------------------------------------------------------
\* BeginSupportSession: a directory, a running summary, then the marker.  It is called from the
\* menu, where no session is active.
BeginSupportSession ==
  /\ sup = "idle"
  /\ \/ \E s \in Sessions \ dirs :
          dirs' = dirs \union {s} /\ active' = s /\ sup' = "begin_summary" /\ NoFault
     \/ Fault /\ UNCHANGED <<dirs, active, sup>>
  /\ UNCHANGED <<card, writing, status, begun, excused>>

BeginSummary ==
  /\ sup = "begin_summary"
  /\ WriteTextAtomic(Summary(active), "running", "begin_marker", "begin_marker")
  /\ UNCHANGED <<active, status, begun, excused>>

BeginMarker ==
  /\ sup = "begin_marker"
  /\ WriteTextAtomic(Marker, active, "idle", "begin_error")
  /\ begun' = IF sup' = "idle" THEN begun \union {active} ELSE begun
  /\ UNCHANGED <<active, status, excused>>

BeginError ==
  /\ sup = "begin_error"
  /\ WriteTextAtomic(Summary(active), "diagnostics_error", "idle", "idle")
  /\ active' = IF sup' = "idle" THEN NoSession ELSE active
  /\ UNCHANGED <<status, begun, excused>>

\* UpdateSupportClockReadings writes the running summary again.
UpdateSupportClockReadings ==
  /\ sup = "idle"
  /\ sup' = IF active = NoSession THEN "idle" ELSE "update"
  /\ UNCHANGED <<cardVars, active, status, begun, excused>>

UpdateSummary ==
  /\ sup = "update"
  /\ WriteTextAtomic(Summary(active), "running", "idle", "idle")
  /\ UNCHANGED <<active, status, begun, excused>>

\* EndSupportSession(st): the final summary, then the marker is removed, whether the summary
\* could be written or not.
EndSupportSession(st) ==
  /\ sup = "idle"
  /\ sup' = IF active = NoSession THEN "idle" ELSE "end_summary"
  /\ status' = IF active = NoSession THEN status ELSE st
  /\ UNCHANGED <<cardVars, active, begun, excused>>

EndSummary ==
  /\ sup = "end_summary"
  /\ WriteTextAtomic(Summary(active), status, "end_marker", "end_marker")
  /\ Excuse(active)
  /\ UNCHANGED <<active, status, begun>>

EndMarker ==
  /\ sup = "end_marker"
  /\ RemoveMarker
  /\ Excuse(active)
  /\ active' = NoSession /\ status' = "clean_exit"
  /\ UNCHANGED begun

\* RecoverInterruptedSupportSession.
RecoverInterruptedSupportSession ==
  /\ sup = "idle"
  /\ sup' = IF card[Marker] = Absent THEN "idle" ELSE "recover_summary"
  /\ UNCHANGED <<cardVars, active, status, begun, excused>>

\* Mutant: without a summary to complete, none is written.
RecoverSummaryIfPresent ==
  /\ sup = "recover_summary"
  /\ IF card[Summary(card[Marker])] = Absent /\ ~writing
       THEN sup' = "recover_marker" /\ UNCHANGED cardVars
       ELSE WriteTextAtomic(Summary(card[Marker]), "abnormal_exit", "recover_marker", "recover_marker")
  /\ Excuse(card[Marker])
  /\ UNCHANGED <<active, status, begun>>

\* The summary left behind is completed, or replaced by a short one if there is none.
RecoverSummary ==
  /\ sup = "recover_summary"
  /\ WriteTextAtomic(Summary(card[Marker]), "abnormal_exit", "recover_marker", "recover_marker")
  /\ Excuse(card[Marker])
  /\ UNCHANGED <<active, status, begun>>

RecoverMarker ==
  /\ sup = "recover_marker"
  /\ RemoveMarker
  /\ Excuse(card[Marker])
  /\ UNCHANGED <<active, status, begun>>

SessionStep ==
  \/ BeginSummary \/ BeginMarker \/ BeginError \/ UpdateSummary
  \/ EndSummary \/ EndMarker \/ RecoverSummary \/ RecoverMarker

\* The process ends: only the card is left.
SessionEnds ==
  /\ active' = NoSession /\ status' = "clean_exit"
  /\ sup' = "idle" /\ writing' = FALSE
  /\ UNCHANGED <<card, dirs, begun, excused>>
=============================================================================
