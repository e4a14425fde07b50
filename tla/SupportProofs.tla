---------------------------- MODULE SupportProofs ----------------------------
(***************************************************************************)
(* Proofs about the support sessions and bundles on the card, for every    *)
(* set of session names and any number of failures and crashes: when the   *)
(* menu is ready every session that began has a final summary, a session   *)
(* marked as bundled was delivered with the summary it has, and exactly    *)
(* the newest bundle is unsent.                                            *)
(***************************************************************************)
EXTENDS BootSession, TLAPS

\* The functions of the component, by what they work on.
Beginning == sup \in {"begin_summary", "begin_marker", "begin_error"}
Ending == sup \in {"end_summary", "end_marker"}
Recovering == sup \in {"recover_summary", "recover_marker"}
Renaming == sup \in {"bundle_sent", "bundle_publish", "bundle_rollback"}
Bundling == Renaming \/ sup \in {"bundle_write", "bundle_mark"}

Values == {Absent, "running", "diagnostics_error", "present"} \union Final \union Sessions
Contents == {<<>>} \union UNION {[S -> Values] : S \in SUBSET Sessions}
Bundles == [content : Contents, sent : BOOLEAN]

SupportTypeOK ==
  /\ card \in [Files -> Values] /\ card[Marker] \in Sessions \union {Absent}
  /\ dirs \subseteq Sessions /\ begun \subseteq dirs
  /\ active \in Sessions \union {NoSession} /\ status \in Final
  /\ Beginning \/ Ending \/ Recovering \/ Bundling \/ sup \in {"idle", "update"}
  /\ disturbed \in Nat
  /\ bundles \in Seq(Bundles)
  /\ job \in [content : Contents, renamed : SUBSET Nat, left : SUBSET Sessions]
  /\ torn \in BOOLEAN

\* Where the front end is while a function of the component runs, and when it has a session.
PositionInv ==
  /\ pc \in {"dead", "boot", "game", "resume", "unwind", "shutdown"} => sup = "idle"
  /\ Beginning => pc = "clocks"
  /\ sup = "update" => pc = "suspend"
  /\ Ending => pc \in {"stop", "release"}
  /\ Recovering \/ Bundling => pc = "menu"
  /\ pc \in {"dead", "menu", "resume"} => active = NoSession
  /\ pc = "release" /\ sup = "idle" => active = NoSession
  /\ Beginning \/ sup = "update" \/ Ending => active \in dirs

\* Nothing is left of an earlier session but a marker that could not be removed.
Settled == card[Marker] = Absent \/ card[Marker] \in excused

\* A session without a final summary is the one the marker names, and the marker names the
\* session being recorded.
MarkerInv ==
  /\ \A s \in begun \ excused : card[Summary(s)] \in Final \/ card[Marker] = s
  /\ active # NoSession /\ ~Beginning => active \in begun /\ card[Marker] = active
  /\ Beginning => active \notin begun
  /\ Beginning \/ (active = NoSession /\ pc # "dead" /\ ~Recovering) => Settled
  /\ Recovering => card[Marker] # Absent
  /\ sup = "recover_marker" => card[Marker] \in excused \/ card[Summary(card[Marker])] \in Final
  /\ sup = "end_marker" => active \in excused \/ card[Summary(active)] \in Final

\* A session that may still be written to is not marked as bundled.
DeliveryInv ==
  /\ \A s \in Sessions \ dirs : card[Bundled(s)] = Absent
  /\ active # NoSession => card[Bundled(active)] = Absent
  /\ card[Marker] # Absent => card[Marker] \in excused \/ card[Bundled(card[Marker])] = Absent
  /\ Renaming \/ sup = "bundle_mark" =>
       /\ job.left \subseteq DOMAIN job.content /\ DOMAIN job.content \subseteq dirs
       /\ \A s \in DOMAIN job.content : job.content[s] = card[Summary(s)]
  /\ sup = "bundle_mark" =>
       Len(bundles) >= 1 /\ bundles[Len(bundles)].content = job.content

OnlyNewestUnsent == \A i \in 1 .. Len(bundles) : bundles[i].sent <=> i < Len(bundles)

\* While bundles are renamed, the renames account for every difference.
RenameInv ==
  /\ Renaming => job.renamed \subseteq 1 .. Len(bundles)
  /\ sup = "bundle_publish" => Unsent = {}
  /\ ~torn /\ ~Renaming => OnlyNewestUnsent
  /\ ~torn /\ Renaming => \A i \in 1 .. Len(bundles) :
       IF i \in job.renamed THEN bundles[i].sent /\ i = Len(bundles)
       ELSE bundles[i].sent <=> i < Len(bundles)

SupportInv ==
  SupportTypeOK /\ PositionInv /\ MarkerInv /\ DeliveryInv /\ BundledIsDelivered /\ RenameInv

-----------------------------------------------------------------------------
(* The files of different kinds and sessions are different files.          *)
LEMMA FileFacts ==
  /\ Marker \in Files
  /\ \A s \in Sessions :
       /\ Summary(s) \in Files /\ Bundled(s) \in Files
       /\ Summary(s) # Marker /\ Bundled(s) # Marker
  /\ \A s, t \in Sessions :
       /\ Summary(s) # Bundled(t)
       /\ Summary(s) = Summary(t) => s = t
       /\ Bundled(s) = Bundled(t) => s = t
BY DEF Files, Marker, Summary, Bundled

(* The names that stand for nothing name no session and no final status.   *)
LEMMA NameFacts ==
  /\ Absent \notin Sessions /\ NoSession \notin Sessions
  /\ Absent \notin Final /\ "running" \notin Final /\ "abnormal_exit" \in Final
BY SessionsAssumption DEF Absent, NoSession, Final

(* A summary is written or removed: the other files are as they were.      *)
LEMMA SummaryWritten ==
  ASSUME card \in [Files -> Values], NEW t \in Sessions, NEW v \in Values,
         card' = [card EXCEPT ![Summary(t)] = v]
  PROVE  /\ card' \in [Files -> Values] /\ card'[Marker] = card[Marker]
         /\ \A s \in Sessions :
              /\ card'[Bundled(s)] = card[Bundled(s)]
              /\ card'[Summary(s)] = IF s = t THEN v ELSE card[Summary(s)]
BY FileFacts

(* The same for the marker ...                                             *)
LEMMA MarkerWritten ==
  ASSUME card \in [Files -> Values], NEW v \in Values, card' = [card EXCEPT ![Marker] = v]
  PROVE  /\ card' \in [Files -> Values] /\ card'[Marker] = v
         /\ \A s \in Sessions :
              card'[Bundled(s)] = card[Bundled(s)] /\ card'[Summary(s)] = card[Summary(s)]
BY FileFacts

(* ... and for a session's bundled.marker.                                 *)
LEMMA BundledWritten ==
  ASSUME card \in [Files -> Values], NEW t \in Sessions, NEW v \in Values,
         card' = [card EXCEPT ![Bundled(t)] = v]
  PROVE  /\ card' \in [Files -> Values] /\ card'[Marker] = card[Marker]
         /\ \A s \in Sessions :
              /\ card'[Summary(s)] = card[Summary(s)]
              /\ card'[Bundled(s)] = IF s = t THEN v ELSE card[Bundled(s)]
BY FileFacts

(* Counting a disturbance.                                                 *)
LEMMA FaultFacts ==
  ASSUME disturbed \in Nat, Fault \/ NoFault
  PROVE  disturbed' \in Nat /\ (Fault => Faulted) /\ (NoFault => ~Faulted)
BY DEF Fault, NoFault, Faulted

(* What WriteTextAtomic leaves behind, seen from its caller.               *)
LEMMA WriteFacts ==
  ASSUME NEW f, NEW v, NEW next, NEW failed, disturbed \in Nat,
         WriteTextAtomic(f, v, next, failed)
  PROVE  /\ dirs' = dirs /\ disturbed' \in Nat
         /\ \/ Faulted /\ sup' = failed /\ card' = card
            \/ ~Faulted /\ sup' = sup /\ card' = [card EXCEPT ![f] = Absent]
            \/ ~Faulted /\ sup' = next /\ card' = [card EXCEPT ![f] = v]
BY DEF WriteTextAtomic, Fault, NoFault, Faulted

(* The same when the file is a summary.                                    *)
LEMMA SummaryFacts ==
  ASSUME SupportTypeOK, NEW t \in Sessions, NEW v \in Values, NEW next, NEW failed,
         WriteTextAtomic(Summary(t), v, next, failed)
  PROVE  /\ dirs' = dirs /\ disturbed' \in Nat
         /\ card' \in [Files -> Values] /\ card'[Marker] = card[Marker]
         /\ \A s \in Sessions : card'[Bundled(s)] = card[Bundled(s)]
         /\ \A s \in Sessions : s # t => card'[Summary(s)] = card[Summary(s)]
         /\ \/ Faulted /\ sup' = failed /\ card' = card
            \/ ~Faulted /\ sup' = sup /\ card'[Summary(t)] = Absent
            \/ ~Faulted /\ sup' = next /\ card'[Summary(t)] = v
<1>1. card \in [Files -> Values] /\ disturbed \in Nat /\ Absent \in Values
  BY DEF SupportTypeOK, Values
<1>2. /\ dirs' = dirs /\ disturbed' \in Nat
      /\ \/ Faulted /\ sup' = failed /\ card' = card
         \/ ~Faulted /\ sup' = sup /\ card' = [card EXCEPT ![Summary(t)] = Absent]
         \/ ~Faulted /\ sup' = next /\ card' = [card EXCEPT ![Summary(t)] = v]
  BY <1>1, WriteFacts
<1>3. CASE Faulted /\ sup' = failed /\ card' = card
  BY <1>1, <1>2, <1>3
<1>4. CASE ~Faulted /\ sup' = sup /\ card' = [card EXCEPT ![Summary(t)] = Absent]
  <2>1. /\ card' \in [Files -> Values] /\ card'[Marker] = card[Marker]
        /\ \A s \in Sessions :
             /\ card'[Bundled(s)] = card[Bundled(s)]
             /\ card'[Summary(s)] = IF s = t THEN Absent ELSE card[Summary(s)]
    BY <1>1, <1>4, SummaryWritten
  <2>2. QED
    BY <1>2, <1>4, <2>1
<1>5. CASE ~Faulted /\ sup' = next /\ card' = [card EXCEPT ![Summary(t)] = v]
  <2>1. /\ card' \in [Files -> Values] /\ card'[Marker] = card[Marker]
        /\ \A s \in Sessions :
             /\ card'[Bundled(s)] = card[Bundled(s)]
             /\ card'[Summary(s)] = IF s = t THEN v ELSE card[Summary(s)]
    BY <1>1, <1>5, SummaryWritten
  <2>2. QED
    BY <1>2, <1>5, <2>1
<1>6. QED
  BY <1>2, <1>3, <1>4, <1>5

-----------------------------------------------------------------------------
(* The names of the functions in progress are different.                   *)
LEMMA Positions ==
  /\ sup = "idle" => ~Beginning /\ ~Ending /\ ~Recovering /\ ~Renaming /\ ~Bundling
  /\ sup = "update" => ~Beginning /\ ~Ending /\ ~Recovering /\ ~Renaming /\ ~Bundling
  /\ Beginning => ~Ending /\ ~Recovering /\ ~Renaming /\ ~Bundling
  /\ Ending => ~Recovering /\ ~Renaming /\ ~Bundling
  /\ Recovering => ~Renaming /\ ~Bundling
BY DEF Beginning, Ending, Recovering, Renaming, Bundling

(* A summary changes that is not bundled yet, or of a session that is      *)
(* excused: what was delivered is still what is on the card.               *)
LEMMA SummaryKeepsDelivered ==
  ASSUME SupportTypeOK, BundledIsDelivered, NEW t \in Sessions,
         card[Bundled(t)] = Absent \/ t \in excused,
         dirs' = dirs, bundles' = bundles, excused \subseteq excused',
         \A s \in Sessions : card'[Bundled(s)] = card[Bundled(s)],
         \A s \in Sessions : s # t => card'[Summary(s)] = card[Summary(s)]
  PROVE  BundledIsDelivered'
<1> SUFFICES ASSUME NEW s \in dirs \ excused', card'[Bundled(s)] # Absent
             PROVE  \E i \in 1 .. Len(bundles) :
               s \in DOMAIN bundles[i].content /\ bundles[i].content[s] = card'[Summary(s)]
  BY DEF BundledIsDelivered
<1>1. s \in Sessions /\ s # t /\ s \notin excused
  BY DEF SupportTypeOK
<1>2. QED
  BY <1>1 DEF BundledIsDelivered

(* The bundles stay as they are outside of GenerateSupportBundle.          *)
LEMMA RenameKept ==
  ASSUME RenameInv, UNCHANGED bundleVars, ~Renaming, ~Renaming'
  PROVE  RenameInv'
<1>1. sup' # "bundle_publish"
  BY DEF Renaming
<1>2. UNCHANGED <<bundles, torn>>
  BY DEF bundleVars
<1>3. QED
  BY <1>1, <1>2 DEF RenameInv, OnlyNewestUnsent
-----------------------------------------------------------------------------
(* Nothing of this component changes but the count of disturbances.        *)
LEMMA UnchangedKeeps ==
  ASSUME SupportInv, disturbed' \in Nat, bundleVars' = bundleVars,
         UNCHANGED <<pc, card, dirs, active, status, sup, begun, excused>>
  PROVE  SupportInv'
<1> USE DEF SupportInv
<1>1. UNCHANGED <<pc, card, dirs, active, status, sup, begun, excused, bundles, job, torn>>
  BY DEF bundleVars
<1>2. SupportTypeOK' /\ PositionInv'
  BY <1>1 DEF SupportTypeOK, PositionInv, Beginning, Ending, Recovering, Bundling, Renaming
<1>3. MarkerInv' /\ DeliveryInv'
  BY <1>1 DEF MarkerInv, DeliveryInv, Settled, Beginning, Recovering, Renaming
<1>4. BundledIsDelivered' /\ RenameInv'
  BY <1>1 DEF BundledIsDelivered, RenameInv, OnlyNewestUnsent, Renaming, Unsent
<1>5. QED
  BY <1>2, <1>3, <1>4

(* The front end moves on while no function of the component runs.         *)
LEMMA MoveKeeps ==
  ASSUME SupportInv, UNCHANGED supportVars, sup = "idle", pc # "dead",
         pc' \notin {"dead", "release"}, pc' \in {"menu", "resume"} => active = NoSession
  PROVE  SupportInv'
<1> USE DEF SupportInv
<1>1. UNCHANGED <<card, dirs, active, status, sup, disturbed, begun, excused, bundles, job, torn>>
  BY DEF supportVars, sessionVars, cardVars, bundleVars
<1>2. SupportTypeOK' /\ PositionInv'
  BY <1>1 DEF SupportTypeOK, PositionInv, Beginning, Ending, Recovering, Bundling, Renaming
<1>3. MarkerInv' /\ DeliveryInv'
  BY <1>1 DEF MarkerInv, DeliveryInv, Settled, Beginning, Recovering, Renaming
<1>4. BundledIsDelivered' /\ RenameInv'
  BY <1>1 DEF BundledIsDelivered, RenameInv, OnlyNewestUnsent, Renaming, Unsent
<1>5. QED
  BY <1>2, <1>3, <1>4

LEMMA FrontEndKeeps ==
  ASSUME SupportInv,
         \/ Exit \/ StartClocks \/ SuspendConsole \/ BootCore \/ GameStops
         \/ ReleaseClocks \/ ResumeConsole \/ SkipResume \/ Unwind
  PROVE  SupportInv'
<1>1. PositionInv
  BY DEF SupportInv
<1>2. /\ UNCHANGED supportVars /\ sup = "idle" /\ pc # "dead"
      /\ pc' \notin {"dead", "release"}
      /\ pc' \in {"menu", "resume"} => active = NoSession
  BY <1>1 DEF PositionInv, Idle, Exit, StartClocks, SuspendConsole, BootCore, GameStops,
       ReleaseClocks, ResumeConsole, SkipResume, Unwind
<1>3. QED
  BY <1>2, MoveKeeps

(* A function is called that changes nothing but its own position; the     *)
(* session, if there is one, stays.                                        *)
LEMMA CallKeeps ==
  ASSUME SupportInv, sup = "idle", status' \in Final, bundleVars' = bundleVars,
         UNCHANGED <<cardVars, active, begun, excused>>,
         sup' \in {"idle", "update", "end_summary", "recover_summary", "bundle_write"},
         PositionInv',
         pc = "dead" => card[Marker] = Absent \/ sup' = "recover_summary",
         sup' = "recover_summary" => card[Marker] # Absent
  PROVE  SupportInv'
<1> USE DEF SupportInv
<1>1. UNCHANGED <<card, dirs, active, disturbed, begun, excused, bundles, job, torn>>
  BY DEF cardVars, bundleVars
<1>2. SupportTypeOK'
  BY <1>1 DEF SupportTypeOK, Beginning, Ending, Recovering, Bundling, Renaming
<1>3. MarkerInv'
  BY <1>1 DEF MarkerInv, PositionInv, Settled, Beginning, Ending, Recovering, Bundling
<1>4. DeliveryInv'
  BY <1>1 DEF DeliveryInv, Renaming
<1>5. BundledIsDelivered' /\ RenameInv'
  BY <1>1 DEF BundledIsDelivered, RenameInv, OnlyNewestUnsent, Renaming, Unsent
<1>6. QED
  BY <1>2, <1>3, <1>4, <1>5

LEMMA CallsKeep ==
  ASSUME SupportInv, Launch \/ Diagnose \/ ClockReadings \/ ExitRequested \/ StopCore
  PROVE  SupportInv'
<1> USE DEF SupportInv
<1>1. active \in dirs \/ active = NoSession
  BY NameFacts DEF SupportTypeOK, MarkerInv, PositionInv
<1>2. status \in Final /\ {"clean_exit", "boot_failed"} \subseteq Final
  BY DEF SupportTypeOK, Final
<1>3. CASE Launch
  <2>1. /\ sup = "idle" /\ pc = "dead" /\ pc' = "menu" /\ UNCHANGED <<status, bundleVars>>
        /\ UNCHANGED <<cardVars, active, begun, excused>>
        /\ sup' = IF card[Marker] = Absent THEN "idle" ELSE "recover_summary"
    BY <1>3 DEF Launch, RecoverInterruptedSupportSession
  <2>2. PositionInv'
    BY <2>1 DEF PositionInv, Beginning, Ending, Recovering, Bundling, Renaming
  <2>3. QED
    BY <1>2, <2>1, <2>2, CallKeeps
<1>4. CASE Diagnose
  <2>1. /\ sup = "idle" /\ pc = "menu" /\ pc' = "menu" /\ UNCHANGED <<status, bundleVars>>
        /\ UNCHANGED <<cardVars, active, begun, excused>> /\ sup' = "bundle_write"
    BY <1>4 DEF Diagnose, GenerateSupportBundle, bootVars
  <2>2. PositionInv'
    BY <2>1 DEF PositionInv, Beginning, Ending, Recovering, Bundling, Renaming
  <2>3. QED
    BY <1>2, <2>1, <2>2, CallKeeps
<1>5. CASE ClockReadings
  <2>1. /\ sup = "idle" /\ pc = "readings" /\ pc' = "suspend" /\ UNCHANGED <<status, bundleVars>>
        /\ UNCHANGED <<cardVars, active, begun, excused>>
        /\ sup' = IF active = NoSession THEN "idle" ELSE "update"
    BY <1>5 DEF ClockReadings, UpdateSupportClockReadings
  <2>2. PositionInv'
    BY <1>1, <2>1 DEF PositionInv, Beginning, Ending, Recovering, Bundling, Renaming, cardVars
  <2>3. QED
    BY <1>2, <2>1, <2>2, CallKeeps
<1>6. CASE ExitRequested \/ StopCore
  <2>1. /\ sup = "idle" /\ pc \in {"game", "stop"} /\ pc' \in {"stop", "release"}
        /\ status' \in Final /\ bundleVars' = bundleVars
        /\ UNCHANGED <<cardVars, active, begun, excused>>
        /\ sup' = IF active = NoSession THEN "idle" ELSE "end_summary"
    BY <1>2, <1>6 DEF ExitRequested, StopCore, EndSupportSession
  <2>2. PositionInv'
    BY <1>1, <2>1 DEF PositionInv, Beginning, Ending, Recovering, Bundling, Renaming, cardVars
  <2>3. QED
    BY <2>1, <2>2, CallKeeps
<1>7. QED
  BY <1>3, <1>4, <1>5, <1>6

(* A session begins: its directory is new, so nothing names it yet.        *)
LEMMA BeginGameKeeps == SupportInv /\ BeginGame => SupportInv'
<1> SUFFICES ASSUME SupportInv, BeginGame PROVE SupportInv'
  OBVIOUS
<1> USE DEF SupportInv
<1>1. /\ pc = "menu" /\ pc' = "clocks" /\ sup = "idle"
      /\ UNCHANGED <<card, status, begun, excused, bundleVars>>
  BY DEF BeginGame, BeginSupportSession
<1>2. UNCHANGED <<bundles, job, torn>>
  BY <1>1 DEF bundleVars
<1>3. active = NoSession /\ Settled
  BY <1>1 DEF PositionInv, MarkerInv, Recovering
<1>4. CASE \E s \in Sessions \ dirs :
             dirs' = dirs \union {s} /\ active' = s /\ sup' = "begin_summary" /\ NoFault
  <2>1. PICK s \in Sessions \ dirs :
          dirs' = dirs \union {s} /\ active' = s /\ sup' = "begin_summary" /\ NoFault
    BY <1>4
  <2>2. active' # NoSession /\ s \notin begun /\ card[Bundled(s)] = Absent
    BY <2>1, NameFacts DEF SupportTypeOK, DeliveryInv
  <2>3. SupportTypeOK' /\ PositionInv'
    BY <1>1, <1>2, <2>1
    DEF SupportTypeOK, PositionInv, NoFault, Beginning, Ending, Recovering, Bundling, Renaming
  <2>4. MarkerInv'
    BY <1>1, <1>3, <2>1, <2>2 DEF MarkerInv, Settled, Beginning, Recovering
  <2>5. DeliveryInv'
    BY <1>1, <1>2, <2>1, <2>2 DEF DeliveryInv, Renaming
  <2>6. BundledIsDelivered'
    BY <1>1, <1>2, <2>1, <2>2 DEF BundledIsDelivered
  <2>7. RenameInv'
    BY <1>1, <2>1, RenameKept DEF Renaming
  <2>8. QED
    BY <2>3, <2>4, <2>5, <2>6, <2>7
<1>5. CASE Fault /\ UNCHANGED <<dirs, active, sup>>
  <2>1. disturbed' \in Nat
    BY <1>5, FaultFacts DEF SupportTypeOK
  <2>2. SupportTypeOK' /\ PositionInv'
    BY <1>1, <1>2, <1>5, <2>1
    DEF SupportTypeOK, PositionInv, Beginning, Ending, Recovering, Bundling, Renaming
  <2>3. MarkerInv'
    BY <1>1, <1>3, <1>5 DEF MarkerInv, Settled, Beginning, Recovering
  <2>4. DeliveryInv'
    BY <1>1, <1>2, <1>5 DEF DeliveryInv, Renaming
  <2>5. BundledIsDelivered'
    BY <1>1, <1>2, <1>5 DEF BundledIsDelivered
  <2>6. RenameInv'
    BY <1>1, <1>5, RenameKept DEF Renaming
  <2>7. QED
    BY <2>2, <2>3, <2>4, <2>5, <2>6
<1>6. QED
  BY <1>4, <1>5 DEF BeginGame, BeginSupportSession
-----------------------------------------------------------------------------
(* BeginSupportSession writes the running summary of the new session.      *)
LEMMA BeginSummaryKeeps ==
  ASSUME SupportInv, BeginSummary, pc' = pc, bundleVars' = bundleVars
  PROVE  SupportInv'
<1> USE DEF SupportInv
<1>1. /\ sup = "begin_summary" /\ UNCHANGED <<active, status, begun, excused>>
      /\ WriteTextAtomic(Summary(active), "running", "begin_marker", "begin_marker")
  BY DEF BeginSummary
<1>2. Beginning /\ pc = "clocks" /\ active \in dirs /\ active \in Sessions
  BY <1>1, NameFacts DEF Beginning, PositionInv, SupportTypeOK
<1>3. /\ dirs' = dirs /\ disturbed' \in Nat /\ card' \in [Files -> Values]
      /\ card'[Marker] = card[Marker]
      /\ \A s \in Sessions : card'[Bundled(s)] = card[Bundled(s)]
      /\ \A s \in Sessions : s # active => card'[Summary(s)] = card[Summary(s)]
      /\ sup' \in {"begin_summary", "begin_marker"}
  BY <1>1, <1>2, SummaryFacts DEF Values
<1>4. UNCHANGED <<bundles, job, torn>>
  BY DEF bundleVars
<1>5. SupportTypeOK' /\ PositionInv'
  BY <1>1, <1>2, <1>3, <1>4
  DEF SupportTypeOK, PositionInv, Beginning, Ending, Recovering, Bundling, Renaming
<1>6. MarkerInv'
  <2>1. begun \subseteq Sessions /\ active \notin begun /\ Beginning' /\ sup' # "recover_marker"
        /\ sup' # "end_marker" /\ ~Recovering'
    BY <1>2, <1>3 DEF SupportTypeOK, MarkerInv, Beginning, Recovering
  <2>2. QED
    BY <1>1, <1>2, <1>3, <2>1 DEF MarkerInv, Settled
<1>7. DeliveryInv'
  BY <1>1, <1>2, <1>3 DEF DeliveryInv, Renaming, SupportTypeOK
<1>8. BundledIsDelivered'
  BY <1>1, <1>2, <1>3, <1>4, NameFacts, SummaryKeepsDelivered DEF DeliveryInv
<1>9. RenameInv'
  BY <1>1, <1>3, RenameKept DEF Renaming
<1>10. QED
  BY <1>5, <1>6, <1>7, <1>8, <1>9

(* It writes the marker, and clobbers only one that is settled.            *)
LEMMA BeginMarkerKeeps ==
  ASSUME SupportInv, BeginMarker, pc' = pc, bundleVars' = bundleVars
  PROVE  SupportInv'
<1> USE DEF SupportInv
<1>1. /\ sup = "begin_marker" /\ UNCHANGED <<active, status, excused>>
      /\ WriteTextAtomic(Marker, active, "idle", "begin_error")
      /\ begun' = IF sup' = "idle" THEN begun \union {active} ELSE begun
  BY DEF BeginMarker
<1>2. /\ Beginning /\ pc = "clocks" /\ active \in dirs /\ active \in Sessions
      /\ active # NoSession /\ active # Absent
  BY <1>1, NameFacts DEF Beginning, PositionInv, SupportTypeOK
<1>3. /\ dirs' = dirs /\ disturbed' \in Nat
      /\ \/ sup' = "begin_error" /\ card' = card
         \/ sup' = sup /\ card' = [card EXCEPT ![Marker] = Absent]
         \/ sup' = "idle" /\ card' = [card EXCEPT ![Marker] = active]
  BY <1>1, WriteFacts DEF SupportTypeOK
<1>4. /\ card' \in [Files -> Values]
      /\ \A s \in Sessions :
           card'[Bundled(s)] = card[Bundled(s)] /\ card'[Summary(s)] = card[Summary(s)]
      /\ \/ sup' \in {"begin_error", "begin_marker"} /\ card'[Marker] \in {card[Marker], Absent}
         \/ sup' = "idle" /\ card'[Marker] = active
  <2>1. card \in [Files -> Values] /\ Absent \in Values /\ active \in Values
    BY <1>2 DEF SupportTypeOK, Values
  <2>2. CASE sup' = "begin_error" /\ card' = card
    BY <2>1, <2>2
  <2>3. CASE sup' = sup /\ card' = [card EXCEPT ![Marker] = Absent]
    BY <1>1, <2>1, <2>3, MarkerWritten
  <2>4. CASE sup' = "idle" /\ card' = [card EXCEPT ![Marker] = active]
    BY <2>1, <2>4, MarkerWritten
  <2>5. QED
    BY <1>3, <2>2, <2>3, <2>4
<1>5. UNCHANGED <<bundles, job, torn>>
  BY DEF bundleVars
<1>6. SupportTypeOK' /\ PositionInv'
  BY <1>1, <1>2, <1>3, <1>4, <1>5
  DEF SupportTypeOK, PositionInv, Beginning, Ending, Recovering, Bundling, Renaming
<1>7. MarkerInv'
  <2>1. Settled /\ active \notin begun /\ begun \subseteq Sessions
    BY <1>2 DEF MarkerInv, SupportTypeOK
  <2>2. \A s \in begun \ excused : card[Summary(s)] \in Final
    BY <2>1, NameFacts DEF MarkerInv, Settled
  <2>3. \A s \in begun' \ excused' : card'[Summary(s)] \in Final \/ card'[Marker] = s
    BY <1>1, <1>2, <1>4, <2>1, <2>2
  <2>4. CASE sup' = "idle" /\ card'[Marker] = active
    BY <1>1, <1>2, <2>3, <2>4 DEF MarkerInv, Beginning, Recovering
  <2>5. CASE sup' \in {"begin_error", "begin_marker"} /\ card'[Marker] \in {card[Marker], Absent}
    BY <1>1, <1>2, <2>1, <2>3, <2>5 DEF MarkerInv, Settled, Beginning, Recovering
  <2>6. QED
    BY <1>4, <2>4, <2>5
<1>8. DeliveryInv'
  <2>1. \A s \in Sessions \ dirs' : card'[Bundled(s)] = Absent
    BY <1>3, <1>4 DEF DeliveryInv
  <2>2. active' # NoSession => card'[Bundled(active')] = Absent
    BY <1>1, <1>2, <1>4 DEF DeliveryInv
  <2>3. card'[Marker] # Absent => card'[Marker] \in excused' \/ card'[Bundled(card'[Marker])] = Absent
    BY <1>1, <1>2, <1>4 DEF DeliveryInv, SupportTypeOK
  <2>4. QED
    BY <1>1, <1>4, <2>1, <2>2, <2>3 DEF DeliveryInv, Renaming
<1>9. BundledIsDelivered'
  BY <1>1, <1>3, <1>4, <1>5 DEF BundledIsDelivered, SupportTypeOK
<1>10. RenameInv'
  BY <1>1, <1>4, RenameKept DEF Renaming
<1>11. QED
  BY <1>6, <1>7, <1>8, <1>9, <1>10

(* When the marker could not be written the session is given up.           *)
LEMMA BeginErrorKeeps ==
  ASSUME SupportInv, BeginError, pc' = pc, bundleVars' = bundleVars
  PROVE  SupportInv'
<1> USE DEF SupportInv
<1>1. /\ sup = "begin_error" /\ UNCHANGED <<status, begun, excused>>
      /\ WriteTextAtomic(Summary(active), "diagnostics_error", "idle", "idle")
      /\ active' = IF sup' = "idle" THEN NoSession ELSE active
  BY DEF BeginError
<1>2. Beginning /\ pc = "clocks" /\ active \in dirs /\ active \in Sessions
  BY <1>1, NameFacts DEF Beginning, PositionInv, SupportTypeOK
<1>3. /\ dirs' = dirs /\ disturbed' \in Nat /\ card' \in [Files -> Values]
      /\ card'[Marker] = card[Marker]
      /\ \A s \in Sessions : card'[Bundled(s)] = card[Bundled(s)]
      /\ \A s \in Sessions : s # active => card'[Summary(s)] = card[Summary(s)]
      /\ sup' \in {"begin_error", "idle"}
  BY <1>1, <1>2, SummaryFacts DEF Values
<1>4. UNCHANGED <<bundles, job, torn>>
  BY DEF bundleVars
<1>5. SupportTypeOK' /\ PositionInv'
  BY <1>1, <1>2, <1>3, <1>4
  DEF SupportTypeOK, PositionInv, Beginning, Ending, Recovering, Bundling, Renaming
<1>6. MarkerInv'
  <2>1. begun \subseteq Sessions /\ active \notin begun /\ Settled
        /\ sup' # "recover_marker" /\ sup' # "end_marker" /\ ~Recovering'
        /\ (active' = active \/ active' = NoSession) /\ (Beginning' => active' = active)
        /\ (~Beginning' => active' = NoSession)
    BY <1>1, <1>2, <1>3 DEF SupportTypeOK, MarkerInv, Beginning, Recovering
  <2>2. QED
    BY <1>1, <1>2, <1>3, <2>1 DEF MarkerInv, Settled
<1>7. DeliveryInv'
  BY <1>1, <1>2, <1>3 DEF DeliveryInv, Renaming, SupportTypeOK
<1>8. BundledIsDelivered'
  BY <1>1, <1>2, <1>3, <1>4, NameFacts, SummaryKeepsDelivered DEF DeliveryInv
<1>9. RenameInv'
  BY <1>1, <1>3, RenameKept DEF Renaming
<1>10. QED
  BY <1>5, <1>6, <1>7, <1>8, <1>9

(* The running summary is written again: the marker names the session.     *)
LEMMA UpdateSummaryKeeps ==
  ASSUME SupportInv, UpdateSummary, pc' = pc, bundleVars' = bundleVars
  PROVE  SupportInv'
<1> USE DEF SupportInv
<1>1. /\ sup = "update" /\ UNCHANGED <<active, status, begun, excused>>
      /\ WriteTextAtomic(Summary(active), "running", "idle", "idle")
  BY DEF UpdateSummary
<1>2. /\ ~Beginning /\ pc = "suspend" /\ active \in dirs /\ active \in Sessions
      /\ active \in begun /\ card[Marker] = active
  BY <1>1, NameFacts DEF Beginning, PositionInv, SupportTypeOK, MarkerInv
<1>3. /\ dirs' = dirs /\ disturbed' \in Nat /\ card' \in [Files -> Values]
      /\ card'[Marker] = card[Marker]
      /\ \A s \in Sessions : card'[Bundled(s)] = card[Bundled(s)]
      /\ \A s \in Sessions : s # active => card'[Summary(s)] = card[Summary(s)]
      /\ sup' \in {"update", "idle"}
  BY <1>1, <1>2, SummaryFacts DEF Values
<1>4. UNCHANGED <<bundles, job, torn>>
  BY DEF bundleVars
<1>5. SupportTypeOK' /\ PositionInv'
  BY <1>1, <1>2, <1>3, <1>4
  DEF SupportTypeOK, PositionInv, Beginning, Ending, Recovering, Bundling, Renaming
<1>6. MarkerInv'
  <2>1. begun \subseteq Sessions /\ ~Beginning' /\ active # NoSession
        /\ sup' # "recover_marker" /\ sup' # "end_marker" /\ ~Recovering'
    BY <1>2, <1>3, NameFacts DEF SupportTypeOK, Beginning, Recovering
  <2>2. QED
    BY <1>1, <1>2, <1>3, <2>1 DEF MarkerInv
<1>7. DeliveryInv'
  BY <1>1, <1>2, <1>3 DEF DeliveryInv, Renaming, SupportTypeOK
<1>8. BundledIsDelivered'
  BY <1>1, <1>2, <1>3, <1>4, NameFacts, SummaryKeepsDelivered DEF DeliveryInv
<1>9. RenameInv'
  BY <1>1, <1>3, RenameKept DEF Renaming
<1>10. QED
  BY <1>5, <1>6, <1>7, <1>8, <1>9
(* EndSupportSession writes the final summary, or the session is excused.  *)
LEMMA EndSummaryKeeps ==
  ASSUME SupportInv, EndSummary, pc' = pc, bundleVars' = bundleVars
  PROVE  SupportInv'
<1> USE DEF SupportInv
<1>1. /\ sup = "end_summary" /\ UNCHANGED <<active, status, begun>>
      /\ WriteTextAtomic(Summary(active), status, "end_marker", "end_marker")
      /\ excused' = IF Faulted THEN excused \union {active} ELSE excused
  BY DEF EndSummary, Excuse
<1>2. /\ ~Beginning /\ pc \in {"stop", "release"} /\ active \in dirs /\ active \in Sessions
      /\ active \in begun /\ card[Marker] = active /\ status \in Values /\ status \in Final
  BY <1>1, NameFacts DEF Beginning, Ending, PositionInv, SupportTypeOK, MarkerInv, Values
<1>3. /\ dirs' = dirs /\ disturbed' \in Nat /\ card' \in [Files -> Values]
      /\ card'[Marker] = card[Marker]
      /\ \A s \in Sessions : card'[Bundled(s)] = card[Bundled(s)]
      /\ \A s \in Sessions : s # active => card'[Summary(s)] = card[Summary(s)]
      /\ \/ Faulted /\ sup' = "end_marker" /\ card' = card
         \/ ~Faulted /\ sup' = sup /\ card'[Summary(active)] = Absent
         \/ ~Faulted /\ sup' = "end_marker" /\ card'[Summary(active)] = status
  BY <1>1, <1>2, SummaryFacts
<1>4. UNCHANGED <<bundles, job, torn>> /\ sup' \in {"end_summary", "end_marker"}
  BY <1>1, <1>3 DEF bundleVars
<1>5. SupportTypeOK' /\ PositionInv'
  BY <1>1, <1>2, <1>3, <1>4
  DEF SupportTypeOK, PositionInv, Beginning, Ending, Recovering, Bundling, Renaming
<1>6. MarkerInv'
  <2>1. begun \subseteq Sessions /\ ~Beginning' /\ active # NoSession
        /\ sup' # "recover_marker" /\ ~Recovering' /\ excused \subseteq excused'
    BY <1>1, <1>2, <1>4, NameFacts DEF SupportTypeOK, Beginning, Recovering
  <2>2. sup' = "end_marker" => active \in excused' \/ card'[Summary(active)] \in Final
    BY <1>1, <1>2, <1>3
  <2>3. QED
    BY <1>1, <1>2, <1>3, <2>1, <2>2 DEF MarkerInv
<1>7. DeliveryInv'
  BY <1>1, <1>2, <1>3, <1>4 DEF DeliveryInv, Renaming, SupportTypeOK
<1>8. BundledIsDelivered'
  BY <1>1, <1>2, <1>3, <1>4, NameFacts, SummaryKeepsDelivered DEF DeliveryInv
<1>9. RenameInv'
  BY <1>1, <1>4, RenameKept DEF Renaming
<1>10. QED
  BY <1>5, <1>6, <1>7, <1>8, <1>9

(* What fs::remove leaves behind.                                          *)
LEMMA RemoveMarkerFacts ==
  ASSUME SupportTypeOK, RemoveMarker
  PROVE  /\ sup' = "idle" /\ dirs' = dirs /\ disturbed' \in Nat /\ card' \in [Files -> Values]
         /\ card'[Marker] = IF Faulted THEN card[Marker] ELSE Absent
         /\ \A s \in Sessions :
              card'[Bundled(s)] = card[Bundled(s)] /\ card'[Summary(s)] = card[Summary(s)]
<1>1. card \in [Files -> Values] /\ disturbed \in Nat /\ Absent \in Values
  BY DEF SupportTypeOK, Values
<1>2. sup' = "idle" /\ dirs' = dirs /\ disturbed' \in Nat
  BY <1>1, FaultFacts DEF RemoveMarker
<1>3. CASE NoFault /\ card' = [card EXCEPT ![Marker] = Absent]
  BY <1>1, <1>2, <1>3, FaultFacts, MarkerWritten
<1>4. CASE Fault /\ UNCHANGED card
  BY <1>1, <1>2, <1>4, FaultFacts
<1>5. QED
  BY <1>3, <1>4 DEF RemoveMarker

(* It removes the marker, or the session is excused.                       *)
LEMMA EndMarkerKeeps ==
  ASSUME SupportInv, EndMarker, pc' = pc, bundleVars' = bundleVars
  PROVE  SupportInv'
<1> USE DEF SupportInv
<1>1. /\ sup = "end_marker" /\ RemoveMarker /\ active' = NoSession
      /\ status' = "clean_exit" /\ begun' = begun
      /\ excused' = IF Faulted THEN excused \union {active} ELSE excused
  BY DEF EndMarker, Excuse
<1>2. /\ ~Beginning /\ pc \in {"stop", "release"} /\ active \in Sessions
      /\ active \in begun /\ card[Marker] = active
      /\ active \in excused \/ card[Summary(active)] \in Final
  BY <1>1, NameFacts DEF Beginning, Ending, PositionInv, SupportTypeOK, MarkerInv
<1>3. /\ sup' = "idle" /\ dirs' = dirs /\ disturbed' \in Nat /\ card' \in [Files -> Values]
      /\ card'[Marker] = IF Faulted THEN card[Marker] ELSE Absent
      /\ \A s \in Sessions :
           card'[Bundled(s)] = card[Bundled(s)] /\ card'[Summary(s)] = card[Summary(s)]
  BY <1>1, RemoveMarkerFacts
<1>4. UNCHANGED <<bundles, job, torn>>
  BY DEF bundleVars
<1>5. SupportTypeOK' /\ PositionInv'
  BY <1>1, <1>2, <1>3, <1>4
  DEF SupportTypeOK, PositionInv, Beginning, Ending, Recovering, Bundling, Renaming, Final
<1>6. MarkerInv'
  <2>1. begun \subseteq Sessions /\ ~Beginning' /\ ~Recovering' /\ excused \subseteq excused'
    BY <1>1, <1>3 DEF SupportTypeOK, Beginning, Recovering
  <2>2. \A s \in begun \ excused : card[Summary(s)] \in Final
    BY <1>2 DEF MarkerInv
  <2>3. Settled'
    BY <1>1, <1>2, <1>3 DEF Settled
  <2>4. QED
    BY <1>1, <1>3, <2>1, <2>2, <2>3 DEF MarkerInv
<1>7. DeliveryInv'
  BY <1>1, <1>2, <1>3 DEF DeliveryInv, Renaming
<1>8. BundledIsDelivered'
  BY <1>1, <1>3, <1>4 DEF BundledIsDelivered, SupportTypeOK
<1>9. RenameInv'
  BY <1>1, <1>3, RenameKept DEF Renaming
<1>10. QED
  BY <1>5, <1>6, <1>7, <1>8, <1>9

(* The recovery writes the summary of the session the marker names.        *)
LEMMA RecoverSummaryKeeps ==
  ASSUME SupportInv, RecoverSummary, pc' = pc, bundleVars' = bundleVars
  PROVE  SupportInv'
<1> USE DEF SupportInv
<1> DEFINE t == card[Marker]
<1>1. /\ sup = "recover_summary" /\ UNCHANGED <<active, status, begun>>
      /\ WriteTextAtomic(Summary(t), "abnormal_exit", "recover_marker", "recover_marker")
      /\ excused' = IF Faulted THEN excused \union {t} ELSE excused
  BY DEF RecoverSummary, Excuse
<1>2. /\ Recovering /\ pc = "menu" /\ active = NoSession /\ t \in Sessions /\ t # Absent
      /\ card[Bundled(t)] = Absent \/ t \in excused
  BY <1>1 DEF Recovering, PositionInv, SupportTypeOK, MarkerInv, DeliveryInv
<1>3. /\ dirs' = dirs /\ disturbed' \in Nat /\ card' \in [Files -> Values]
      /\ card'[Marker] = t
      /\ \A s \in Sessions : card'[Bundled(s)] = card[Bundled(s)]
      /\ \A s \in Sessions : s # t => card'[Summary(s)] = card[Summary(s)]
      /\ \/ Faulted /\ sup' = "recover_marker" /\ card' = card
         \/ ~Faulted /\ sup' = sup /\ card'[Summary(t)] = Absent
         \/ ~Faulted /\ sup' = "recover_marker" /\ card'[Summary(t)] = "abnormal_exit"
  <2>1. "abnormal_exit" \in Values
    BY DEF Values, Final
  <2>2. QED
    BY <1>1, <1>2, <2>1, SummaryFacts
<1>4. /\ UNCHANGED <<bundles, job, torn>> /\ sup' \in {"recover_summary", "recover_marker"}
      /\ excused \subseteq excused'
  BY <1>1, <1>3 DEF bundleVars
<1>5. SupportTypeOK' /\ PositionInv'
  BY <1>1, <1>2, <1>3, <1>4
  DEF SupportTypeOK, PositionInv, Beginning, Ending, Recovering, Bundling, Renaming
<1>6. MarkerInv'
  <2>1. begun \subseteq Sessions /\ ~Beginning' /\ Recovering' /\ sup' # "end_marker"
    BY <1>4 DEF SupportTypeOK, Beginning, Recovering
  <2>2. sup' = "recover_marker" => t \in excused' \/ card'[Summary(t)] \in Final
    BY <1>1, <1>3, NameFacts
  <2>3. QED
    BY <1>1, <1>2, <1>3, <1>4, <2>1, <2>2 DEF MarkerInv
<1>7. DeliveryInv'
  BY <1>1, <1>2, <1>3, <1>4 DEF DeliveryInv, Renaming
<1>8. BundledIsDelivered'
  BY <1>1, <1>2, <1>3, <1>4, SummaryKeepsDelivered
<1>9. RenameInv'
  BY <1>1, <1>4, RenameKept DEF Renaming
<1>10. QED
  BY <1>5, <1>6, <1>7, <1>8, <1>9

(* It removes the marker, or the session is excused.                       *)
LEMMA RecoverMarkerKeeps ==
  ASSUME SupportInv, RecoverMarker, pc' = pc, bundleVars' = bundleVars
  PROVE  SupportInv'
<1> USE DEF SupportInv
<1> DEFINE t == card[Marker]
<1>1. /\ sup = "recover_marker" /\ RemoveMarker /\ UNCHANGED <<active, status, begun>>
      /\ excused' = IF Faulted THEN excused \union {t} ELSE excused
  BY DEF RecoverMarker, Excuse
<1>2. /\ pc = "menu" /\ active = NoSession /\ t \in Sessions
      /\ t \in excused \/ card[Summary(t)] \in Final
  BY <1>1 DEF Recovering, PositionInv, SupportTypeOK, MarkerInv
<1>3. /\ sup' = "idle" /\ dirs' = dirs /\ disturbed' \in Nat /\ card' \in [Files -> Values]
      /\ card'[Marker] = IF Faulted THEN card[Marker] ELSE Absent
      /\ \A s \in Sessions :
           card'[Bundled(s)] = card[Bundled(s)] /\ card'[Summary(s)] = card[Summary(s)]
  BY <1>1, RemoveMarkerFacts
<1>4. UNCHANGED <<bundles, job, torn>>
  BY DEF bundleVars
<1>5. SupportTypeOK' /\ PositionInv'
  BY <1>1, <1>2, <1>3, <1>4
  DEF SupportTypeOK, PositionInv, Beginning, Ending, Recovering, Bundling, Renaming
<1>6. MarkerInv'
  <2>1. begun \subseteq Sessions /\ ~Beginning' /\ ~Recovering' /\ excused \subseteq excused'
    BY <1>1, <1>3 DEF SupportTypeOK, Beginning, Recovering
  <2>2. \A s \in begun \ excused : card[Summary(s)] \in Final
    BY <1>2 DEF MarkerInv
  <2>3. Settled'
    BY <1>1, <1>2, <1>3 DEF Settled
  <2>4. QED
    BY <1>1, <1>2, <1>3, <2>1, <2>2, <2>3 DEF MarkerInv
<1>7. DeliveryInv'
  BY <1>1, <1>2, <1>3 DEF DeliveryInv, Renaming
<1>8. BundledIsDelivered'
  BY <1>1, <1>3, <1>4 DEF BundledIsDelivered, SupportTypeOK
<1>9. RenameInv'
  BY <1>1, <1>3, RenameKept DEF Renaming
<1>10. QED
  BY <1>5, <1>6, <1>7, <1>8, <1>9
-----------------------------------------------------------------------------
(* A bundle is generated from the menu, where nothing is recorded and the  *)
(* sessions are settled.                                                   *)
LEMMA BundlingInMenu ==
  ASSUME SupportInv, Bundling
  PROVE  pc = "menu" /\ active = NoSession /\ Settled /\ ~Beginning /\ ~Recovering /\ ~Ending
<1>1. ~Beginning /\ ~Recovering /\ ~Ending
  BY Positions
<1>2. QED
  BY <1>1 DEF SupportInv, PositionInv, MarkerInv

(* The steps of the generation leave the sessions alone.                   *)
LEMMA BundlingKeepsSessions ==
  ASSUME SupportInv, Bundling, Bundling' \/ sup' = "idle", pc' = pc,
         UNCHANGED <<dirs, active, status, begun, excused>>,
         card'[Marker] = card[Marker],
         \A s \in Sessions : card'[Summary(s)] = card[Summary(s)]
  PROVE  PositionInv' /\ MarkerInv'
<1> USE DEF SupportInv
<1>1. pc = "menu" /\ active = NoSession /\ Settled /\ ~Beginning
  BY BundlingInMenu
<1>2. /\ ~Beginning' /\ ~Recovering' /\ ~Ending'
      /\ sup' \notin {"update", "recover_marker", "end_marker"}
  BY DEF Beginning, Recovering, Ending, Bundling, Renaming
<1>3. PositionInv'
  BY <1>1, <1>2 DEF PositionInv
<1>4. \A s \in begun \ excused : card[Summary(s)] \in Final
  BY <1>1, NameFacts DEF MarkerInv, Settled, SupportTypeOK
<1>5. MarkerInv'
  BY <1>1, <1>2, <1>4 DEF MarkerInv, Settled, SupportTypeOK
<1>6. QED
  BY <1>3, <1>5

(* One bundle is renamed: its contents stay, and the others.               *)
LEMMA RenameFacts ==
  ASSUME bundles \in Seq(Bundles), NEW i \in 1 .. Len(bundles), NEW b \in BOOLEAN,
         bundles' = [bundles EXCEPT ![i].sent = b]
  PROVE  /\ bundles' \in Seq(Bundles) /\ Len(bundles') = Len(bundles)
         /\ \A j \in 1 .. Len(bundles) :
              /\ bundles'[j].content = bundles[j].content
              /\ bundles'[j].sent = IF j = i THEN b ELSE bundles[j].sent
<1>1. /\ bundles[i] \in Bundles /\ Len(bundles) \in Nat
      /\ \A j \in 1 .. Len(bundles) : bundles[j] \in Bundles
  OBVIOUS
<1> DEFINE c == [bundles[i] EXCEPT !.sent = b]
<1>2. c \in Bundles /\ c.content = bundles[i].content /\ c.sent = b
  BY <1>1 DEF Bundles
<1> HIDE DEF c
<1>3. bundles' = [bundles EXCEPT ![i] = c]
  BY DEF c
<1>4. QED
  BY <1>1, <1>2, <1>3

(* What was delivered stays so when the card and the contents stay.        *)
LEMMA DeliveredKept ==
  ASSUME BundledIsDelivered, UNCHANGED <<card, dirs, excused>>, Len(bundles) \in Nat,
         Len(bundles') \in Nat, Len(bundles) =< Len(bundles'),
         \A j \in 1 .. Len(bundles) : bundles'[j].content = bundles[j].content
  PROVE  BundledIsDelivered'
BY DEF BundledIsDelivered

(* The archive takes the summaries as they are on the card.                *)
LEMMA BundleWriteKeeps ==
  ASSUME SupportInv, BundleWrite, pc' = pc
  PROVE  SupportInv'
<1> USE DEF SupportInv
<1>1. /\ sup = "bundle_write"
      /\ UNCHANGED <<card, dirs, active, status, begun, excused, bundles, torn>>
      /\ \/ /\ NoFault /\ sup' = "bundle_sent"
            /\ job' = [NoJob EXCEPT !.content = [s \in Pending |-> card[Summary(s)]],
                                    !.left = Pending]
         \/ Fault /\ job' = NoJob /\ sup' = "idle"
  BY DEF BundleWrite
<1>2. Bundling /\ ~Renaming /\ (Bundling' \/ sup' = "idle") /\ disturbed' \in Nat
  BY <1>1, FaultFacts DEF Bundling, Renaming, SupportTypeOK
<1>3. active = NoSession
  BY <1>2, BundlingInMenu
<1>4. PositionInv' /\ MarkerInv'
  BY <1>1, <1>2, BundlingKeepsSessions
<1>5. BundledIsDelivered'
  BY <1>1 DEF BundledIsDelivered
<1>6. /\ NoJob \in [content : Contents, renamed : SUBSET Nat, left : SUBSET Sessions]
      /\ NoJob.renamed = {}
  BY DEF NoJob, Contents
<1>7. CASE job' = NoJob /\ sup' = "idle"
  <2>1. SupportTypeOK'
    BY <1>1, <1>2, <1>6, <1>7 DEF SupportTypeOK, Bundling
  <2>2. DeliveryInv'
    BY <1>1, <1>3, <1>7 DEF DeliveryInv, Renaming
  <2>3. RenameInv'
    BY <1>1, <1>2, <1>7 DEF RenameInv, OnlyNewestUnsent, Renaming
  <2>4. QED
    BY <1>4, <1>5, <2>1, <2>2, <2>3
<1>8. CASE /\ sup' = "bundle_sent"
           /\ job' = [NoJob EXCEPT !.content = [s \in Pending |-> card[Summary(s)]],
                                   !.left = Pending]
  <2> DEFINE content == [s \in Pending |-> card[Summary(s)]]
  <2>1. Pending \subseteq dirs /\ Pending \subseteq Sessions
    BY DEF Pending, SupportTypeOK
  <2>2. content \in [Pending -> Values]
    BY <2>1, FileFacts DEF SupportTypeOK
  <2>3. content \in Contents
    BY <2>1, <2>2 DEF Contents
  <2>4. DOMAIN content = Pending /\ \A s \in Pending : content[s] = card[Summary(s)]
    OBVIOUS
  <2> HIDE DEF content
  <2>5. job' = [NoJob EXCEPT !.content = content, !.left = Pending]
    BY <1>8 DEF content
  <2>6. job'.content = content /\ job'.renamed = {} /\ job'.left = Pending
        /\ job' \in [content : Contents, renamed : SUBSET Nat, left : SUBSET Sessions]
    BY <1>6, <2>1, <2>3, <2>5
  <2>7. SupportTypeOK'
    BY <1>1, <1>2, <1>8, <2>6 DEF SupportTypeOK, Bundling
  <2>8. DeliveryInv'
    BY <1>1, <1>3, <1>8, <2>1, <2>4, <2>6 DEF DeliveryInv
  <2>9. RenameInv'
    BY <1>1, <1>2, <1>8, <2>6 DEF RenameInv, OnlyNewestUnsent
  <2>10. QED
    BY <1>4, <1>5, <2>7, <2>8, <2>9
<1>9. QED
  BY <1>1, <1>7, <1>8

(* The renames: while they are not torn only the newest bundle is unsent,  *)
(* so it is the only one that is renamed.                                  *)
LEMMA BundleMarkSentKeeps ==
  ASSUME SupportInv, BundleMarkSent, pc' = pc
  PROVE  SupportInv'
<1> USE DEF SupportInv
<1>1. sup = "bundle_sent" /\ UNCHANGED <<card, dirs, active, status, begun, excused, torn>>
  BY DEF BundleMarkSent
<1>2. Bundling /\ Renaming /\ Renaming' /\ Bundling' /\ disturbed' \in Nat
      /\ sup' # "bundle_mark"
  BY <1>1, FaultFacts DEF BundleMarkSent, Bundling, Renaming, SupportTypeOK
<1>3. active = NoSession
  BY <1>2, BundlingInMenu
<1>4. PositionInv' /\ MarkerInv'
  BY <1>1, <1>2, BundlingKeepsSessions
<1>5. bundles \in Seq(Bundles) /\ Len(bundles) \in Nat
  BY DEF SupportTypeOK
<1>6. CASE \E i \in Unsent :
             /\ bundles' = [bundles EXCEPT ![i].sent = TRUE]
             /\ job' = [job EXCEPT !.renamed = @ \union {i}]
             /\ sup' = sup
  <2>1. PICK i \in Unsent :
          /\ bundles' = [bundles EXCEPT ![i].sent = TRUE]
          /\ job' = [job EXCEPT !.renamed = @ \union {i}]
          /\ sup' = sup
    BY <1>6
  <2>2. i \in 1 .. Len(bundles) /\ ~bundles[i].sent
    BY DEF Unsent
  <2>3. /\ bundles' \in Seq(Bundles) /\ Len(bundles') = Len(bundles)
        /\ \A j \in 1 .. Len(bundles) :
             /\ bundles'[j].content = bundles[j].content
             /\ bundles'[j].sent = IF j = i THEN TRUE ELSE bundles[j].sent
    BY <1>5, <2>1, <2>2, RenameFacts
  <2>4. /\ job'.content = job.content /\ job'.left = job.left
        /\ job'.renamed = job.renamed \union {i}
        /\ job' \in [content : Contents, renamed : SUBSET Nat, left : SUBSET Sessions]
    BY <2>1, <2>2, <1>5 DEF SupportTypeOK
  <2>5. SupportTypeOK'
    BY <1>1, <1>2, <2>3, <2>4 DEF SupportTypeOK
  <2>6. DeliveryInv'
    BY <1>1, <1>2, <1>3, <2>4 DEF DeliveryInv
  <2>7. BundledIsDelivered'
    <3>1. Len(bundles') \in Nat /\ Len(bundles) =< Len(bundles')
      BY <1>5, <2>3
    <3>2. QED
      BY <1>1, <1>5, <2>3, <3>1, DeliveredKept
  <2>8. RenameInv'
    <3>1. job'.renamed \subseteq 1 .. Len(bundles')
      BY <1>2, <2>2, <2>3, <2>4 DEF RenameInv
    <3>2. ASSUME ~torn, NEW j \in 1 .. Len(bundles)
          PROVE  IF j \in job'.renamed THEN bundles'[j].sent /\ j = Len(bundles)
                 ELSE bundles'[j].sent <=> j < Len(bundles)
      <4>1. IF j \in job.renamed THEN bundles[j].sent /\ j = Len(bundles)
            ELSE bundles[j].sent <=> j < Len(bundles)
        BY <1>2, <3>2 DEF RenameInv
      <4>2. i = Len(bundles)
        BY <1>2, <1>5, <2>2, <3>2 DEF RenameInv
      <4>3. QED
        BY <2>3, <2>4, <4>1, <4>2
    <3>3. sup' # "bundle_publish"
      BY <1>1, <2>1
    <3>4. QED
      BY <1>1, <1>2, <2>3, <3>1, <3>2, <3>3 DEF RenameInv
  <2>9. QED
    BY <1>4, <2>5, <2>6, <2>7, <2>8
<1>7. CASE /\ UNCHANGED <<bundles, job>>
           /\ sup' = "bundle_rollback" \/ (sup' = "bundle_publish" /\ Unsent = {})
  <2>1. SupportTypeOK'
    BY <1>1, <1>2, <1>7 DEF SupportTypeOK
  <2>2. DeliveryInv'
    BY <1>1, <1>2, <1>3, <1>7 DEF DeliveryInv
  <2>3. BundledIsDelivered'
    BY <1>1, <1>7 DEF BundledIsDelivered
  <2>4. RenameInv'
    BY <1>1, <1>2, <1>7 DEF RenameInv, Unsent
  <2>5. QED
    BY <1>4, <2>1, <2>2, <2>3, <2>4
<1>8. QED
  BY <1>6, <1>7 DEF BundleMarkSent
(* The new bundle becomes the newest, and the only one unsent.             *)
LEMMA BundlePublishKeeps ==
  ASSUME SupportInv, BundlePublish, pc' = pc
  PROVE  SupportInv'
<1> USE DEF SupportInv
<1>1. sup = "bundle_publish" /\ UNCHANGED <<card, dirs, active, status, begun, excused, job>>
  BY DEF BundlePublish
<1>2. Bundling /\ Renaming /\ Bundling' /\ disturbed' \in Nat
  BY <1>1, FaultFacts DEF BundlePublish, Publish, Bundling, Renaming, SupportTypeOK
<1>3. active = NoSession
  BY <1>2, BundlingInMenu
<1>4. PositionInv' /\ MarkerInv'
  BY <1>1, <1>2, BundlingKeepsSessions
<1>5. bundles \in Seq(Bundles) /\ Len(bundles) \in Nat
  BY DEF SupportTypeOK
<1>6. CASE Publish
  <2> DEFINE b == [content |-> job.content, sent |-> FALSE]
  <2>1. b \in Bundles /\ b.content = job.content /\ b.sent = FALSE
    BY DEF SupportTypeOK, Bundles
  <2> HIDE DEF b
  <2>2. bundles' = Append(bundles, b) /\ torn' = FALSE /\ sup' = "bundle_mark"
    BY <1>6 DEF Publish, b
  <2>3. /\ bundles' \in Seq(Bundles) /\ Len(bundles') = Len(bundles) + 1
        /\ bundles'[Len(bundles) + 1] = b
        /\ \A j \in 1 .. Len(bundles) : bundles'[j] = bundles[j]
    BY <1>5, <2>1, <2>2
  <2>4. SupportTypeOK'
    BY <1>1, <1>2, <2>2, <2>3 DEF SupportTypeOK
  <2>5. DeliveryInv'
    <3>1. Len(bundles') >= 1 /\ bundles'[Len(bundles')].content = job'.content
      BY <1>1, <1>5, <2>1, <2>3
    <3>2. QED
      BY <1>1, <1>2, <1>3, <3>1 DEF DeliveryInv
  <2>6. BundledIsDelivered'
    <3>1. Len(bundles') \in Nat /\ Len(bundles) =< Len(bundles')
      BY <1>5, <2>3
    <3>2. QED
      BY <1>1, <1>5, <2>3, <3>1, DeliveredKept
  <2>7. RenameInv'
    <3>1. \A j \in 1 .. Len(bundles) : bundles[j].sent
      BY <1>1 DEF RenameInv, Unsent
    <3>2. ASSUME NEW j \in 1 .. Len(bundles')
          PROVE  bundles'[j].sent <=> j < Len(bundles')
      <4>1. CASE j = Len(bundles')
        BY <1>5, <2>1, <2>3, <4>1
      <4>2. CASE j # Len(bundles')
        <5>1. j \in 1 .. Len(bundles) /\ j < Len(bundles')
          BY <1>5, <2>3, <4>2
        <5>2. QED
          BY <2>3, <3>1, <5>1
      <4>3. QED
        BY <4>1, <4>2
    <3>3. ~Renaming' /\ sup' # "bundle_publish"
      BY <2>2 DEF Renaming
    <3>4. QED
      BY <3>2, <3>3 DEF RenameInv, OnlyNewestUnsent
  <2>8. QED
    BY <1>4, <2>4, <2>5, <2>6, <2>7
<1>7. CASE sup' = "bundle_rollback" /\ UNCHANGED <<bundles, torn>>
  <2>1. SupportTypeOK'
    BY <1>1, <1>2, <1>7 DEF SupportTypeOK
  <2>2. DeliveryInv'
    BY <1>1, <1>2, <1>3, <1>7 DEF DeliveryInv
  <2>3. BundledIsDelivered'
    BY <1>1, <1>7 DEF BundledIsDelivered
  <2>4. RenameInv'
    <3>1. Renaming'
      BY <1>7 DEF Renaming
    <3>2. QED
      BY <1>1, <1>2, <1>7, <3>1 DEF RenameInv
  <2>5. QED
    BY <1>4, <2>1, <2>2, <2>3, <2>4
<1>8. QED
  BY <1>6, <1>7 DEF BundlePublish

(* The roll back undoes the renames, or tears them.                        *)
LEMMA BundleRollbackKeeps ==
  ASSUME SupportInv, BundleRollback, pc' = pc
  PROVE  SupportInv'
<1> USE DEF SupportInv
<1>1. sup = "bundle_rollback" /\ UNCHANGED <<card, dirs, active, status, begun, excused>>
  BY DEF BundleRollback
<1>2. Bundling /\ Renaming /\ (Bundling' \/ sup' = "idle") /\ disturbed' \in Nat
  BY <1>1, FaultFacts DEF BundleRollback, Bundling, Renaming, SupportTypeOK
<1>3. active = NoSession
  BY <1>2, BundlingInMenu
<1>4. PositionInv' /\ MarkerInv'
  BY <1>1, <1>2, BundlingKeepsSessions
<1>5. bundles \in Seq(Bundles) /\ Len(bundles) \in Nat
  BY DEF SupportTypeOK
<1>6. CASE \E i \in job.renamed :
             /\ job' = [job EXCEPT !.renamed = @ \ {i}] /\ sup' = sup
             /\ \/ bundles' = [bundles EXCEPT ![i].sent = FALSE] /\ torn' = torn
                \/ torn' = TRUE /\ bundles' = bundles
  <2>1. PICK i \in job.renamed :
             /\ job' = [job EXCEPT !.renamed = @ \ {i}] /\ sup' = sup
             /\ \/ bundles' = [bundles EXCEPT ![i].sent = FALSE] /\ torn' = torn
                \/ torn' = TRUE /\ bundles' = bundles
    BY <1>6
  <2>2. i \in 1 .. Len(bundles)
    BY <1>2 DEF RenameInv
  <2>3. /\ bundles' \in Seq(Bundles) /\ Len(bundles') = Len(bundles)
        /\ \A j \in 1 .. Len(bundles) : bundles'[j].content = bundles[j].content
        /\ \/ torn' = TRUE
           \/ /\ torn' = torn
              /\ \A j \in 1 .. Len(bundles) :
                   bundles'[j].sent = IF j = i THEN FALSE ELSE bundles[j].sent
    <3>1. CASE bundles' = [bundles EXCEPT ![i].sent = FALSE] /\ torn' = torn
      BY <1>5, <2>2, <3>1, RenameFacts
    <3>2. CASE torn' = TRUE /\ bundles' = bundles
      BY <1>5, <3>2
    <3>3. QED
      BY <2>1, <3>1, <3>2
  <2>4. /\ job'.content = job.content /\ job'.left = job.left
        /\ job'.renamed = job.renamed \ {i}
        /\ job' \in [content : Contents, renamed : SUBSET Nat, left : SUBSET Sessions]
    BY <2>1 DEF SupportTypeOK
  <2>5. Renaming' /\ Bundling' /\ sup' # "bundle_mark" /\ sup' # "bundle_publish"
    BY <1>1, <2>1 DEF Renaming, Bundling
  <2>6. SupportTypeOK'
    BY <1>1, <1>2, <2>3, <2>4, <2>5 DEF SupportTypeOK
  <2>7. DeliveryInv'
    BY <1>1, <1>2, <1>3, <2>4, <2>5 DEF DeliveryInv
  <2>8. BundledIsDelivered'
    <3>1. Len(bundles') \in Nat /\ Len(bundles) =< Len(bundles')
      BY <1>5, <2>3
    <3>2. QED
      BY <1>1, <1>5, <2>3, <3>1, DeliveredKept
  <2>9. RenameInv'
    <3>1. job'.renamed \subseteq 1 .. Len(bundles')
      BY <1>2, <2>3, <2>4 DEF RenameInv
    <3>2. ASSUME ~torn', NEW j \in 1 .. Len(bundles)
          PROVE  IF j \in job'.renamed THEN bundles'[j].sent /\ j = Len(bundles)
                 ELSE bundles'[j].sent <=> j < Len(bundles)
      <4>0. torn' # TRUE
        BY <3>2, Zenon
      <4>1. /\ torn' = torn
            /\ bundles'[j].sent = IF j = i THEN FALSE ELSE bundles[j].sent
        BY <2>3, <4>0
      <4>2. IF j \in job.renamed THEN bundles[j].sent /\ j = Len(bundles)
            ELSE bundles[j].sent <=> j < Len(bundles)
        BY <1>2, <3>2, <4>1 DEF RenameInv
      <4>3. QED
        BY <1>5, <2>4, <4>1, <4>2
    <3>3. QED
      BY <2>3, <2>5, <3>1, <3>2 DEF RenameInv
  <2>10. QED
    BY <1>4, <2>6, <2>7, <2>8, <2>9
<1>7. CASE job.renamed = {} /\ job' = NoJob /\ sup' = "idle" /\ UNCHANGED <<bundles, torn>>
  <2>1. NoJob \in [content : Contents, renamed : SUBSET Nat, left : SUBSET Sessions]
    BY DEF NoJob, Contents
  <2>2. SupportTypeOK'
    BY <1>1, <1>2, <1>7, <2>1 DEF SupportTypeOK
  <2>3. DeliveryInv'
    BY <1>1, <1>3, <1>7 DEF DeliveryInv, Renaming
  <2>4. BundledIsDelivered'
    BY <1>1, <1>7 DEF BundledIsDelivered
  <2>5. RenameInv'
    <3>1. ~Renaming' /\ sup' # "bundle_publish"
      BY <1>7 DEF Renaming
    <3>2. ~torn => OnlyNewestUnsent
      BY <1>2, <1>7 DEF RenameInv, OnlyNewestUnsent
    <3>3. QED
      BY <1>7, <3>1, <3>2 DEF RenameInv, OnlyNewestUnsent
  <2>6. QED
    BY <1>4, <2>2, <2>3, <2>4, <2>5
<1>8. QED
  BY <1>6, <1>7 DEF BundleRollback

(* A session is marked as bundled once it is in the newest bundle.         *)
LEMMA BundleMarkKeeps ==
  ASSUME SupportInv, BundleMark, pc' = pc
  PROVE  SupportInv'
<1> USE DEF SupportInv
<1>1. sup = "bundle_mark" /\ UNCHANGED <<dirs, active, status, begun, excused, bundles, torn>>
  BY DEF BundleMark
<1>2. Bundling /\ ~Renaming /\ ~Renaming' /\ (Bundling' \/ sup' = "idle") /\ disturbed' \in Nat
      /\ sup' # "bundle_publish"
  BY <1>1, FaultFacts DEF BundleMark, Bundling, Renaming, SupportTypeOK
<1>3. active = NoSession /\ Settled
  BY <1>2, BundlingInMenu
<1>4. bundles \in Seq(Bundles) /\ Len(bundles) \in Nat /\ card \in [Files -> Values]
  BY DEF SupportTypeOK
<1>5. RenameInv'
  BY <1>1, <1>2 DEF RenameInv, OnlyNewestUnsent
<1>6. CASE \E s \in job.left :
             /\ job' = [job EXCEPT !.left = @ \ {s}] /\ sup' = sup
             /\ card' = [card EXCEPT ![Bundled(s)] = "present"] \/ card' = card
  <2>1. PICK t \in job.left :
             /\ job' = [job EXCEPT !.left = @ \ {t}] /\ sup' = sup
             /\ card' = [card EXCEPT ![Bundled(t)] = "present"] \/ card' = card
    BY <1>6
  <2>2. /\ t \in dirs /\ t \in Sessions
        /\ t \in DOMAIN job.content /\ job.content[t] = card[Summary(t)]
        /\ Len(bundles) >= 1 /\ bundles[Len(bundles)].content = job.content
    BY <1>1 DEF DeliveryInv, SupportTypeOK
  <2>3. /\ card' \in [Files -> Values] /\ card'[Marker] = card[Marker]
        /\ \A s \in Sessions : card'[Summary(s)] = card[Summary(s)]
        /\ \A s \in Sessions : s # t => card'[Bundled(s)] = card[Bundled(s)]
    <3>1. "present" \in Values
      BY DEF Values
    <3>2. CASE card' = [card EXCEPT ![Bundled(t)] = "present"]
      BY <1>4, <2>2, <3>1, <3>2, BundledWritten
    <3>3. CASE card' = card
      BY <1>4, <3>3
    <3>4. QED
      BY <2>1, <3>2, <3>3
  <2>4. /\ job'.content = job.content /\ job'.left \subseteq job.left
        /\ job' \in [content : Contents, renamed : SUBSET Nat, left : SUBSET Sessions]
    BY <2>1 DEF SupportTypeOK
  <2>5. PositionInv' /\ MarkerInv'
    BY <1>1, <1>2, <2>3, BundlingKeepsSessions
  <2>6. SupportTypeOK'
    BY <1>1, <1>2, <2>1, <2>3, <2>4 DEF SupportTypeOK, Bundling
  <2>7. DeliveryInv'
    <3>1. \A s \in Sessions \ dirs : card'[Bundled(s)] = Absent
      BY <2>2, <2>3 DEF DeliveryInv
    <3>2. \A s \in DOMAIN job.content : job.content[s] = card'[Summary(s)]
      BY <1>1, <2>3 DEF DeliveryInv, SupportTypeOK
    <3>3. QED
      BY <1>1, <1>2, <1>3, <2>1, <2>2, <2>3, <2>4, <3>1, <3>2 DEF DeliveryInv, Settled
  <2>8. BundledIsDelivered'
    <3> SUFFICES ASSUME NEW s \in dirs \ excused, card'[Bundled(s)] # Absent
                 PROVE  \E i \in 1 .. Len(bundles) :
                   s \in DOMAIN bundles[i].content /\ bundles[i].content[s] = card'[Summary(s)]
      BY <1>1 DEF BundledIsDelivered
    <3>1. s \in Sessions
      BY DEF SupportTypeOK
    <3>2. CASE s = t
      BY <1>4, <2>2, <2>3, <3>1, <3>2
    <3>3. CASE s # t
      BY <2>3, <3>1, <3>3 DEF BundledIsDelivered
    <3>4. QED
      BY <3>2, <3>3
  <2>9. QED
    BY <1>5, <2>5, <2>6, <2>7, <2>8
<1>7. CASE job' = NoJob /\ sup' = "idle" /\ card' = card
  <2>1. NoJob \in [content : Contents, renamed : SUBSET Nat, left : SUBSET Sessions]
    BY DEF NoJob, Contents
  <2>2. SupportTypeOK'
    BY <1>1, <1>2, <1>7, <2>1 DEF SupportTypeOK
  <2>3. PositionInv' /\ MarkerInv'
    BY <1>1, <1>2, <1>7, BundlingKeepsSessions
  <2>4. DeliveryInv'
    BY <1>1, <1>2, <1>3, <1>7 DEF DeliveryInv
  <2>5. BundledIsDelivered'
    BY <1>1, <1>7 DEF BundledIsDelivered
  <2>6. QED
    BY <1>5, <2>2, <2>3, <2>4, <2>5
<1>8. QED
  BY <1>6, <1>7 DEF BundleMark
-----------------------------------------------------------------------------
(* The process ends: a rename that was under way is torn, and the marker   *)
(* stays for the next launch.                                              *)
LEMMA EndsKeeps ==
  ASSUME SupportInv, pc' = "dead", SessionEnds, disturbed' \in Nat,
         BundleCrash \/ (pc = "shutdown" /\ bundleVars' = bundleVars)
  PROVE  SupportInv'
<1> USE DEF SupportInv
<1>1. /\ active' = NoSession /\ status' = "clean_exit" /\ sup' = "idle"
      /\ UNCHANGED <<card, dirs, begun, excused>>
  BY DEF SessionEnds
<1>2. ~Beginning' /\ ~Ending' /\ ~Recovering' /\ ~Renaming' /\ ~Bundling'
  BY <1>1 DEF Beginning, Ending, Recovering, Renaming, Bundling
<1>3. bundles' = bundles /\ torn' \in BOOLEAN
      /\ job' \in [content : Contents, renamed : SUBSET Nat, left : SUBSET Sessions]
  <2>1. NoJob \in [content : Contents, renamed : SUBSET Nat, left : SUBSET Sessions]
    BY DEF NoJob, Contents
  <2>2. CASE BundleCrash
    BY <2>1, <2>2 DEF BundleCrash, SupportTypeOK
  <2>3. CASE bundleVars' = bundleVars
    BY <2>3 DEF bundleVars, SupportTypeOK
  <2>4. QED
    BY <2>2, <2>3
<1>4. SupportTypeOK'
  BY <1>1, <1>3 DEF SupportTypeOK, Final
<1>5. PositionInv'
  BY <1>1, <1>2 DEF PositionInv
<1>6. MarkerInv'
  BY <1>1, <1>2 DEF MarkerInv
<1>7. DeliveryInv'
  BY <1>1, <1>2 DEF DeliveryInv
<1>8. BundledIsDelivered'
  BY <1>1, <1>3 DEF BundledIsDelivered
<1>9. RenameInv'
  <2>1. ~torn' => OnlyNewestUnsent
    <3>1. CASE pc = "shutdown" /\ bundleVars' = bundleVars
      <4>1. ~Renaming /\ torn' = torn
        BY <3>1, Positions DEF PositionInv, bundleVars
      <4>2. QED
        BY <4>1 DEF RenameInv
    <3>2. CASE BundleCrash
      <4>1. ~torn' => ~torn /\ (sup = "bundle_mark" \/ job.renamed = {})
        BY <3>2 DEF BundleCrash
      <4>2. sup = "bundle_mark" => ~Renaming
        BY DEF Renaming
      <4>3. QED
        BY <4>1, <4>2 DEF RenameInv, OnlyNewestUnsent
    <3>3. QED
      BY <3>1, <3>2
  <2>2. QED
    BY <1>1, <1>2, <1>3, <2>1 DEF RenameInv, OnlyNewestUnsent
<1>10. QED
  BY <1>4, <1>5, <1>6, <1>7, <1>8, <1>9

LEMMA SupportStart == Init => SupportInv
<1> SUFFICES ASSUME Init PROVE SupportInv
  OBVIOUS
<1>1. /\ card = [f \in Files |-> Absent] /\ dirs = {} /\ active = NoSession
      /\ status = "clean_exit" /\ sup = "idle" /\ disturbed = 0 /\ begun = {} /\ excused = {}
      /\ bundles = <<>> /\ job = NoJob /\ torn = FALSE /\ pc = "dead"
  BY DEF Init, SessionInit, BundleInit
<1>2. /\ card[Marker] = Absent /\ card \in [Files -> Values]
      /\ \A s \in Sessions : card[Bundled(s)] = Absent
  BY <1>1, FileFacts DEF Values
<1>3. NoJob \in [content : Contents, renamed : SUBSET Nat, left : SUBSET Sessions]
  BY DEF NoJob, Contents
<1>4. ~Beginning /\ ~Ending /\ ~Recovering /\ ~Renaming /\ ~Bundling
  BY <1>1, Positions
<1>5. SupportTypeOK
  <2>1. bundles \in Seq(Bundles)
    BY <1>1
  <2>2. torn \in BOOLEAN /\ disturbed \in Nat
    BY <1>1
  <2>3. card[Marker] \in Sessions \union {Absent} /\ active \in Sessions \union {NoSession}
        /\ status \in Final /\ dirs \subseteq Sessions /\ begun \subseteq dirs
    BY <1>1, <1>2 DEF Final
  <2>4. QED
    BY <1>1, <1>2, <1>3, <2>1, <2>2, <2>3 DEF SupportTypeOK
<1>6. PositionInv
  BY <1>1, <1>4 DEF PositionInv
<1>7. MarkerInv
  BY <1>1, <1>2, <1>4 DEF MarkerInv
<1>8. DeliveryInv
  BY <1>1, <1>2, <1>4 DEF DeliveryInv
<1>9. BundledIsDelivered /\ RenameInv
  BY <1>1, <1>4 DEF BundledIsDelivered, RenameInv, OnlyNewestUnsent
<1>10. QED
  BY <1>5, <1>6, <1>7, <1>8, <1>9 DEF SupportInv

LEMMA SupportStep == SupportInv /\ [Next]_vars => SupportInv'
<1> SUFFICES ASSUME SupportInv, [Next]_vars PROVE SupportInv'
  OBVIOUS
<1>1. disturbed \in Nat
  BY DEF SupportInv, SupportTypeOK
<1>2. CASE Launch \/ Diagnose \/ ClockReadings \/ ExitRequested \/ StopCore
  BY <1>2, CallsKeep
<1>3. CASE \/ Exit \/ StartClocks \/ SuspendConsole \/ BootCore \/ GameStops
           \/ ReleaseClocks \/ ResumeConsole \/ SkipResume \/ Unwind
  BY <1>3, FrontEndKeeps
<1>4. CASE BeginGame
  BY <1>4, BeginGameKeeps
<1>5. CASE Shutdown
  BY <1>1, <1>5, EndsKeeps DEF Shutdown, Gone, NoFault
<1>6. CASE Crash
  <2>1. pc' = "dead" /\ SessionEnds /\ BundleCrash /\ disturbed' \in Nat
    BY <1>1, <1>6, FaultFacts DEF Crash, Gone
  <2>2. QED
    BY <2>1, EndsKeeps
<1>7. CASE ClockStep /\ UNCHANGED <<bootVars, supportVars>>
  BY <1>1, <1>7, UnchangedKeeps DEF bootVars, supportVars, sessionVars, cardVars
<1>8. CASE SessionStep /\ UNCHANGED <<bootVars, clockVars, bundleVars>>
  <2>1. pc' = pc /\ bundleVars' = bundleVars
    BY <1>8 DEF bootVars
  <2>2. QED
    BY <1>8, <2>1, BeginSummaryKeeps, BeginMarkerKeeps, BeginErrorKeeps, UpdateSummaryKeeps,
       EndSummaryKeeps, EndMarkerKeeps, RecoverSummaryKeeps, RecoverMarkerKeeps DEF SessionStep
<1>9. CASE BundleStep /\ UNCHANGED <<bootVars, clockVars>>
  <2>1. pc' = pc
    BY <1>9 DEF bootVars
  <2>2. QED
    BY <1>9, <2>1, BundleWriteKeeps, BundleMarkSentKeeps, BundlePublishKeeps,
       BundleRollbackKeeps, BundleMarkKeeps DEF BundleStep
<1>10. CASE Manage
  <2>1. disturbed' \in Nat
    BY <1>1, <1>10, FaultFacts DEF Manage
  <2>2. QED
    BY <1>10, <2>1, UnchangedKeeps DEF Manage, bootVars
<1>11. CASE UNCHANGED vars
  BY <1>1, <1>11, UnchangedKeeps DEF vars, bootVars, supportVars, sessionVars, cardVars
<1>12. QED
  BY <1>2, <1>3, <1>4, <1>5, <1>6, <1>7, <1>8, <1>9, <1>10, <1>11 DEF Next, Called

LEMMA SupportInvariant == Spec => []SupportInv
<1>1. Init => SupportInv
  BY SupportStart
<1>2. SupportInv /\ [Next]_vars => SupportInv'
  BY SupportStep
<1>3. QED
  BY <1>1, <1>2, PTL DEF Spec

-----------------------------------------------------------------------------
\* Whenever the menu is ready no session is recorded, and each one that ever began has a final
\* summary, however often the process died and whatever failed: RecoverInterruptedSupportSession
\* finds every session that EndSupportSession did not reach, unless a write of its final summary
\* or the removal of its marker failed.
THEOREM Accounted == Spec => []SessionsAreAccounted
<1>1. SupportInv => SessionsAreAccounted
  <2> SUFFICES ASSUME SupportInv, pc = "menu", sup = "idle"
               PROVE  active = NoSession /\ \A s \in begun \ excused : card[Summary(s)] \in Final
    BY DEF SessionsAreAccounted, Idle
  <2>1. active = NoSession /\ ~Recovering
    BY Positions DEF SupportInv, PositionInv
  <2>2. Settled
    BY <2>1 DEF SupportInv, MarkerInv
  <2>3. QED
    BY <2>1, <2>2, NameFacts DEF SupportInv, MarkerInv, Settled, SupportTypeOK
<1>2. QED
  BY <1>1, SupportInvariant, PTL

\* A session that GenerateSupportBundle marked as bundled is in a published bundle with the
\* summary it has on the card, for any number of bundles, crashes and failures.
THEOREM Delivered == Spec => []BundledIsDelivered
<1>1. SupportInv => BundledIsDelivered
  BY DEF SupportInv
<1>2. QED
  BY <1>1, SupportInvariant, PTL

\* Outside of GenerateSupportBundle exactly the newest bundle is UNSENT, for any number of
\* bundles and failures, until a crash or a failed roll back tears the renames.
THEOREM NewestUnsent == Spec => []NewestBundleIsUnsent
<1>1. SupportInv => NewestBundleIsUnsent
  BY Positions DEF SupportInv, RenameInv, OnlyNewestUnsent, NewestBundleIsUnsent
<1>2. QED
  BY <1>1, SupportInvariant, PTL
=============================================================================
