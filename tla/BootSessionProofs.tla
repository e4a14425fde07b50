------------------------- MODULE BootSessionProofs --------------------------
(***************************************************************************)
(* Proofs about the session around a game, for every set of rates, every   *)
(* set of session names and any number of disturbances: the clocks are     *)
(* handed back, and text is drawn only into the console's own window.      *)
(***************************************************************************)
EXTENDS BootSession, TLAPS

\* The types of the clock session.
ClockTypeOK ==
  /\ override \in [Domains -> Rates]
  /\ clk \in [phase : {"off", "request", "active", "release"},
              backend : {"none", "sysclk", "direct"},
              attempted : SUBSET Domains,
              previous : [Domains -> Rates],
              read : [Domains -> SUBSET Rates]]
  /\ ours \subseteq Domains /\ stuck \subseteq Domains

\* Every override of the session is still to be released, or its restore has failed.
OursIsAttempted == ours \subseteq clk.attempted \union stuck

\* The session's overrides have the rate it asked for.
OursIsTarget == \A d \in ours : override[d] = Target

\* An override that was read as somebody else's is not the session's, however old the reading is.
ReadIsFaithful ==
  \A d \in Domains : clk.read[d] # {} /\ Target \notin clk.read[d] => d \notin ours

\* Outside Release nothing has been read; outside a session nothing is left over.
PhaseInv ==
  /\ clk.phase # "release" => \A d \in Domains : clk.read[d] = {}
  /\ clk.phase = "off" => clk.attempted = {} /\ stuck = {}

ClockInv == ClockTypeOK /\ OursIsAttempted /\ OursIsTarget /\ ReadIsFaithful /\ PhaseInv

-----------------------------------------------------------------------------
(* A session that is off satisfies the invariant, whatever the overrides are. *)
LEMMA OffIsClean ==
  ASSUME override' \in [Domains -> Rates], clk' = Off, ours' = {}, stuck' = {}
  PROVE  ClockInv'
<1>1. Off \in [phase : {"off", "request", "active", "release"},
               backend : {"none", "sysclk", "direct"},
               attempted : SUBSET Domains,
               previous : [Domains -> Rates],
               read : [Domains -> SUBSET Rates]]
  BY RatesAssumption DEF Off
<1>2. Off.phase = "off" /\ Off.attempted = {} /\ \A d \in Domains : Off.read[d] = {}
  BY DEF Off
<1>3. QED
  BY <1>1, <1>2 DEF ClockInv, ClockTypeOK, OursIsAttempted, OursIsTarget, ReadIsFaithful, PhaseInv

(* The domain that is handled next is one of those that are left.          *)
LEMMA NextOfFacts ==
  ASSUME NEW S \in SUBSET Domains, S # {}
  PROVE  NextOf(S) \in S /\ NextOf(S) \in Domains
BY DEF NextOf, Domains

(* RequestRate: the domain counts as attempted before the call is made.    *)
LEMMA RequestRateInv == ClockInv /\ RequestRate => ClockInv'
<1> SUFFICES ASSUME ClockInv, RequestRate PROVE ClockInv'
  OBVIOUS
<1> DEFINE d == NextOf(Domains \ clk.attempted)
<1> USE DEF ClockInv
<1>1. d \in Domains
  BY DEF NextOf, Domains
<1>2. PICK applied \in BOOLEAN, taken \in BOOLEAN :
        /\ override' = IF applied THEN [override EXCEPT ![d] = Target] ELSE override
        /\ ours' = IF applied THEN ours \union {d} ELSE ours
        /\ clk' = [clk EXCEPT !.attempted = @ \union {d},
                              !.phase = IF ~taken THEN "release"
                                        ELSE IF d = "GPU" THEN "active" ELSE @]
  BY DEF RequestRate
<1>3. clk.phase = "request" /\ stuck' = stuck
  BY DEF RequestRate
<1> HIDE DEF d
<1>4. /\ clk'.read = clk.read /\ clk'.attempted = clk.attempted \union {d}
      /\ clk'.phase # "off"
  BY <1>2, <1>3 DEF ClockTypeOK
<1>5. ClockTypeOK'
  BY <1>1, <1>2, <1>3, RatesAssumption DEF ClockTypeOK
<1>6. OursIsAttempted' /\ OursIsTarget'
  BY <1>1, <1>2, <1>3, <1>4 DEF ClockTypeOK, OursIsAttempted, OursIsTarget
<1>7. ReadIsFaithful' /\ PhaseInv'
  BY <1>3, <1>4 DEF ReadIsFaithful, PhaseInv
<1>8. QED
  BY <1>5, <1>6, <1>7

(* ReadOwnership: the reading agrees with the override at this moment.     *)
LEMMA ReadOwnershipInv == ClockInv /\ ReadOwnership => ClockInv'
<1> SUFFICES ASSUME ClockInv, ReadOwnership PROVE ClockInv'
  OBVIOUS
<1> USE DEF ClockInv
<1> DEFINE domains == IF clk.backend = "sysclk" THEN Domains ELSE {NextOf(clk.attempted)}
<1>1. PICK valid \in BOOLEAN :
        clk' = [clk EXCEPT !.read = [e \in Domains |->
                  IF e \notin domains THEN clk.read[e]
                  ELSE IF valid THEN {override[e]} ELSE Rates]]
  BY DEF ReadOwnership
<1> HIDE DEF domains
<1>2. clk.phase = "release" /\ UNCHANGED <<override, ours, stuck>>
  BY DEF ReadOwnership
<1>3. /\ clk'.phase = clk.phase /\ clk'.attempted = clk.attempted
      /\ \A e \in Domains : clk'.read[e] = IF e \notin domains THEN clk.read[e]
                                           ELSE IF valid THEN {override[e]} ELSE Rates
  BY <1>1 DEF ClockTypeOK
<1>4. ClockTypeOK'
  BY <1>1, <1>2 DEF ClockTypeOK
<1>5. OursIsAttempted' /\ OursIsTarget' /\ PhaseInv'
  BY <1>2, <1>3 DEF OursIsAttempted, OursIsTarget, PhaseInv
<1>6. ReadIsFaithful'
  BY <1>2, <1>3, RatesAssumption DEF ReadIsFaithful, OursIsTarget
<1>7. QED
  BY <1>4, <1>5, <1>6

(* Restore: the domain is given back, found to be foreign, or stuck.       *)
LEMMA RestoreInv == ClockInv /\ Restore => ClockInv'
<1> SUFFICES ASSUME ClockInv, Restore PROVE ClockInv'
  OBVIOUS
<1> DEFINE d == NextOf(clk.attempted)
<1> USE DEF ClockInv
<1>1. d \in Domains /\ d \in clk.attempted
  BY NextOfFacts DEF Restore, ClockTypeOK
<1>2. PICK replaced \in BOOLEAN, failed \in BOOLEAN :
        /\ IF Target \in clk.read[d] THEN replaced \/ failed ELSE ~replaced /\ ~failed
        /\ override' = IF replaced THEN [override EXCEPT ![d] = clk.previous[d]] ELSE override
        /\ ours' = IF replaced THEN ours \ {d} ELSE ours
        /\ stuck' = IF failed THEN stuck \union {d} ELSE stuck
  BY DEF Restore
<1>3. /\ clk.phase = "release" /\ clk.read[d] # {}
      /\ clk' = [clk EXCEPT !.attempted = @ \ {d}, !.previous[d] = 0, !.read[d] = {}]
  BY DEF Restore, Unread
<1> HIDE DEF d
<1>4. /\ clk'.phase = clk.phase /\ clk'.attempted = clk.attempted \ {d}
      /\ \A e \in Domains : clk'.read[e] = IF e = d THEN {} ELSE clk.read[e]
  BY <1>1, <1>3 DEF ClockTypeOK
<1>5. ClockTypeOK'
  BY <1>1, <1>2, <1>3, RatesAssumption DEF ClockTypeOK
<1>6. d \in ours' => d \in stuck'
  BY <1>1, <1>2, <1>3 DEF ReadIsFaithful
<1>7. OursIsAttempted'
  BY <1>2, <1>4, <1>6 DEF OursIsAttempted
<1>8. OursIsTarget'
  BY <1>1, <1>2 DEF OursIsTarget, ClockTypeOK
<1>9. ReadIsFaithful' /\ PhaseInv'
  BY <1>2, <1>3, <1>4 DEF ReadIsFaithful, PhaseInv
<1>10. QED
  BY <1>5, <1>7, <1>8, <1>9

(* Start, Stop, the end of Release, and the end of the process.            *)
LEMMA SessionBoundsInv ==
  ASSUME ClockInv,
         StartSucceeds \/ StartFails \/ StopClocks \/ Released \/ ClockEnds \/ UNCHANGED clockVars
  PROVE  ClockInv'
<1> USE DEF ClockInv
<1>1. CASE StartSucceeds
  <2>1. PICK backend \in {"sysclk", "direct"}, phase \in {"request", "release"} :
          clk' = [Off EXCEPT !.phase = phase, !.backend = backend, !.previous = override]
    BY <1>1 DEF StartSucceeds
  <2>2. clk.phase = "off" /\ UNCHANGED <<override, ours, stuck>>
    BY <1>1 DEF StartSucceeds
  <2>3. /\ clk'.attempted = {} /\ clk'.phase # "off" /\ \A d \in Domains : clk'.read[d] = {}
        /\ ClockTypeOK'
    BY <2>1, <2>2 DEF Off, ClockTypeOK
  <2>4. QED
    BY <2>2, <2>3 DEF OursIsAttempted, OursIsTarget, ReadIsFaithful, PhaseInv
<1>2. CASE StartFails \/ UNCHANGED clockVars
  BY <1>2 DEF StartFails, clockVars, ClockTypeOK, OursIsAttempted, OursIsTarget, ReadIsFaithful,
     PhaseInv
<1>3. CASE StopClocks
  <2>1. /\ UNCHANGED <<override, ours, stuck>>
        /\ clk' = clk \/ clk' = [clk EXCEPT !.phase = "release"]
    BY <1>3 DEF StopClocks
  <2>2. /\ clk'.attempted = clk.attempted /\ clk'.read = clk.read
        /\ clk'.phase = clk.phase \/ clk'.phase = "release"
        /\ ClockTypeOK'
    BY <2>1 DEF ClockTypeOK
  <2>3. QED
    BY <2>1, <2>2 DEF OursIsAttempted, OursIsTarget, ReadIsFaithful, PhaseInv
<1>4. CASE Released
  <2>1. clk' = Off /\ stuck' = {} /\ override' \in [Domains -> Rates]
    BY <1>4 DEF Released, ClockTypeOK
  <2>2. ours' = {}
    BY <1>4 DEF Released, OursIsAttempted
  <2>3. QED
    BY <2>1, <2>2, OffIsClean
<1>5. CASE ClockEnds
  BY <1>5, OffIsClean DEF ClockEnds, ClockTypeOK
<1>6. QED
  BY <1>1, <1>2, <1>3, <1>4, <1>5

(* Another clock manager takes overrides away, it never gives one.         *)
LEMMA ManagerInv == ClockInv /\ ManagerWrites => ClockInv'
<1> SUFFICES ASSUME ClockInv, ManagerWrites PROVE ClockInv'
  OBVIOUS
<1> USE DEF ClockInv
<1>1. PICK d \in Domains, rate \in Rates :
        override' = [override EXCEPT ![d] = rate] /\ ours' = ours \ {d}
  BY DEF ManagerWrites
<1>2. clk' = clk /\ stuck' = stuck
  BY DEF ManagerWrites
<1>3. QED
  BY <1>1, <1>2 DEF ClockTypeOK, OursIsAttempted, OursIsTarget, ReadIsFaithful, PhaseInv

(* Every step of the program, of a crash and of the other manager.         *)
LEMMA ClockStepInv == ClockInv /\ [Next]_vars => ClockInv'
<1> SUFFICES ASSUME ClockInv, [Next]_vars PROVE ClockInv'
  OBVIOUS
<1>1. CASE \/ Launch \/ Diagnose \/ Exit \/ BeginGame \/ ClockReadings
           \/ SuspendConsole \/ BootCore \/ GameStops \/ ExitRequested \/ StopCore
           \/ ResumeConsole \/ SkipResume \/ UNCHANGED vars
  <2>1. UNCHANGED clockVars
    BY <1>1 DEF Launch, Diagnose, Exit, BeginGame, ClockReadings, SuspendConsole, BootCore,
       GameStops, ExitRequested, StopCore, ResumeConsole, SkipResume, vars
  <2>2. QED
    BY <2>1, SessionBoundsInv
<1>2. CASE StartClocks \/ ReleaseClocks \/ Unwind \/ Shutdown \/ Crash
  BY <1>2, SessionBoundsInv DEF StartClocks, ReleaseClocks, Unwind, Shutdown, Crash
<1>3. CASE Called
  BY <1>3, SessionBoundsInv, RequestRateInv, ReadOwnershipInv, RestoreInv DEF Called, ClockStep
<1>4. CASE Manage
  BY <1>4, ManagerInv DEF Manage
<1>5. QED
  BY <1>1, <1>2, <1>3, <1>4 DEF Next

(* Whatever is refused, fails or interferes, a session that is over has    *)
(* left no override of its own in place, except one whose restore call     *)
(* failed (ClockPolicy.cpp:95-154, ClockControl.cpp:279-330).              *)
THEOREM OverridesAreReturned == Spec => []ClocksHandedBack
<1>1. Init => ClockInv
  <2> SUFFICES ASSUME Init PROVE ClockInv
    OBVIOUS
  <2>1. override \in [Domains -> Rates] /\ clk = Off /\ ours = {} /\ stuck = {}
    BY RatesAssumption DEF Init, ClockInit
  <2>2. QED
    BY <2>1, RatesAssumption DEF ClockInv, ClockTypeOK, OursIsAttempted, OursIsTarget,
       ReadIsFaithful, PhaseInv, Off
<1>2. ClockInv => ClocksHandedBack
  BY DEF ClockInv, OursIsAttempted, PhaseInv, ClocksHandedBack
<1>3. QED
  BY <1>1, <1>2, ClockStepInv, PTL DEF Spec

-----------------------------------------------------------------------------
\* Who draws where: between the two handoffs the console is closed.
HandoffInv ==
  /\ DrawsOnlyToConsole
  /\ pc \in {"boot", "game", "stop", "release", "resume"} => ~console

(* No step lets text reach a window the renderer holds.                    *)
LEMMA HandoffStep == HandoffInv /\ [Next]_vars => HandoffInv'
<1> SUFFICES ASSUME HandoffInv, [Next]_vars PROVE HandoffInv'
  OBVIOUS
<1> USE DEF HandoffInv, DrawsOnlyToConsole
<1>1. CASE Launch \/ Exit \/ BeginGame \/ StartClocks \/ ClockReadings
  BY <1>1 DEF Launch, Exit, BeginGame, StartClocks, ClockReadings
<1>2. CASE Diagnose \/ Called \/ Manage \/ UNCHANGED vars
  BY <1>2 DEF Diagnose, Called, Manage, vars, bootVars
<1>3. CASE SuspendConsole
  BY <1>3 DEF SuspendConsole
<1>4. CASE BootCore \/ GameStops \/ ExitRequested \/ StopCore \/ ReleaseClocks
  BY <1>4 DEF BootCore, GameStops, ExitRequested, StopCore, ReleaseClocks
<1>5. CASE ResumeConsole
  <2>1. PICK prepared \in PrepareDisplayWindow(window), ready \in BOOLEAN :
          /\ console' = (prepared /\ ready)
          /\ window' = IF prepared /\ ready THEN window \union {"console"} ELSE window
          /\ pc' = IF prepared /\ ready THEN "menu" ELSE "unwind"
    BY <1>5 DEF ResumeConsole
  <2>2. prepared => window = {}
    BY <2>1 DEF PrepareDisplayWindow
  <2>3. QED
    BY <2>1, <2>2
<1>6. CASE SkipResume \/ Unwind
  BY <1>6 DEF SkipResume, Unwind
<1>7. CASE Shutdown \/ Crash
  BY <1>7 DEF Shutdown, Crash, Gone
<1>8. QED
  BY <1>1, <1>2, <1>3, <1>4, <1>5, <1>6, <1>7 DEF Next

(* Text is drawn only with the console's framebuffer, in a window no       *)
(* renderer holds buffers of, on every way out of a game                   *)
(* (Console.cpp:73-103, Display.cpp:50-55).                                *)
THEOREM TextOnlyToConsole == Spec => []DrawsOnlyToConsole
<1>1. Init => HandoffInv
  BY DEF Init, HandoffInv, DrawsOnlyToConsole
<1>2. HandoffInv => DrawsOnlyToConsole
  BY DEF HandoffInv
<1>3. QED
  BY <1>1, <1>2, HandoffStep, PTL DEF Spec
=============================================================================
