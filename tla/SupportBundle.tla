--------------------------- MODULE SupportBundle ----------------------------
(***************************************************************************)
(* GenerateSupportBundle: the sessions that were not bundled yet go into   *)
(* an archive; the older bundles are renamed from UNSENT to SENT, the new  *)
(* one is published as UNSENT, and its sessions are marked as bundled.     *)
(***************************************************************************)
EXTENDS SupportSession, Sequences

CONSTANT MaxBundles   \* bound: bundles published

ASSUME BundlesAssumption == MaxBundles \in Nat

VARIABLES
  bundles,    \* the published bundles, oldest first: their summaries, and whether SENT
  job,        \* the new archive's contents, the renames done, the sessions still to mark
  torn        \* a crash or a failed roll back has left a bundle SENT that should not be

bundleVars == <<bundles, job, torn>>

NoJob == [content |-> <<>>, renamed |-> {}, left |-> {}]

BundleInit == bundles = <<>> /\ job = NoJob /\ torn = FALSE

\* The sessions to bundle.
Pending == {s \in dirs : card[Bundled(s)] = Absent}

GenerateSupportBundle ==
  /\ sup = "idle" /\ Pending # {} /\ Len(bundles) < MaxBundles
  /\ sup' = "bundle_write"
  /\ UNCHANGED <<cardVars, active, status, begun, excused, bundleVars>>

\* The archive is built under a temporary name, which is removed when that fails.
BundleWrite ==
  /\ sup = "bundle_write"
  /\ \/ /\ NoFault
        /\ job' = [NoJob EXCEPT !.content = [s \in Pending |-> card[Summary(s)]],
                                !.left = Pending]
        /\ sup' = "bundle_sent"
     \/ Fault /\ job' = NoJob /\ sup' = "idle"
  /\ UNCHANGED <<card, dirs, writing, active, status, begun, excused, bundles, torn>>

Unsent == {i \in 1 .. Len(bundles) : ~bundles[i].sent}

\* The older bundles become SENT one by one, in directory order.
BundleMarkSent ==
  /\ sup = "bundle_sent"
  /\ \/ /\ \E i \in Unsent :
             /\ bundles' = [bundles EXCEPT ![i].sent = TRUE]
             /\ job' = [job EXCEPT !.renamed = @ \union {i}]
        /\ NoFault /\ UNCHANGED sup
     \/ /\ Unsent # {} /\ Fault
        /\ sup' = "bundle_rollback"
        /\ UNCHANGED <<bundles, job>>
     \/ /\ Unsent = {} /\ NoFault
        /\ sup' = "bundle_publish"
        /\ UNCHANGED <<bundles, job>>
  /\ UNCHANGED <<card, dirs, writing, active, status, begun, excused, torn>>

Publish ==
  /\ NoFault
  /\ bundles' = Append(bundles, [content |-> job.content, sent |-> FALSE])
  /\ torn' = FALSE
  /\ sup' = "bundle_mark"

\* Mutant: a bundle that could not be published is taken for published; its renames stay.
BundlePublishUnchecked ==
  /\ sup = "bundle_publish"
  /\ Publish \/ (Fault /\ sup' = "bundle_mark" /\ UNCHANGED <<bundles, torn>>)
  /\ UNCHANGED <<card, dirs, writing, active, status, begun, excused, job>>

BundlePublish ==
  /\ sup = "bundle_publish"
  /\ Publish \/ (Fault /\ sup' = "bundle_rollback" /\ UNCHANGED <<bundles, torn>>)
  /\ UNCHANGED <<card, dirs, writing, active, status, begun, excused, job>>

\* Mutant: the renames are not undone.
BundleRollbackNothing ==
  /\ sup = "bundle_rollback"
  /\ job' = NoJob /\ sup' = "idle" /\ NoFault
  /\ UNCHANGED <<card, dirs, writing, active, status, begun, excused, bundles, torn>>

\* The renames done are undone in reverse order; an error there is ignored.
BundleRollback ==
  /\ sup = "bundle_rollback"
  /\ \/ \E i \in job.renamed :
          /\ job' = [job EXCEPT !.renamed = @ \ {i}]
          /\ \/ NoFault /\ bundles' = [bundles EXCEPT ![i].sent = FALSE] /\ UNCHANGED torn
             \/ Fault /\ torn' = TRUE /\ UNCHANGED bundles
          /\ UNCHANGED sup
     \/ /\ job.renamed = {} /\ NoFault
        /\ job' = NoJob /\ sup' = "idle"
        /\ UNCHANGED <<bundles, torn>>
  /\ UNCHANGED <<card, dirs, writing, active, status, begun, excused>>

\* There is no old bundled.marker to remove, so each WriteTextAtomic is one step on the card.
BundleMark ==
  /\ sup = "bundle_mark"
  /\ \/ \E s \in job.left :
          /\ job' = [job EXCEPT !.left = @ \ {s}]
          /\ \/ NoFault /\ card' = [card EXCEPT ![Bundled(s)] = "present"]
             \/ Fault /\ UNCHANGED card
          /\ UNCHANGED sup
     \/ /\ job.left = {} /\ NoFault
        /\ job' = NoJob /\ sup' = "idle"
        /\ UNCHANGED card
  /\ UNCHANGED <<dirs, writing, active, status, begun, excused, bundles, torn>>

BundleStep ==
  BundleWrite \/ BundleMarkSent \/ BundlePublish \/ BundleRollback \/ BundleMark

BundleCrash ==
  /\ torn' = (torn \/ (sup # "bundle_mark" /\ job.renamed # {}))
  /\ job' = NoJob
  /\ UNCHANGED bundles

-----------------------------------------------------------------------------
\* A session marked as bundled, and so never bundled again, is in a published bundle with the
\* summary it has on the card: nothing is lost or rewritten after it was delivered, whatever
\* crashes and failures came between (SupportDiagnostics.cpp:1441 marks last).
BundledIsDelivered ==
  \A s \in dirs \ excused : card[Bundled(s)] # Absent =>
    \E i \in 1 .. Len(bundles) :
      s \in DOMAIN bundles[i].content /\ bundles[i].content[s] = card[Summary(s)]

\* When no bundle is being generated exactly the newest bundle is UNSENT: "a failed generation
\* never makes an older UNSENT bundle look as though it was already sent"
\* (SupportDiagnostics.cpp:1235), until a crash or a failed roll back tears the renames.
NewestBundleIsUnsent ==
  sup = "idle" /\ ~torn => \A i \in 1 .. Len(bundles) : bundles[i].sent <=> i < Len(bundles)
=============================================================================
