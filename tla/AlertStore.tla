------------------------------- MODULE AlertStore -------------------------------
(***************************************************************************)
(* The alert documents of one warning type (Util/UnifiedAlertWriter.cpp,   *)
(* with the loops of SaberSliceExport.cpp and LLMTriage.cpp that call it). *)
(* A run of a checker writes one JSON file per alert, named by the digest  *)
(* of the alert, and then removes the files it did not write.  Between     *)
(* runs other tools annotate the documents (graph ids, classifications,    *)
(* active learning); a run that reports the alert again keeps them.        *)
(*                                                                         *)
(* An alert stands for its digest, a document for the number of its        *)
(* annotations.  Every file operation may fail, and the process may stop   *)
(* between any two of them.                                                *)
(***************************************************************************)
EXTENDS Naturals, Sequences, FiniteSets, SequencesExt

CONSTANTS
    Alerts,
    Reports,    \* the sequences of alerts a run may have to write
    MaxRuns,    \* bound on the runs
    MaxNotes,   \* bound on the annotations of a document
    MaxFaults   \* bound on the kinds of failures within a run

ASSUME ReportsAssumption == Reports \subseteq Seq(Alerts)
ASSUME BoundsAssumption == {MaxRuns, MaxNotes, MaxFaults} \subseteq Nat

VARIABLES
    files,      \* the documents of the directory
    temps,      \* their .tmp files
    pc,         \* where the run is, "idle" between runs
    left,       \* alerts not written yet
    notes,      \* annotations read from the old document
    wrote,      \* currentFiles
    visit,      \* files removeStale has not visited yet
    ok,         \* what the run is going to return
    runs,
    reported,   \* (history) the alerts of the run
    before,     \* (history) the documents when the run started
    faults      \* (history) the kinds of failures in the run

vars == <<files, temps, pc, left, notes, wrote, visit, ok, runs, reported, before, faults>>

run == <<left, notes, wrote, visit, ok>>
history == <<runs, reported, before>>

FaultKinds == {"load", "open", "write", "rename", "remove", "mkdir", "list"}

File == [kind : {"absent", "torn", "doc"}, notes : 0 .. MaxNotes]
Absent == [kind |-> "absent", notes |-> 0]
Torn == [kind |-> "torn", notes |-> 0]
Doc(n) == [kind |-> "doc", notes |-> n]

TypeOK ==
    /\ files \in [Alerts -> File]
    /\ temps \in [Alerts -> File]
    /\ pc \in {"idle", "load", "open", "fill", "install", "unlink", "again", "remove", "done"}
    /\ left \in Seq(Alerts)
    /\ notes \in 0 .. MaxNotes
    /\ wrote \subseteq Alerts
    /\ visit \subseteq Alerts
    /\ ok \in BOOLEAN
    /\ runs \in 0 .. MaxRuns
    /\ reported \subseteq Alerts
    /\ before \in [Alerts -> File]
    /\ faults \subseteq FaultKinds

Init ==
    /\ files = [a \in Alerts |-> Absent]
    /\ temps = [a \in Alerts |-> Absent]
    /\ pc = "idle"
    /\ left = <<>>
    /\ notes = 0
    /\ wrote = {} /\ visit = {}
    /\ ok = TRUE
    /\ runs = 0
    /\ reported = {}
    /\ before = files
    /\ faults = {}

-----------------------------------------------------------------------------
Fault(k) ==
    /\ Cardinality(faults \union {k}) <= MaxFaults
    /\ faults' = faults \union {k}

\* writeAlerts, BofAlertReporter::write: a new UnifiedAlertWriter.
Start ==
    /\ pc = "idle" /\ runs < MaxRuns
    /\ left' \in Reports
    /\ reported' = Range(left')
    /\ wrote' = {}
    /\ ok' = TRUE
    /\ runs' = runs + 1
    /\ before' = files
    /\ faults' = {}
    /\ pc' = "load"
    /\ UNCHANGED <<files, temps, notes, visit>>

Current == Head(left)

\* Mutant of GiveUp: the alert is tried again.
GiveUpAgain ==
    /\ pc' = "load"
    /\ ok' = FALSE
    /\ UNCHANGED <<left, wrote, visit, history>>

\* write returns false.
GiveUp ==
    /\ pc' = "load"
    /\ left' = Tail(left)
    /\ ok' = FALSE
    /\ UNCHANGED <<wrote, visit, history>>

\* Mutant of Load: nothing is taken over from the old document.
LoadForgetting ==
    /\ pc = "load" /\ left # <<>>
    /\ files[Current].kind # "torn"
    /\ notes' = 0
    /\ pc' = "open"
    /\ UNCHANGED <<files, temps, left, wrote, visit, ok, history, faults>>

\* The new document takes the annotations of the old one, if there is one.
Load ==
    /\ pc = "load" /\ left # <<>>
    /\ files[Current].kind # "torn"
    /\ notes' = files[Current].notes
    /\ pc' = "open"
    /\ UNCHANGED <<files, temps, left, wrote, visit, ok, history, faults>>

\* Mutant of Unreadable: an alert without a document counts as unreadable.
UnreadableNew == files[Current].kind # "doc"

Unreadable == files[Current].kind = "torn"

\* The directory, the content or the old document cannot be used.
LoadFails ==
    /\ pc = "load" /\ left # <<>>
    /\ \/ Unreadable /\ UNCHANGED faults
       \/ Fault("load")
    /\ GiveUp
    /\ UNCHANGED <<files, temps, notes>>

\* Mutant of Open: the document itself is opened for writing.
OpenInPlace ==
    /\ pc = "open"
    /\ files' = [files EXCEPT ![Current] = Torn]
    /\ pc' = "fill"
    /\ UNCHANGED <<temps, run, history, faults>>

Open ==
    /\ pc = "open"
    /\ temps' = [temps EXCEPT ![Current] = Torn]
    /\ pc' = "fill"
    /\ UNCHANGED <<files, run, history, faults>>

OpenFails ==
    /\ pc = "open"
    /\ Fault("open")
    /\ GiveUp
    /\ UNCHANGED <<files, temps, notes>>

Fill ==
    /\ pc = "fill"
    /\ temps' = [temps EXCEPT ![Current] = Doc(notes)]
    /\ pc' = "install"
    /\ UNCHANGED <<files, run, history, faults>>

\* The stream fails on the way; nobody looks.
FillCut ==
    /\ pc = "fill"
    /\ Fault("write")
    /\ pc' = "install"
    /\ UNCHANGED <<files, temps, run, history>>

\* write returns true.
Rename ==
    /\ files' = [files EXCEPT ![Current] = temps[Current]]
    /\ temps' = [temps EXCEPT ![Current] = Absent]
    /\ wrote' = wrote \union {Current}
    /\ left' = Tail(left)
    /\ pc' = "load"
    /\ UNCHANGED <<notes, visit, ok, history, faults>>

\* Mutant of Install: the old document is removed first.
InstallRemoving ==
    /\ pc = "install"
    /\ pc' = "unlink"
    /\ UNCHANGED <<files, temps, run, history, faults>>

Install == pc = "install" /\ Rename

InstallFails ==
    /\ pc = "install"
    /\ Fault("rename")
    /\ pc' = "unlink"
    /\ UNCHANGED <<files, temps, run, history>>

Unlink ==
    /\ pc = "unlink"
    /\ \/ files' = [files EXCEPT ![Current] = Absent] /\ UNCHANGED faults
       \/ Fault("remove") /\ UNCHANGED files
    /\ pc' = "again"
    /\ UNCHANGED <<temps, run, history>>

InstallAgain == pc = "again" /\ Rename

InstallAgainFails ==
    /\ pc = "again"
    /\ Fault("rename")
    /\ GiveUp
    /\ UNCHANGED <<files, temps, notes>>

-----------------------------------------------------------------------------
(* removeStale *)

RemoveStale ==
    /\ pc = "load" /\ left = <<>>
    /\ visit' = {a \in Alerts : files[a].kind # "absent"}
    /\ pc' = "remove"
    /\ UNCHANGED <<files, temps, left, notes, wrote, ok, history, faults>>

RemoveStaleFails ==
    /\ pc = "load" /\ left = <<>>
    /\ Fault("mkdir")
    /\ ok' = FALSE
    /\ pc' = "done"
    /\ UNCHANGED <<files, temps, left, notes, wrote, visit, history>>

\* The loop over a directory that cannot be listed has no iteration.
ListFails ==
    /\ pc = "load" /\ left = <<>>
    /\ Fault("list")
    /\ pc' = "done"
    /\ UNCHANGED <<files, temps, run, history>>

\* Mutant of Visit: annotated documents are kept.
VisitSparing ==
    /\ pc = "remove"
    /\ \E a \in visit :
        /\ files' = IF a \in wrote \/ files[a].notes > 0
                      THEN files ELSE [files EXCEPT ![a] = Absent]
        /\ visit' = visit \ {a}
    /\ UNCHANGED <<temps, pc, left, notes, wrote, ok, history, faults>>

Visit ==
    /\ pc = "remove"
    /\ \E a \in visit :
        /\ files' = IF a \in wrote THEN files ELSE [files EXCEPT ![a] = Absent]
        /\ visit' = visit \ {a}
    /\ UNCHANGED <<temps, pc, left, notes, wrote, ok, history, faults>>

VisitFails ==
    /\ pc = "remove"
    /\ visit \ wrote # {}
    /\ Fault("remove")
    /\ ok' = FALSE
    /\ pc' = "done"
    /\ UNCHANGED <<files, temps, left, notes, wrote, visit, history>>

EndRemoval ==
    /\ pc = "remove" /\ visit = {}
    /\ pc' = "done"
    /\ UNCHANGED <<files, temps, run, history, faults>>

Return ==
    /\ pc = "done"
    /\ pc' = "idle"
    /\ UNCHANGED <<files, temps, run, history, faults>>

-----------------------------------------------------------------------------
\* The process is killed.
Crash ==
    /\ pc # "idle"
    /\ pc' = "idle"
    /\ UNCHANGED <<files, temps, run, history, faults>>

\* A later stage of the pipeline adds to a document.
Annotate ==
    /\ pc = "idle"
    /\ \E a \in Alerts :
        /\ files[a].kind = "doc" /\ files[a].notes < MaxNotes
        /\ files' = [files EXCEPT ![a].notes = @ + 1]
    /\ UNCHANGED <<temps, pc, run, history, faults>>

RunStep ==
    \/ Load \/ LoadFails \/ Open \/ OpenFails \/ Fill \/ FillCut
    \/ Install \/ InstallFails \/ Unlink \/ InstallAgain \/ InstallAgainFails
    \/ RemoveStale \/ RemoveStaleFails \/ ListFails \/ Visit \/ VisitFails \/ EndRemoval
    \/ Return

Next == Start \/ RunStep \/ Crash \/ Annotate

Spec == Init /\ [][Next]_vars

\* A run that is not killed goes on.
FairSpec == Spec /\ WF_vars(RunStep)

-----------------------------------------------------------------------------
(* Properties *)

\* What a run has to write for alert a.
Kept(a) == Doc(before[a].notes)

(***************************************************************************)
(* A run that returns true has left a document with all earlier            *)
(* annotations for each of its alerts, whatever failed on the way and      *)
(* whatever earlier runs left behind; only a write cut short goes          *)
(* unnoticed.  (write, and the conjunction of its results by the callers)  *)
(***************************************************************************)
Persisted == pc = "done" /\ ok /\ "write" \notin faults => \A a \in reported : files[a] = Kept(a)

(***************************************************************************)
(* It has left no other document, unless the directory could not be        *)
(* listed, which goes unnoticed too.  (removeStale)                        *)
(***************************************************************************)
StaleRemoved ==
    pc = "done" /\ ok /\ "list" \notin faults => \A a \in Alerts \ reported : files[a] = Absent

(***************************************************************************)
(* Crashes leave nothing that a later run trips over: without a failure,   *)
(* and without a document torn before it, a run returns true.              *)
(***************************************************************************)
CleanRunSucceeds ==
    pc = "done" /\ faults = {} /\ (\A a \in reported : before[a].kind # "torn") => ok

(***************************************************************************)
(* At no point of a run without failures, so at no point it may be killed  *)
(* at, is the document of one of its alerts missing or poorer than it was. *)
(* (the write to a temporary file and the rename over the document)        *)
(***************************************************************************)
CrashSafe ==
    pc # "idle" /\ faults = {} =>
        \A a \in reported : before[a].kind = "doc" => files[a] = before[a]

\* Only a write cut short leaves a torn document, whenever the run is killed.
OnlyCutsTear ==
    [][\A a \in Alerts :
        files[a].kind # "torn" /\ files'[a].kind = "torn" => "write" \in faults]_vars

\* A run ends, unless it is killed: no failure is retried for ever.
RunEnds == (pc # "idle") ~> (pc = "idle")

(***************************************************************************)
(* "Persist one warning content object" (comment on write): where every    *)
(* write returned true, the document can be read.                          *)
(***************************************************************************)
WriteTrueReadable == pc = "done" /\ ok => \A a \in reported : files[a].kind = "doc"
=============================================================================
