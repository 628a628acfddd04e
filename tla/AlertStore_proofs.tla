---------------------------- MODULE AlertStore_proofs ----------------------------
(***************************************************************************)
(* Proofs about the alert documents, for any alerts, reports and bounds.   *)
(***************************************************************************)
EXTENDS AlertStore, TLAPS

Installing == pc \in {"install", "unlink", "again"}
Writing == pc \in {"load", "open", "fill", "install", "unlink", "again"}

\* Only documents have annotations.
Plain(f) == f.kind # "doc" => f.notes = 0
FilesPlain == \A a \in Alerts : Plain(files[a]) /\ Plain(temps[a]) /\ Plain(before[a])

\* Where the run is, and what it has in hand.
InHand ==
    /\ pc \in {"open", "fill", "install", "unlink", "again"} => left # <<>>
    /\ pc \in {"remove", "done"} => left = <<>>
    /\ pc \in {"unlink", "again"} => faults # {}
    /\ Installing /\ "write" \notin faults => temps[Current] = Doc(notes)

\* Every alert of the run is written or waits, unless the run knows better.
Accounted ==
    pc # "idle" =>
        /\ wrote \union Range(left) \subseteq reported
        /\ \A a \in reported \ (wrote \union Range(left)) :
              ~ ok /\ (faults = {} => before[a].kind = "torn")
        /\ ~ ok /\ faults = {} => \E a \in reported : before[a].kind = "torn"

\* The run has lost nothing so far, as far as it can tell.
Faithful == "write" \notin faults /\ (ok \/ faults = {})

BetweenRenames(a) == pc = "again" /\ a = Current

DocumentsKept ==
    Faithful =>
        /\ pc # "idle" =>
              \A a \in wrote : files[a] = Kept(a) \/ BetweenRenames(a)
        /\ Writing =>
              \A a \in Alerts \ wrote : files[a] = before[a] \/ BetweenRenames(a)
        /\ pc \in {"open", "fill", "install", "unlink", "again"} =>
              notes = before[Current].notes

Removing ==
    /\ pc = "remove" => \A a \in Alerts \ wrote : a \in visit \/ files[a] = Absent
    /\ pc = "done" /\ ok /\ "list" \notin faults => \A a \in Alerts \ wrote : files[a] = Absent

Inv ==
    /\ TypeOK
    /\ FilesPlain
    /\ InHand
    /\ Accounted
    /\ DocumentsKept
    /\ Removing

-----------------------------------------------------------------------------
\* The alerts waiting are the first of them and those behind it.
LEMMA RangeHeadTail ==
  ASSUME NEW s \in Seq(Alerts), s # <<>>
  PROVE  /\ Head(s) \in Alerts /\ Tail(s) \in Seq(Alerts)
         /\ Range(s) = {Head(s)} \union Range(Tail(s))
<1>1. Head(s) \in Alerts /\ Tail(s) \in Seq(Alerts) /\ Head(s) = s[1] /\ Len(s) \in Nat \ {0}
  OBVIOUS
<1>2. \A i \in 1 .. Len(s) : i = 1 \/ (i - 1 \in 1 .. Len(Tail(s)) /\ s[i] = Tail(s)[i - 1])
  OBVIOUS
<1>3. \A i \in 1 .. Len(Tail(s)) : i + 1 \in 1 .. Len(s) /\ Tail(s)[i] = s[i + 1]
  OBVIOUS
<1>4. /\ DOMAIN s = 1 .. Len(s) /\ DOMAIN Tail(s) = 1 .. Len(Tail(s))
      /\ 1 \in DOMAIN s
  BY <1>1
<1>5. ASSUME NEW x \in Range(s)
      PROVE  x \in {Head(s)} \union Range(Tail(s))
  <2>1. PICK i \in 1 .. Len(s) : x = s[i]
    BY <1>4 DEF Range
  <2>2. CASE i = 1
    BY <2>1, <2>2, <1>1
  <2>3. CASE i - 1 \in DOMAIN Tail(s) /\ s[i] = Tail(s)[i - 1]
    BY <2>1, <2>3 DEF Range
  <2> QED
    BY <2>2, <2>3, <1>2, <1>4
<1>6. Range(Tail(s)) \subseteq Range(s) /\ Head(s) \in Range(s)
  BY <1>1, <1>3, <1>4 DEF Range
<1> QED
  BY <1>1, <1>5, <1>6

LEMMA RangeType ==
  ASSUME NEW s \in Seq(Alerts)
  PROVE  Range(s) \subseteq Alerts /\ (s = <<>> => Range(s) = {})
  BY DEF Range

LEMMA FileType ==
  /\ Absent \in File /\ Torn \in File
  /\ \A n \in 0 .. MaxNotes : Doc(n) \in File
  BY BoundsAssumption DEF Absent, Torn, Doc, File

LEMMA InitInv == Init => Inv
<1> SUFFICES ASSUME Init
             PROVE  Inv
  OBVIOUS
<1>1. TypeOK
  BY FileType, BoundsAssumption DEF Init, TypeOK, FaultKinds
<1>2. FilesPlain
  BY DEF Init, FilesPlain, Plain, Absent
<1>3. InHand /\ Accounted /\ DocumentsKept /\ Removing
  BY DEF Init, InHand, Accounted, DocumentsKept, Removing, Installing, Writing
<1> QED
  BY <1>1, <1>2, <1>3 DEF Inv

LEMMA StartInv == Inv /\ Start => Inv'
<1> SUFFICES ASSUME Inv, Start
             PROVE  Inv'
  OBVIOUS
<1>1. /\ left' \in Seq(Alerts) /\ reported' = Range(left') /\ wrote' = {} /\ ok' = TRUE
      /\ before' = files /\ faults' = {} /\ pc' = "load" /\ runs' = runs + 1 /\ runs < MaxRuns
      /\ UNCHANGED <<files, temps, notes, visit>>
  BY ReportsAssumption DEF Start
<1>2. TypeOK'
  BY <1>1, RangeType, BoundsAssumption DEF Inv, TypeOK
<1>3. FilesPlain'
  BY <1>1 DEF Inv, FilesPlain
<1>4. InHand' /\ Accounted' /\ DocumentsKept' /\ Removing'
  BY <1>1 DEF InHand, Accounted, DocumentsKept, Removing, Installing, Writing, Faithful
<1> QED
  BY <1>2, <1>3, <1>4 DEF Inv

-----------------------------------------------------------------------------
(* write *)

LEMMA LoadInv == Inv /\ Load => Inv'
<1> SUFFICES ASSUME Inv, Load
             PROVE  Inv'
  OBVIOUS
<1>1. /\ pc = "load" /\ left # <<>> /\ notes' = files[Current].notes /\ pc' = "open"
      /\ UNCHANGED <<files, temps, left, wrote, visit, ok, runs, reported, before, faults>>
      /\ Current' = Current
  BY DEF Load, history, Current
<1>2. Current \in Alerts /\ files[Current] \in File
  BY <1>1, RangeHeadTail DEF Inv, TypeOK, Current
<1>3. TypeOK'
  BY <1>1, <1>2 DEF Inv, TypeOK, File
<1>4. FilesPlain' /\ InHand' /\ Accounted' /\ Removing'
  BY <1>1 DEF Inv, FilesPlain, InHand, Accounted, Removing, Installing
<1>5. ASSUME Faithful
      PROVE  files[Current].notes = before[Current].notes
  <2>1. CASE Current \in wrote
    <3>1. files[Current] = Kept(Current)
      BY <1>1, <1>5, <2>1 DEF Inv, DocumentsKept, BetweenRenames
    <3> QED
      BY <3>1 DEF Kept, Doc
  <2>2. CASE Current \notin wrote
    BY <1>1, <1>2, <1>5, <2>2 DEF Inv, DocumentsKept, BetweenRenames, Writing
  <2> QED
    BY <2>1, <2>2
<1>6. DocumentsKept'
  BY <1>1, <1>5 DEF Inv, DocumentsKept, BetweenRenames, Faithful, Writing, Kept
<1> QED
  BY <1>3, <1>4, <1>6 DEF Inv

\* Giving up on the current alert, with a failure or with a torn old document.
LEMMA GiveUpInv ==
  ASSUME Inv, GiveUp, left # <<>>, Writing,
         UNCHANGED <<files, temps, notes>>,
         faults \subseteq faults', faults' \subseteq FaultKinds,
         faults' # {} \/ (pc = "load" /\ files[Current].kind = "torn")
  PROVE  Inv'
<1>1. /\ pc' = "load" /\ left' = Tail(left) /\ ok' = FALSE
      /\ UNCHANGED <<wrote, visit, runs, reported, before>>
  BY DEF GiveUp, history
<1>2. /\ Current \in Alerts /\ left' \in Seq(Alerts)
      /\ Range(left) = {Current} \union Range(left')
  BY <1>1, RangeHeadTail DEF Inv, TypeOK, Current
<1>3. TypeOK'
  BY <1>1, <1>2 DEF Inv, TypeOK
<1>4. FilesPlain' /\ InHand' /\ Removing'
  BY <1>1 DEF Inv, FilesPlain, InHand, Removing, Installing
<1>5. ASSUME faults' = {}
      PROVE  before[Current].kind = "torn" \/ Current \in wrote
  <2>1. Faithful /\ pc = "load" /\ files[Current].kind = "torn"
    BY <1>5 DEF Faithful
  <2> QED
    BY <2>1, <1>2 DEF Inv, DocumentsKept, BetweenRenames, Writing
<1>6. ASSUME faults' = {}
      PROVE  \E a \in reported : before[a].kind = "torn"
  <2>1. Faithful /\ pc = "load" /\ files[Current].kind = "torn" /\ Current \in reported
    BY <1>2, <1>6 DEF Faithful, Inv, Accounted
  <2>2. CASE Current \in wrote
    <3>1. files[Current] = Kept(Current)
      BY <2>1, <2>2 DEF Inv, DocumentsKept, BetweenRenames
    <3> QED
      BY <2>1, <3>1 DEF Kept, Doc
  <2> QED
    BY <2>1, <2>2, <1>5, <1>6
<1>7. Accounted'
  BY <1>1, <1>2, <1>5, <1>6 DEF Inv, Accounted, Writing
<1>8. DocumentsKept'
  <2>1. Faithful' => faults' = {}
    BY <1>1 DEF Faithful
  <2>2. Faithful' => Faithful /\ pc = "load"
    BY <2>1 DEF Faithful
  <2> QED
    BY <1>1, <2>2 DEF Inv, DocumentsKept, BetweenRenames, Writing, Kept
<1> QED
  BY <1>3, <1>4, <1>7, <1>8 DEF Inv

LEMMA FaultGrows ==
  ASSUME NEW k \in FaultKinds, TypeOK, Fault(k)
  PROVE  faults \subseteq faults' /\ faults' \subseteq FaultKinds /\ faults' # {} /\ k \in faults'
  BY DEF Fault, TypeOK

LEMMA LoadFailsInv == Inv /\ LoadFails => Inv'
<1> SUFFICES ASSUME Inv, LoadFails
             PROVE  Inv'
  OBVIOUS
<1>1. TypeOK /\ pc = "load" /\ left # <<>> /\ GiveUp /\ UNCHANGED <<files, temps, notes>>
  BY DEF Inv, LoadFails
<1>2. CASE Unreadable /\ UNCHANGED faults
  BY <1>1, <1>2, GiveUpInv DEF Unreadable, Writing, TypeOK
<1>3. CASE Fault("load")
  BY <1>1, <1>3, GiveUpInv, FaultGrows DEF Writing, FaultKinds
<1> QED
  BY <1>2, <1>3 DEF LoadFails

LEMMA OpenFailsInv == Inv /\ OpenFails => Inv'
<1> SUFFICES ASSUME Inv, OpenFails
             PROVE  Inv'
  OBVIOUS
<1>1. /\ TypeOK /\ pc = "open" /\ left # <<>> /\ GiveUp /\ UNCHANGED <<files, temps, notes>>
      /\ Fault("open")
  BY DEF Inv, InHand, OpenFails
<1> QED
  BY <1>1, GiveUpInv, FaultGrows DEF Writing, FaultKinds

LEMMA InstallAgainFailsInv == Inv /\ InstallAgainFails => Inv'
<1> SUFFICES ASSUME Inv, InstallAgainFails
             PROVE  Inv'
  OBVIOUS
<1>1. /\ TypeOK /\ pc = "again" /\ left # <<>> /\ GiveUp /\ UNCHANGED <<files, temps, notes>>
      /\ Fault("rename")
  BY DEF Inv, InHand, InstallAgainFails
<1> QED
  BY <1>1, GiveUpInv, FaultGrows DEF Writing, FaultKinds

LEMMA OpenInv == Inv /\ Open => Inv'
<1> SUFFICES ASSUME Inv, Open
             PROVE  Inv'
  OBVIOUS
<1>1. /\ pc = "open" /\ pc' = "fill" /\ temps' = [temps EXCEPT ![Current] = Torn]
      /\ UNCHANGED <<files, left, notes, wrote, visit, ok, runs, reported, before, faults>>
      /\ Current' = Current
  BY DEF Open, run, history, Current
<1>2. left # <<>> /\ Current \in Alerts
  BY <1>1, RangeHeadTail DEF Inv, InHand, TypeOK, Current
<1>3. TypeOK'
  BY <1>1, <1>2, FileType DEF Inv, TypeOK
<1>4. FilesPlain'
  BY <1>1, <1>2 DEF Inv, TypeOK, FilesPlain, Plain, Torn
<1>5. InHand' /\ Accounted' /\ Removing'
  BY <1>1, <1>2 DEF Inv, InHand, Accounted, Removing, Installing
<1>6. DocumentsKept'
  BY <1>1 DEF Inv, DocumentsKept, BetweenRenames, Faithful, Writing, Kept
<1> QED
  BY <1>3, <1>4, <1>5, <1>6 DEF Inv

LEMMA FillInv == Inv /\ Fill => Inv'
<1> SUFFICES ASSUME Inv, Fill
             PROVE  Inv'
  OBVIOUS
<1>1. /\ pc = "fill" /\ pc' = "install" /\ temps' = [temps EXCEPT ![Current] = Doc(notes)]
      /\ UNCHANGED <<files, left, notes, wrote, visit, ok, runs, reported, before, faults>>
      /\ Current' = Current
  BY DEF Fill, run, history, Current
<1>2. left # <<>> /\ Current \in Alerts
  BY <1>1, RangeHeadTail DEF Inv, InHand, TypeOK, Current
<1>3. TypeOK'
  BY <1>1, <1>2, FileType DEF Inv, TypeOK
<1>4. FilesPlain'
  BY <1>1, <1>2 DEF Inv, TypeOK, FilesPlain, Plain, Doc
<1>5. temps'[Current] = Doc(notes)
  BY <1>1, <1>2 DEF Inv, TypeOK
<1>6. InHand' /\ Accounted' /\ Removing'
  BY <1>1, <1>2, <1>5 DEF Inv, InHand, Accounted, Removing, Installing, Doc
<1>7. DocumentsKept'
  BY <1>1 DEF Inv, DocumentsKept, BetweenRenames, Faithful, Writing, Kept
<1> QED
  BY <1>3, <1>4, <1>6, <1>7 DEF Inv

LEMMA FillCutInv == Inv /\ FillCut => Inv'
<1> SUFFICES ASSUME Inv, FillCut
             PROVE  Inv'
  OBVIOUS
<1>1. /\ pc = "fill" /\ pc' = "install"
      /\ UNCHANGED <<files, temps, left, notes, wrote, visit, ok, runs, reported, before>>
      /\ Current' = Current
  BY DEF FillCut, run, history, Current
<1>2. left # <<>> /\ faults' \subseteq FaultKinds /\ "write" \in faults'
  BY <1>1, FaultGrows DEF Inv, InHand, FillCut, FaultKinds
<1>3. TypeOK' /\ FilesPlain'
  BY <1>1, <1>2 DEF Inv, TypeOK, FilesPlain
<1>4. InHand' /\ Accounted' /\ DocumentsKept' /\ Removing'
  BY <1>1, <1>2 DEF Inv, InHand, Accounted, DocumentsKept, Faithful, Removing, Installing
<1> QED
  BY <1>3, <1>4 DEF Inv

\* The rename that ends a successful write.
LEMMA RenameInv ==
  ASSUME Inv, Rename, pc \in {"install", "again"}
  PROVE  Inv'
<1>1. PICK c : c = Current
  OBVIOUS
<1>2. /\ pc' = "load" /\ left' = Tail(left) /\ wrote' = wrote \union {c}
      /\ files' = [files EXCEPT ![c] = temps[c]]
      /\ temps' = [temps EXCEPT ![c] = Absent]
      /\ UNCHANGED <<notes, visit, ok, runs, reported, before, faults>>
  BY <1>1 DEF Rename, history
<1>3. /\ left # <<>> /\ c \in Alerts /\ left' \in Seq(Alerts)
      /\ Range(left) = {c} \union Range(left')
  BY <1>1, <1>2, RangeHeadTail DEF Inv, InHand, TypeOK, Current
<1>4. TypeOK'
  BY <1>2, <1>3, FileType DEF Inv, TypeOK
<1>5. FilesPlain'
  BY <1>2, <1>3 DEF Inv, TypeOK, FilesPlain, Plain, Absent
<1>6. InHand' /\ Removing'
  BY <1>2 DEF InHand, Removing, Installing
<1>7. Accounted'
  BY <1>2, <1>3 DEF Inv, Accounted
<1>8. DocumentsKept'
  <2>1. \A a \in Alerts : a # c => files'[a] = files[a]
    BY <1>2 DEF Inv, TypeOK
  <2>2. Faithful => temps[c] = Kept(c)
    BY <1>1 DEF Inv, InHand, Installing, DocumentsKept, Faithful, Kept
  <2>3. files'[c] = temps[c]
    BY <1>2, <1>3 DEF Inv, TypeOK
  <2>4. wrote \subseteq Alerts
    BY DEF Inv, TypeOK
  <2>5. Faithful' => Faithful
    BY <1>2 DEF Faithful
  <2>6. Faithful' => \A a \in wrote' : files'[a] = Kept(a)
    BY <1>1, <1>2, <2>1, <2>2, <2>3, <2>4, <2>5 DEF Inv, DocumentsKept, BetweenRenames
  <2>7. Faithful' => \A a \in Alerts \ wrote' : files'[a] = before[a]
    BY <1>1, <1>2, <2>1, <2>5 DEF Inv, DocumentsKept, BetweenRenames, Writing
  <2> QED
    BY <1>2, <2>6, <2>7 DEF DocumentsKept, Kept
<1> QED
  BY <1>4, <1>5, <1>6, <1>7, <1>8 DEF Inv

LEMMA InstallInv == Inv /\ (Install \/ InstallAgain) => Inv'
  BY RenameInv DEF Install, InstallAgain

LEMMA InstallFailsInv == Inv /\ InstallFails => Inv'
<1> SUFFICES ASSUME Inv, InstallFails
             PROVE  Inv'
  OBVIOUS
<1>1. /\ pc = "install" /\ pc' = "unlink"
      /\ UNCHANGED <<files, temps, left, notes, wrote, visit, ok, runs, reported, before>>
      /\ Current' = Current
  BY DEF InstallFails, run, history, Current
<1>2. faults \subseteq faults' /\ faults' \subseteq FaultKinds /\ faults' # {}
  BY FaultGrows DEF Inv, InstallFails, FaultKinds
<1>3. TypeOK' /\ FilesPlain'
  BY <1>1, <1>2 DEF Inv, TypeOK, FilesPlain
<1>4. InHand' /\ Accounted' /\ Removing'
  BY <1>1, <1>2 DEF Inv, InHand, Accounted, Removing, Installing, Doc
<1>5. Faithful' => Faithful
  BY <1>1, <1>2 DEF Faithful
<1>6. DocumentsKept'
  BY <1>1, <1>5 DEF Inv, DocumentsKept, BetweenRenames, Writing, Kept
<1> QED
  BY <1>3, <1>4, <1>6 DEF Inv

LEMMA UnlinkInv == Inv /\ Unlink => Inv'
<1> SUFFICES ASSUME Inv, Unlink
             PROVE  Inv'
  OBVIOUS
<1>1. /\ pc = "unlink" /\ pc' = "again"
      /\ UNCHANGED <<temps, left, notes, wrote, visit, ok, runs, reported, before>>
      /\ Current' = Current
  BY DEF Unlink, run, history, Current
<1>2. left # <<>> /\ Current \in Alerts /\ faults # {}
  BY <1>1, RangeHeadTail DEF Inv, InHand, TypeOK, Current
<1>3. faults \subseteq faults' /\ faults' \subseteq FaultKinds /\ faults' # {}
  BY <1>2, FaultGrows DEF Inv, Unlink, FaultKinds, TypeOK
<1>4. files' = [files EXCEPT ![Current] = Absent] \/ files' = files
  BY DEF Unlink
<1>5. files' \in [Alerts -> File] /\ \A a \in Alerts : a # Current => files'[a] = files[a]
  BY <1>2, <1>4, FileType DEF Inv, TypeOK
<1>6. \A a \in Alerts : Plain(files[a]) => Plain(files'[a])
  BY <1>2, <1>4 DEF Inv, TypeOK, Plain, Absent
<1>7. TypeOK' /\ FilesPlain'
  BY <1>1, <1>3, <1>5, <1>6 DEF Inv, TypeOK, FilesPlain
<1>8. InHand' /\ Accounted' /\ Removing'
  BY <1>1, <1>2, <1>3 DEF Inv, InHand, Accounted, Removing, Installing, Doc
<1>9. Faithful' => Faithful
  BY <1>1, <1>3 DEF Faithful
<1>10. DocumentsKept'
  BY <1>1, <1>5, <1>9 DEF Inv, TypeOK, DocumentsKept, BetweenRenames, Writing, Kept
<1> QED
  BY <1>7, <1>8, <1>10 DEF Inv

-----------------------------------------------------------------------------
(* removeStale *)

LEMMA RemoveStaleInv == Inv /\ RemoveStale => Inv'
<1> SUFFICES ASSUME Inv, RemoveStale
             PROVE  Inv'
  OBVIOUS
<1>1. /\ pc = "load" /\ left = <<>> /\ pc' = "remove"
      /\ visit' = {a \in Alerts : files[a].kind # "absent"}
      /\ UNCHANGED <<files, temps, left, notes, wrote, ok, runs, reported, before, faults>>
  BY DEF RemoveStale, history
<1>2. TypeOK' /\ FilesPlain'
  BY <1>1 DEF Inv, TypeOK, FilesPlain
<1>3. InHand' /\ Accounted' /\ DocumentsKept'
  BY <1>1 DEF Inv, InHand, Accounted, DocumentsKept, BetweenRenames, Faithful, Installing, Writing, Kept
<1>4. \A a \in Alerts : files[a].kind = "absent" => files[a] = Absent
  BY DEF Inv, TypeOK, File, FilesPlain, Plain, Absent
<1>5. Removing'
  BY <1>1, <1>4 DEF Removing
<1> QED
  BY <1>2, <1>3, <1>5 DEF Inv

LEMMA RemoveStaleFailsInv == Inv /\ RemoveStaleFails => Inv'
<1> SUFFICES ASSUME Inv, RemoveStaleFails
             PROVE  Inv'
  OBVIOUS
<1>1. /\ pc = "load" /\ left = <<>> /\ pc' = "done" /\ ok' = FALSE
      /\ UNCHANGED <<files, temps, left, notes, wrote, visit, runs, reported, before>>
  BY DEF RemoveStaleFails, history
<1>2. faults' \subseteq FaultKinds /\ faults' # {}
  BY FaultGrows DEF Inv, RemoveStaleFails, FaultKinds
<1>3. TypeOK' /\ FilesPlain'
  BY <1>1, <1>2 DEF Inv, TypeOK, FilesPlain
<1>4. InHand' /\ Accounted' /\ DocumentsKept' /\ Removing'
  BY <1>1, <1>2 DEF Inv, InHand, Accounted, DocumentsKept, Faithful, Removing, Installing
<1> QED
  BY <1>3, <1>4 DEF Inv

LEMMA ListFailsInv == Inv /\ ListFails => Inv'
<1> SUFFICES ASSUME Inv, ListFails
             PROVE  Inv'
  OBVIOUS
<1>1. /\ pc = "load" /\ left = <<>> /\ pc' = "done"
      /\ UNCHANGED <<files, temps, left, notes, wrote, visit, ok, runs, reported, before>>
  BY DEF ListFails, run, history
<1>2. faults \subseteq faults' /\ faults' \subseteq FaultKinds /\ faults' # {} /\ "list" \in faults'
  BY FaultGrows DEF Inv, ListFails, FaultKinds
<1>3. TypeOK' /\ FilesPlain'
  BY <1>1, <1>2 DEF Inv, TypeOK, FilesPlain
<1>4. InHand' /\ Accounted' /\ Removing'
  BY <1>1, <1>2 DEF Inv, InHand, Accounted, Removing, Installing
<1>5. Faithful' => Faithful
  BY <1>1, <1>2 DEF Faithful
<1>6. DocumentsKept'
  BY <1>1, <1>5 DEF Inv, DocumentsKept, BetweenRenames, Writing, Kept
<1> QED
  BY <1>3, <1>4, <1>6 DEF Inv

LEMMA VisitInv == Inv /\ Visit => Inv'
<1> SUFFICES ASSUME Inv, Visit
             PROVE  Inv'
  OBVIOUS
<1>1. PICK a \in visit :
        /\ files' = IF a \in wrote THEN files ELSE [files EXCEPT ![a] = Absent]
        /\ visit' = visit \ {a}
  BY DEF Visit
<1>2. /\ pc = "remove" /\ pc' = "remove"
      /\ UNCHANGED <<temps, left, notes, wrote, ok, runs, reported, before, faults>>
  BY DEF Visit, history
<1>3. /\ a \in Alerts /\ files' \in [Alerts -> File]
      /\ \A b \in Alerts : b # a \/ a \in wrote => files'[b] = files[b]
      /\ a \notin wrote => files'[a] = Absent
  BY <1>1, FileType DEF Inv, TypeOK
<1>4. TypeOK'
  BY <1>1, <1>2, <1>3 DEF Inv, TypeOK
<1>5. \A b \in Alerts : files'[b] = files[b] \/ files'[b] = Absent
  BY <1>3
<1>6. FilesPlain'
  BY <1>2, <1>5 DEF Inv, FilesPlain, Plain, Absent
<1>7. InHand' /\ Accounted'
  BY <1>2 DEF Inv, InHand, Accounted, Installing
<1>8. wrote \subseteq Alerts /\ \A b \in wrote : files'[b] = files[b]
  BY <1>3 DEF Inv, TypeOK
<1>9. DocumentsKept'
  BY <1>2, <1>8 DEF Inv, DocumentsKept, BetweenRenames, Faithful, Writing, Kept
<1>10. Removing'
  BY <1>1, <1>2, <1>3 DEF Inv, Removing
<1> QED
  BY <1>4, <1>6, <1>7, <1>9, <1>10 DEF Inv

LEMMA VisitFailsInv == Inv /\ VisitFails => Inv'
<1> SUFFICES ASSUME Inv, VisitFails
             PROVE  Inv'
  OBVIOUS
<1>1. /\ pc = "remove" /\ pc' = "done" /\ ok' = FALSE
      /\ UNCHANGED <<files, temps, left, notes, wrote, visit, runs, reported, before>>
  BY DEF VisitFails, history
<1>2. faults' \subseteq FaultKinds /\ faults' # {}
  BY FaultGrows DEF Inv, VisitFails, FaultKinds
<1>3. TypeOK' /\ FilesPlain'
  BY <1>1, <1>2 DEF Inv, TypeOK, FilesPlain
<1>4. InHand' /\ Accounted' /\ DocumentsKept' /\ Removing'
  BY <1>1, <1>2 DEF Inv, InHand, Accounted, DocumentsKept, Faithful, Removing, Installing
<1> QED
  BY <1>3, <1>4 DEF Inv

LEMMA EndRemovalInv == Inv /\ EndRemoval => Inv'
<1> SUFFICES ASSUME Inv, EndRemoval
             PROVE  Inv'
  OBVIOUS
<1>1. /\ pc = "remove" /\ visit = {} /\ pc' = "done"
      /\ UNCHANGED <<files, temps, left, notes, wrote, visit, ok, runs, reported, before, faults>>
  BY DEF EndRemoval, run, history
<1>2. TypeOK' /\ FilesPlain'
  BY <1>1 DEF Inv, TypeOK, FilesPlain
<1>3. InHand' /\ Accounted' /\ Removing'
  BY <1>1 DEF Inv, InHand, Accounted, Removing, Installing
<1>4. DocumentsKept'
  BY <1>1 DEF Inv, DocumentsKept, BetweenRenames, Faithful, Writing, Kept
<1> QED
  BY <1>2, <1>3, <1>4 DEF Inv

\* Between runs nothing but the types is promised.
LEMMA IdleInv ==
  ASSUME Inv, pc' = "idle", files' \in [Alerts -> File],
         \A a \in Alerts : Plain(files'[a]),
         UNCHANGED <<temps, left, notes, wrote, visit, ok, runs, reported, before, faults>>
  PROVE  Inv'
<1>1. TypeOK' /\ FilesPlain'
  BY DEF Inv, TypeOK, FilesPlain
<1>2. InHand' /\ Accounted' /\ Removing'
  BY DEF InHand, Accounted, Removing, Installing
<1>3. DocumentsKept'
  BY DEF DocumentsKept, Writing
<1> QED
  BY <1>1, <1>2, <1>3 DEF Inv

LEMMA ReturnInv == Inv /\ (Return \/ Crash) => Inv'
  BY IdleInv DEF Return, Crash, run, history, Inv, TypeOK, FilesPlain

LEMMA AnnotateInv == Inv /\ Annotate => Inv'
<1> SUFFICES ASSUME Inv, Annotate
             PROVE  Inv'
  OBVIOUS
<1>1. PICK a \in Alerts : /\ files[a].kind = "doc" /\ files[a].notes < MaxNotes
                          /\ files' = [files EXCEPT ![a].notes = @ + 1]
  BY DEF Annotate
<1>2. [files[a] EXCEPT !.notes = @ + 1] \in File
  BY <1>1, BoundsAssumption DEF Inv, TypeOK, File
<1>3. files' \in [Alerts -> File]
  BY <1>1, <1>2 DEF Inv, TypeOK
<1>4. \A b \in Alerts : Plain(files'[b])
  BY <1>1 DEF Inv, TypeOK, FilesPlain, Plain, File
<1>5. /\ pc' = "idle"
      /\ UNCHANGED <<temps, left, notes, wrote, visit, ok, runs, reported, before, faults>>
  BY DEF Annotate, run, history
<1> QED
  BY <1>3, <1>4, <1>5, IdleInv

-----------------------------------------------------------------------------
LEMMA StepInv == Inv /\ [Next]_vars => Inv'
<1>1. ASSUME Inv, UNCHANGED vars
      PROVE  Inv'
  <2>1. TypeOK' /\ FilesPlain'
    BY <1>1 DEF Inv, vars, TypeOK, FilesPlain
  <2>2. InHand' /\ Accounted' /\ Removing'
    BY <1>1 DEF Inv, vars, InHand, Accounted, Removing, Installing, Current
  <2>3. DocumentsKept'
    BY <1>1 DEF Inv, vars, DocumentsKept, BetweenRenames, Faithful, Writing, Kept, Current
  <2> QED
    BY <2>1, <2>2, <2>3 DEF Inv
<1>2. Inv /\ RunStep => Inv'
  BY LoadInv, LoadFailsInv, OpenInv, OpenFailsInv, FillInv, FillCutInv, InstallInv,
     InstallFailsInv, UnlinkInv, InstallAgainFailsInv, RemoveStaleInv, RemoveStaleFailsInv,
     ListFailsInv, VisitInv, VisitFailsInv, EndRemovalInv, ReturnInv DEF RunStep
<1> QED
  BY <1>1, <1>2, StartInv, ReturnInv, AnnotateInv DEF Next

LEMMA InvHolds == Spec => []Inv
  BY InitInv, StepInv, PTL DEF Spec

\* The variables keep their types, whatever fails and wherever the process is killed.
THEOREM TypeCorrect == Spec => []TypeOK
<1>1. Inv => TypeOK
  BY DEF Inv
<1> QED
  BY <1>1, InvHolds, PTL

\* A run that returns true has left every alert a document with its annotations.
THEOREM WritesPersist == Spec => []Persisted
<1>1. Inv => Persisted
  <2> SUFFICES ASSUME Inv, pc = "done", ok, "write" \notin faults, NEW a \in reported
               PROVE  files[a] = Kept(a)
    BY DEF Persisted
  <2>1. left = <<>> /\ Range(left) = {}
    BY RangeType DEF Inv, InHand, TypeOK
  <2>2. a \in wrote
    BY <2>1 DEF Inv, Accounted
  <2> QED
    BY <2>2 DEF Inv, DocumentsKept, Faithful, BetweenRenames
<1> QED
  BY <1>1, InvHolds, PTL

\* It has left no other document.
THEOREM StaleGone == Spec => []StaleRemoved
<1>1. Inv => StaleRemoved
  BY DEF Inv, Accounted, Removing, StaleRemoved
<1> QED
  BY <1>1, InvHolds, PTL

\* A run without failures that finds no torn document returns true.
THEOREM CleanRuns == Spec => []CleanRunSucceeds
<1>1. Inv => CleanRunSucceeds
  BY DEF Inv, Accounted, CleanRunSucceeds
<1> QED
  BY <1>1, InvHolds, PTL

\* A run without failures may be killed anywhere and no document is poorer for it.
THEOREM KillsAreSafe == Spec => []CrashSafe
<1>1. Inv => CrashSafe
  <2> SUFFICES ASSUME Inv, pc # "idle", faults = {}, NEW a \in reported, before[a].kind = "doc"
               PROVE  files[a] = before[a]
    BY DEF CrashSafe
  <2>1. Faithful /\ pc # "again"
    BY DEF Inv, InHand, Faithful
  <2>2. a \in Alerts /\ before[a] \in File
    BY DEF Inv, TypeOK
  <2>3. Kept(a) = before[a]
    BY <2>2 DEF Kept, Doc, File
  <2>4. CASE a \in wrote
    BY <2>1, <2>3, <2>4 DEF Inv, DocumentsKept, BetweenRenames
  <2>5. CASE a \notin wrote
    <3>1. a \in Range(left)
      BY <2>5 DEF Inv, Accounted
    <3>2. Writing
      <4>1. left = <<>> => FALSE
        BY <3>1, RangeType DEF Inv, TypeOK
      <4>2. CASE pc \in {"remove", "done"}
        BY <4>1, <4>2 DEF Inv, InHand
      <4> QED
        BY <4>2 DEF Inv, TypeOK, Writing
    <3> QED
      BY <2>1, <2>2, <2>5, <3>2 DEF Inv, DocumentsKept, BetweenRenames
  <2> QED
    BY <2>4, <2>5
<1> QED
  BY <1>1, InvHolds, PTL

\* Only a write cut short leaves a torn document, whenever the process is killed.
THEOREM CutsAloneTear == Spec => OnlyCutsTear
<1> DEFINE NoTear ==
      \A a \in Alerts : files[a].kind # "torn" /\ files'[a].kind = "torn" => "write" \in faults
<1>1. ASSUME Inv, Rename, pc \in {"install", "again"}
      PROVE  NoTear
  <2>1. PICK c : c = Current /\ files' = [files EXCEPT ![c] = temps[c]]
    BY <1>1 DEF Rename
  <2>2. "write" \notin faults => temps[c].kind # "torn"
    BY <1>1, <2>1 DEF Inv, InHand, Installing, Doc
  <2> QED
    BY <1>1, <2>1, <2>2 DEF Inv, TypeOK
<1>2. ASSUME Inv, Unlink
      PROVE  NoTear
  BY <1>2 DEF Unlink, Inv, TypeOK, Absent
<1>3. ASSUME Inv, Visit
      PROVE  NoTear
  BY <1>3 DEF Visit, Inv, TypeOK, Absent
<1>4. ASSUME Inv, Annotate
      PROVE  NoTear
  <2>1. PICK c \in Alerts : files' = [files EXCEPT ![c].notes = @ + 1]
    BY <1>4 DEF Annotate
  <2>2. files[c] \in File /\ [files[c] EXCEPT !.notes = @ + 1].kind = files[c].kind
    BY <1>4 DEF Inv, TypeOK, File
  <2> QED
    BY <1>4, <2>1, <2>2 DEF Inv, TypeOK
<1>5. ASSUME files' = files
      PROVE  NoTear
  BY <1>5
<1>6. Inv /\ [Next]_vars => NoTear
  BY <1>1, <1>2, <1>3, <1>4, <1>5
     DEF Next, RunStep, Start, Load, LoadFails, Open, OpenFails, Fill, FillCut, Install,
         InstallFails, InstallAgain, InstallAgainFails, RemoveStale, RemoveStaleFails,
         ListFails, VisitFails, EndRemoval, Return, Crash, vars
<1> QED
  BY <1>6, InvHolds, PTL DEF Spec, OnlyCutsTear
=============================================================================
