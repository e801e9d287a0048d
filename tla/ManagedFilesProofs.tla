------------------------- MODULE ManagedFilesProofs -------------------------
(***************************************************************************)
(* What holds of a managed file, for any contents and any number of        *)
(* operations at a time.  The argument: an operation that overlaps nothing *)
(* is alone, so what it has written is still there when it goes on, and    *)
(* each step it has left makes one more copy agree with the disk.          *)
(***************************************************************************)
EXTENDS ManagedFiles, TLAPS

-----------------------------------------------------------------------------
(***************************************************************************)
(* The inductive invariant.                                                *)
(***************************************************************************)
\* Which steps an operation may be at, and what it has read by then.
LabelOK(s) ==
    /\ pc[s] \in {"fetch", "permit", "own"} => kind \in FileBased
    /\ pc[s] \in {"compare", "permit", "write", "own", "validate", "record"} =>
           call[s].op # "delete" /\ call[s].want \in Versions
    /\ pc[s] = "fetch" => call[s].op # "delete"
    /\ pc[s] \in {"remove", "recollect", "mark", "mark only"} => call[s].op = "delete"
    /\ call[s].op = "delete" => call[s].want = Absent
    /\ pc[s] \in {"mark", "mark only"} => call[s].read # NoRecord
    /\ pc[s] = "remove" /\ kind = "sysctl" => call[s].read # NoRecord
    /\ pc[s] = "mark only" => kind = "sysctl"
    /\ pc[s] = "check" /\ kind \notin FileBased /\ call[s].op # "delete" =>
           call[s].want \in Versions
    /\ pc[s] = "record" => kind \in Recording
    /\ pc[s] = "validate" => kind \in Netplan
    /\ pc[s] = "apply" => kind \in Loading
    /\ pc[s] = "apply" /\ call[s].op # "delete" => call[s].want \in Versions
    /\ pc[s] \in {"recollect", "mark", "mark only"} => kind \in Recording
    /\ pc[s] = "recollect" => kind # "sysctl"
    /\ pc[s] \notin Ended /\ kind \in FileBased \ {"file"} /\ call[s].op # "delete" =>
           call[s].asked = "fresh"

LabelsOK == \A s \in Slots : LabelOK(s)

\* An operation that overlaps nothing is the only one.
Alone == \A s, t \in Slots : s \in Active /\ t \in Active /\ ~spoiled[s] => s = t

SpoiledHasCause ==
    \A s \in Slots : s \in Active /\ spoiled[s] => causes \cap {"edit", "overlap"} # {}

\* What such an operation knows of the file.
Knows(s) ==
    /\ pc[s] \in {"permit", "own", "validate", "record"} => disk = call[s].want
    /\ pc[s] = "apply" => disk = call[s].want
    /\ pc[s] = "own" => attrs = "fresh"
    /\ pc[s] \in {"record", "apply"} /\ kind \in FileBased /\ call[s].op # "delete" =>
           call[s].asked \in {Unset, attrs}
    /\ pc[s] \in {"recollect", "mark", "mark only"} => disk = Absent
    /\ pc[s] = "remove" => IF kind = "sysctl" THEN Managed ELSE disk # Absent

Knowledge == \A s \in Slots : s \in Active /\ ~spoiled[s] => Knows(s)

\* The copies that agree when nothing went wrong: all before and after the
\* change of the file, those already renewed on the way.
Agreement ==
    /\ kind \in Recording => RecordTrue
    /\ kind \in Loading => LoadedTrue

AgreesAt(label) ==
    /\ label \notin Midway => Agreement
    /\ label = "apply" /\ kind \in Recording \ Netplan => RecordTrue
    /\ label \in {"record", "recollect", "mark"} /\ kind \in Netplan => LoadedTrue
    /\ label # "mark only"

Agreed ==
    causes = {} => /\ \A s \in Slots : s \in Active => AgreesAt(pc[s])
                   /\ Quiet => Agreement

OnlyValidatedStay ==
    kind \in Netplan /\ disk \in Invalid /\ causes \subseteq {"rejected"} =>
        \E s \in Slots : pc[s] = "validate"

FInv == /\ FilesTypeOK /\ LabelsOK /\ Alone /\ SpoiledHasCause
        /\ Knowledge /\ Agreed /\ OnlyValidatedStay

-----------------------------------------------------------------------------
(***************************************************************************)
(* One step of one operation.                                              *)
(***************************************************************************)
\* Operation s goes to a step, with what it knows by now.
Moved(s, label, c) ==
    /\ pc' = [pc EXCEPT ![s] = label]
    /\ call' = [call EXCEPT ![s] = IF label \in Ended THEN NoCall ELSE c]
    /\ spoiled' = [spoiled EXCEPT ![s] = IF label \in Ended THEN FALSE ELSE @]

\* Proceed is one such step.
LEMMA ProceedMoves ==
  ASSUME FilesTypeOK, NEW s \in Slots, NEW label, NEW c, Proceed(s, label, c)
  PROVE  Moved(s, label, c)
  BY DEF Proceed, Finish, Moved, FilesTypeOK

\* So is going on with nothing new.
LEMMA GoToMoves ==
  ASSUME FilesTypeOK, NEW s \in Slots, NEW label, GoTo(s, label)
  PROVE  Moved(s, label, call[s])
  BY ProceedMoves DEF GoTo

\* So is an end.
LEMMA FinishMoves ==
  ASSUME FilesTypeOK, NEW s \in Slots, NEW label \in Ended, Finish(s, label)
  PROVE  Moved(s, label, call[s])
  BY DEF Finish, Moved, FilesTypeOK

\* No operation is one of the calls, and no label of an end is on the way.
LEMMA CallsAndLabels ==
  /\ NoCall \in Calls
  /\ Ended \cap Midway = {}
  /\ Ended \subseteq Labels
  BY ManagedFilesAssumption
     DEF NoCall, Calls, Ended, Midway, Labels, Operations, Contents, Records

\* What a step of s may do to the causes: clear them when it overlaps nothing,
\* or add to them.
CausesStep(s) == \/ causes' = {} /\ ~spoiled[s]
                 \/ causes \subseteq causes'

\* The type invariant, apart from the operations.
WorldTyped ==
    /\ kind \in Kinds /\ object \in Contents
    /\ disk \in Contents /\ attrs \in Attributes
    /\ record \in Records /\ applied \in Contents
    /\ causes \subseteq {"edit", "crash", "fault", "overlap", "rejected"}
    /\ mishaps \in 0..MaxMishaps /\ uploads \in 0..MaxUploads

\* The operations stay well typed.
LEMMA MovedTyped ==
  ASSUME FilesTypeOK, NEW s \in Slots, NEW label \in Labels, NEW c \in Calls,
         Moved(s, label, c), WorldTyped'
  PROVE  FilesTypeOK'
  BY CallsAndLabels DEF Moved, FilesTypeOK, WorldTyped

(***************************************************************************)
(* What has to be shown of a step of operation s: where it goes fits, what *)
(* it knows there holds, and the copies agree as far as they should.       *)
(***************************************************************************)
LEMMA SlotStep ==
  ASSUME FInv, NEW s \in Slots, pc[s] \notin Ended,
         NEW label \in Labels, NEW c \in Calls, Moved(s, label, c),
         kind' = kind, CausesStep(s), WorldTyped',
         label \notin Ended => LabelOK(s)',
         label \notin Ended /\ ~spoiled[s] => Knows(s)',
         ~spoiled[s] /\ causes' = {} => AgreesAt(label)',
         kind \in Netplan /\ disk' \in Invalid /\ causes' \subseteq {"rejected"} =>
             \/ label = "validate"
             \/ disk \in Invalid /\ causes \subseteq causes' /\ pc[s] # "validate"
  PROVE  FInv'
<1> USE DEF FInv
<1>1. /\ pc'[s] = label
      /\ \A t \in Slots \ {s} : pc'[t] = pc[t] /\ call'[t] = call[t]
                                /\ spoiled'[t] = spoiled[t]
      /\ label \in Ended => call'[s] = NoCall /\ spoiled'[s] = FALSE
      /\ label \notin Ended => spoiled'[s] = spoiled[s]
  BY DEF Moved, FilesTypeOK
<1>2. /\ \A t \in Slots \ {s} : t \in Active' <=> t \in Active
      /\ s \in Active' <=> label \notin Ended
      /\ s \in Active
  BY <1>1 DEF Active
<1>3. LabelsOK'
  <2>1. ASSUME NEW t \in Slots \ {s} PROVE LabelOK(t)'
    BY <1>1, <2>1 DEF LabelsOK, LabelOK
  <2>2. CASE label \in Ended
    <3>1. call'[s].op = "create" /\ pc'[s] \in Ended
      BY <1>1, <2>2 DEF NoCall
    <3>2. LabelOK(s)'
      BY <3>1 DEF LabelOK, Ended
    <3>3. QED
      BY <2>1, <3>2 DEF LabelsOK
  <2>3. QED
    BY <2>1, <2>2 DEF LabelsOK
<1>4. Alone'
  BY <1>1, <1>2 DEF Alone
<1>5. ~spoiled[s] => Active = {s}
  BY <1>2 DEF Alone, Active
<1>6. SpoiledHasCause'
  BY <1>1, <1>2, <1>5 DEF SpoiledHasCause, CausesStep
<1>7. Knowledge'
  BY <1>1, <1>2, <1>5 DEF Knowledge, Alone
<1>8. Agreed'
  <2>1. SUFFICES ASSUME causes' = {}
                 PROVE  /\ \A t \in Slots : t \in Active' => AgreesAt(pc[t])'
                        /\ Quiet' => Agreement'
    BY DEF Agreed
  <2>2. ~spoiled[s]
    BY <1>2, <2>1 DEF CausesStep, SpoiledHasCause
  <2>3. AgreesAt(label)'
    BY <2>1, <2>2
  <2>4. \A t \in Slots : t \in Active' => t = s
    BY <1>2, <1>5, <2>2
  <2>5. Quiet' => Agreement'
    BY <1>2, <2>3, CallsAndLabels DEF Quiet, AgreesAt
  <2>6. AgreesAt(pc[s])'
    BY <1>1, <2>3 DEF AgreesAt, Agreement, RecordTrue, LoadedTrue, Managed
  <2>7. QED
    BY <2>4, <2>5, <2>6
<1>9. OnlyValidatedStay'
  BY <1>1 DEF OnlyValidatedStay
<1>10. FilesTypeOK'
  BY MovedTyped
<1>11. QED
  BY <1>10, <1>3, <1>4, <1>6, <1>7, <1>8, <1>9

\* The invariant, as far as one operation is concerned.
LEMMA OfOne ==
  ASSUME FInv, NEW s \in Slots, pc[s] \notin Ended
  PROVE  /\ LabelOK(s) /\ WorldTyped /\ call[s] \in Calls
         /\ ~spoiled[s] => Knows(s)
         /\ causes = {} => AgreesAt(pc[s])
  BY DEF FInv, FilesTypeOK, WorldTyped, LabelsOK, Knowledge, Agreed, Active

-----------------------------------------------------------------------------
(***************************************************************************)
(* Deploying.                                                              *)
(***************************************************************************)
\* What is checked first changes nothing.
LEMMA CheckDeployStep ==
  ASSUME FInv, NEW s \in Slots, CheckDeploy(s) PROVE FInv'
<1>1. PICK label \in {"unchanged", "error", "fetch", "compare"} :
        /\ GoTo(s, label)
        /\ label = "fetch" => kind \in FileBased
        /\ label = "compare" => kind \notin FileBased
  BY DEF CheckDeploy, InTheWay, NothingToUpdate, ObjectUnknown
<1>2. /\ pc[s] = "check" /\ call[s].op # "delete"
      /\ UNCHANGED <<world, causes, mishaps, uploads>>
  BY DEF CheckDeploy
<1>3. PICK c \in Calls : c = call[s]
  BY <1>2, OfOne DEF Ended
<1>4. Moved(s, label, c) /\ label \in Labels /\ pc[s] \notin Ended
  BY <1>1, <1>2, <1>3, GoToMoves DEF FInv, Labels, Ended
<1>5. /\ label \notin Ended => LabelOK(s)'
      /\ label \notin Ended => Knows(s)'
  BY <1>1, <1>2, <1>3, <1>4, OfOne
     DEF Moved, FInv, FilesTypeOK, LabelOK, Knows, world, Ended
<1>6. causes' = {} => AgreesAt(label)'
  <2>1. causes' = {} => Agreement
    BY <1>2, <1>4, OfOne DEF AgreesAt, Midway
  <2>2. QED
    BY <1>1, <1>2, <2>1
       DEF AgreesAt, Agreement, RecordTrue, LoadedTrue, Managed, world, Midway
<1>7. WorldTyped' /\ CausesStep(s) /\ kind' = kind /\ disk' = disk
  BY <1>2, <1>4, OfOne DEF WorldTyped, world, CausesStep
<1>8. QED
  BY <1>2, <1>4, <1>5, <1>6, <1>7, SlotStep

\* What is fetched becomes the content to deploy.
LEMMA FetchStep ==
  ASSUME FInv, NEW s \in Slots, Fetch(s) PROVE FInv'
<1>1. PICK label \in {"error", "compare"} :
        /\ Proceed(s, label, [call[s] EXCEPT !.want = object])
        /\ label = "compare" => object # Absent
  BY DEF Fetch
<1>2. pc[s] = "fetch" /\ UNCHANGED <<world, causes, mishaps, uploads>>
  BY DEF Fetch
<1>3. PICK c \in Calls : c = [call[s] EXCEPT !.want = object]
  BY <1>2, OfOne DEF Ended, Calls, WorldTyped
<1>4. Moved(s, label, c) /\ label \in Labels /\ pc[s] \notin Ended
  BY <1>1, <1>2, <1>3, ProceedMoves DEF FInv, Labels, Ended
<1>5. /\ label \notin Ended => LabelOK(s)'
      /\ label \notin Ended => Knows(s)'
  <2>1. label \notin Ended =>
          pc'[s] = "compare" /\ call'[s] = c /\ c.op # "delete" /\ c.want \in Versions
    BY <1>1, <1>2, <1>3, <1>4, OfOne
       DEF Moved, FInv, FilesTypeOK, LabelOK, Ended, WorldTyped, Contents, Calls
  <2>2. kind \in FileBased \ {"file"} => c.asked = "fresh"
    BY <1>2, <1>3, <1>4, OfOne DEF LabelOK, Calls
  <2>3. QED
    BY <1>2, <2>1, <2>2 DEF LabelOK, Knows, world
<1>6. causes' = {} => AgreesAt(label)'
  <2>1. causes' = {} => Agreement
    BY <1>2, <1>4, OfOne DEF AgreesAt, Midway
  <2>2. QED
    BY <1>1, <1>2, <2>1
       DEF AgreesAt, Agreement, RecordTrue, LoadedTrue, Managed, world, Midway
<1>7. WorldTyped' /\ CausesStep(s) /\ kind' = kind /\ disk' = disk
  BY <1>2, <1>4, OfOne DEF WorldTyped, world, CausesStep
<1>8. QED
  BY <1>2, <1>4, <1>5, <1>6, <1>7, SlotStep

\* After the comparison the content on disk is known.
LEMMA CompareStep ==
  ASSUME FInv, NEW s \in Slots, Compare(s) PROVE FInv'
<1>1. PICK label \in {"write", "permit", "unchanged"} :
        /\ GoTo(s, label)
        /\ label = "permit" => kind \in FileBased /\ disk = call[s].want
  BY DEF Compare
<1>2. pc[s] = "compare" /\ UNCHANGED <<world, causes, mishaps, uploads>>
  BY DEF Compare
<1>3. PICK c \in Calls : c = call[s]
  BY <1>2, OfOne DEF Ended
<1>4. Moved(s, label, c) /\ label \in Labels /\ pc[s] \notin Ended
  BY <1>1, <1>2, <1>3, GoToMoves DEF FInv, Labels, Ended
<1>5. /\ label \notin Ended => LabelOK(s)'
      /\ label \notin Ended => Knows(s)'
  BY <1>1, <1>2, <1>3, <1>4, OfOne
     DEF Moved, FInv, FilesTypeOK, LabelOK, Knows, world, Ended
<1>6. causes' = {} => AgreesAt(label)'
  <2>1. causes' = {} => Agreement
    BY <1>2, <1>4, OfOne DEF AgreesAt, Midway
  <2>2. QED
    BY <1>1, <1>2, <2>1
       DEF AgreesAt, Agreement, RecordTrue, LoadedTrue, Managed, world, Midway
<1>7. WorldTyped' /\ CausesStep(s) /\ kind' = kind /\ disk' = disk
  BY <1>2, <1>4, OfOne DEF WorldTyped, world, CausesStep
<1>8. QED
  BY <1>2, <1>4, <1>5, <1>6, <1>7, SlotStep

\* When mode or owner were wrong, the record is written too.
LEMMA PermitStep ==
  ASSUME FInv, NEW s \in Slots, Permit(s) PROVE FInv'
<1>1. PICK label \in {"error", "unchanged", "record"} :
        /\ GoTo(s, label)
        /\ label = "record" => /\ attrs' = call[s].asked /\ call[s].asked # Unset
                               /\ causes' = IF spoiled[s] THEN causes ELSE {}
        /\ label # "record" => UNCHANGED <<attrs, causes>>
  BY DEF Permit
<1>2. /\ pc[s] = "permit"
      /\ UNCHANGED <<kind, object, disk, record, applied, mishaps, uploads>>
  BY DEF Permit
<1>3. PICK c \in Calls : c = call[s]
  BY <1>2, OfOne DEF Ended
<1>4. Moved(s, label, c) /\ label \in Labels /\ pc[s] \notin Ended
  BY <1>1, <1>2, <1>3, GoToMoves DEF FInv, Labels, Ended
<1>5. kind \in FileBased
  BY <1>2, <1>4, OfOne DEF LabelOK
<1>6. /\ label \notin Ended => LabelOK(s)'
      /\ label \notin Ended /\ ~spoiled[s] => Knows(s)'
  BY <1>1, <1>2, <1>3, <1>4, <1>5, OfOne
     DEF Moved, FInv, FilesTypeOK, LabelOK, Knows, Ended, FileBased, Recording, Kinds
<1>7. causes' = {} => AgreesAt(label)'
  <2>1. CASE label = "record"
    BY <1>2, <1>5, <2>1 DEF AgreesAt, Midway, FileBased, Netplan
  <2>2. CASE label # "record"
    <3>1. causes' = {} => Agreement
      BY <1>1, <1>2, <1>4, <2>2, OfOne DEF AgreesAt, Midway
    <3>2. QED
      BY <1>1, <1>2, <2>2, <3>1
         DEF AgreesAt, Agreement, RecordTrue, LoadedTrue, Managed, Midway
  <2>3. QED
    BY <2>1, <2>2
<1>8. WorldTyped' /\ CausesStep(s) /\ (causes' = {} \/ causes' = causes)
  BY <1>1, <1>2, <1>3, <1>4, OfOne DEF WorldTyped, CausesStep, Calls
<1>9. kind \notin Netplan
  BY <1>5 DEF FileBased, Netplan
<1>10. QED
  BY <1>2, <1>4, <1>6, <1>7, <1>8, <1>9, SlotStep

\* From the write on, the disk holds what was asked for.
LEMMA WriteStep ==
  ASSUME FInv, NEW s \in Slots, Write(s) PROVE FInv'
<1>1. PICK label \in {"own", "validate", "record", "apply"} :
        /\ GoTo(s, label) /\ label = AfterWrite
  BY DEF Write, AfterWrite
<1>2. /\ pc[s] = "write" /\ disk' = call[s].want /\ attrs' = "fresh"
      /\ causes' = IF spoiled[s] THEN causes ELSE {}
      /\ UNCHANGED <<kind, object, record, applied, mishaps, uploads>>
  BY DEF Write
<1>3. PICK c \in Calls : c = call[s]
  BY <1>2, OfOne DEF Ended
<1>4. Moved(s, label, c) /\ label \in Labels /\ pc[s] \notin Ended
  BY <1>1, <1>2, <1>3, GoToMoves DEF FInv, Labels, Ended
<1>5. /\ kind \in Kinds /\ c.want \in Versions /\ c.op # "delete"
      /\ kind \in FileBased \ {"file"} => c.asked = "fresh"
  BY <1>2, <1>3, <1>4, OfOne DEF LabelOK, WorldTyped
<1>6. /\ label = "own" => kind \in FileBased
      /\ label = "record" => kind = "sysctl"
      /\ label = "apply" => kind = "ntp"
      /\ label = "validate" <=> kind \in Netplan
  BY <1>1, <1>5 DEF AfterWrite, Kinds, FileBased, Netplan
<1>7. pc'[s] = label /\ call'[s] = c
  BY <1>1, <1>4 DEF Moved, FInv, FilesTypeOK, Ended
<1>8. LabelOK(s)' /\ Knows(s)'
  <2>1. /\ "sysctl" \in Recording /\ "ntp" \in Loading
        /\ {"sysctl", "ntp"} \cap FileBased = {}
    BY DEF Recording, Loading, Kinds, FileBased
  <2>2. QED
    BY <1>1, <1>2, <1>3, <1>5, <1>6, <1>7, <2>1 DEF LabelOK, Knows
<1>9. AgreesAt(label)'
  BY <1>1, <1>2, <1>6 DEF AgreesAt, Midway, Netplan, Recording
<1>10. WorldTyped' /\ CausesStep(s)
  BY <1>2, <1>3, <1>4, OfOne DEF WorldTyped, CausesStep, Calls, Attributes
<1>11. QED
  BY <1>2, <1>4, <1>6, <1>8, <1>9, <1>10, SlotStep

\* The owner that was asked for, unless the file has gone meanwhile.
LEMMA OwnStep ==
  ASSUME FInv, NEW s \in Slots, Own(s) PROVE FInv'
<1>1. PICK label \in {"record", "error"} :
        /\ GoTo(s, label)
        /\ attrs' = IF call[s].asked = Unset \/ kind # "file" THEN attrs
                                                             ELSE call[s].asked
  BY DEF Own
<1>2. /\ pc[s] = "own"
      /\ UNCHANGED <<kind, object, disk, record, applied, causes, mishaps, uploads>>
  BY DEF Own
<1>3. PICK c \in Calls : c = call[s]
  BY <1>2, OfOne DEF Ended
<1>4. Moved(s, label, c) /\ label \in Labels /\ pc[s] \notin Ended
  BY <1>1, <1>2, <1>3, GoToMoves DEF FInv, Labels, Ended
<1>5. kind \in FileBased /\ kind \notin Netplan /\ kind \in Recording
  BY <1>2, <1>4, OfOne DEF LabelOK, FileBased, Netplan, Recording, Kinds
<1>6. /\ label \notin Ended => LabelOK(s)'
      /\ label \notin Ended /\ ~spoiled[s] => Knows(s)'
  BY <1>1, <1>2, <1>3, <1>4, <1>5, OfOne
     DEF Moved, FInv, FilesTypeOK, LabelOK, Knows, Ended
<1>7. causes' = {} /\ ~spoiled[s] => AgreesAt(label)'
  <2>1. CASE label = "record"
    BY <1>2, <1>5, <2>1 DEF AgreesAt, Midway
  <2>2. CASE label = "error" /\ ~spoiled[s]
    <3>1. disk \in Versions
      BY <1>2, <1>4, <2>2, OfOne DEF LabelOK, Knows
    <3>2. disk # Absent
      BY <3>1, ManagedFilesAssumption
    <3>3. Moved(s, "record", c)
      <4>1. GoTo(s, "record")
        BY <3>2 DEF Own
      <4>2. QED
        BY <1>3, <4>1, GoToMoves DEF FInv
    <3>4. pc'[s] = "record" /\ pc'[s] = "error"
      BY <1>4, <2>2, <3>3 DEF Moved, FInv, FilesTypeOK
    <3>5. QED
      BY <3>4
  <2>3. QED
    BY <1>1, <2>1, <2>2
<1>8. WorldTyped' /\ CausesStep(s)
  BY <1>1, <1>2, <1>3, <1>4, OfOne DEF WorldTyped, CausesStep, Calls
<1>9. QED
  BY <1>1, <1>2, <1>4, <1>5, <1>6, <1>7, <1>8, SlotStep

\* Either the configuration is valid and stays, or the file goes, or a fault is
\* to blame.
LEMMA ValidateStep ==
  ASSUME FInv, NEW s \in Slots, Validate(s) PROVE FInv'
<1>1. PICK label \in {"apply", "error"} :
        /\ Moved(s, label, call[s])
        /\ label = "apply" => disk \notin Invalid /\ UNCHANGED <<disk, causes>>
        /\ label = "error" =>
             \/ causes' = causes \cup {"rejected"} /\ disk' = Absent
             \/ causes' = causes \cup {"fault"} /\ disk' \in {disk, Absent}
  BY GoToMoves, FinishMoves DEF Validate, Rollback, FInv, Ended
<1>2. pc[s] = "validate" /\ UNCHANGED <<kind, object, attrs, record, applied, uploads>>
      /\ mishaps' \in 0..MaxMishaps
  <2>1. mishaps \in 0..MaxMishaps /\ MaxMishaps \in Nat
    BY ManagedFilesAssumption DEF FInv, FilesTypeOK
  <2>2. QED
    BY <2>1 DEF Validate, Mishap
<1>3. PICK c \in Calls : c = call[s]
  BY <1>2, OfOne DEF Ended
<1>4. Moved(s, label, c) /\ label \in Labels /\ pc[s] \notin Ended
  BY <1>1, <1>2, <1>3 DEF Labels, Ended
<1>5. kind \in Netplan /\ kind \in Loading /\ kind \notin FileBased
  BY <1>2, <1>4, OfOne DEF LabelOK, FileBased, Netplan, Loading
<1>6. /\ label \notin Ended => LabelOK(s)'
      /\ label \notin Ended /\ ~spoiled[s] => Knows(s)'
  BY <1>1, <1>2, <1>3, <1>4, <1>5, OfOne
     DEF Moved, FInv, FilesTypeOK, LabelOK, Knows, Ended
<1>7. causes' = {} => AgreesAt(label)'
  BY <1>1, <1>2, <1>5 DEF AgreesAt, Midway
<1>8. WorldTyped' /\ CausesStep(s)
  BY <1>1, <1>2, <1>4, OfOne DEF WorldTyped, CausesStep, Contents
<1>9. Absent \notin Invalid
  BY ManagedFilesAssumption
<1>10. QED
  BY <1>1, <1>2, <1>4, <1>6, <1>7, <1>8, <1>9, SlotStep

\* What comes after the record, by provider.
LEMMA AfterRecordKinds ==
  ASSUME kind \in Recording
  PROVE  /\ AfterRecord \in {"apply", "changed"}
         /\ AfterRecord = "apply" => kind \in Loading /\ kind \in Recording \ Netplan
         /\ AfterRecord = "changed" => kind \notin Loading \/ kind \in Netplan
  BY DEF AfterRecord, Kinds, Loading, Recording, Netplan

\* The record is true of the file an operation has written.
LEMMA RecordStep ==
  ASSUME FInv, NEW s \in Slots, Record(s) PROVE FInv'
<1>2. /\ pc[s] = "record" /\ record' = Recorded(call[s].want)
      /\ UNCHANGED <<kind, object, disk, attrs, applied, causes, mishaps, uploads>>
  BY DEF Record
<1>k. kind \in Kinds /\ LabelOK(s) /\ call[s].want \in Versions /\ kind \in Recording
  BY <1>2, OfOne DEF Ended, WorldTyped, LabelOK
<1>1. PICK label \in {"apply", "changed"} :
        /\ GoTo(s, label)
        /\ label = "apply" => kind \in Loading /\ kind \in Recording \ Netplan
        /\ label = "changed" => kind \notin Loading \/ kind \in Netplan
  BY <1>k, AfterRecordKinds DEF Record
<1>3. PICK c \in Calls : c = call[s]
  BY <1>2, OfOne DEF Ended
<1>4. Moved(s, label, c) /\ label \in Labels /\ pc[s] \notin Ended
  BY <1>1, <1>2, <1>3, GoToMoves DEF FInv, Labels, Ended
<1>6. /\ label \notin Ended => LabelOK(s)'
      /\ label \notin Ended /\ ~spoiled[s] => Knows(s)'
  BY <1>1, <1>2, <1>3, <1>4, <1>k, OfOne
     DEF Moved, FInv, FilesTypeOK, LabelOK, Knows, Ended
<1>7. causes' = {} /\ ~spoiled[s] => AgreesAt(label)'
  <2>1. SUFFICES ASSUME causes' = {}, ~spoiled[s] PROVE AgreesAt(label)'
    OBVIOUS
  <2>2. disk = call[s].want /\ (kind \in Netplan => LoadedTrue)
    BY <1>2, <1>4, <2>1, OfOne DEF Knows, AgreesAt
  <2>3. RecordTrue' /\ (kind \in Netplan => LoadedTrue')
    BY <1>2, <1>k, <2>2, ManagedFilesAssumption DEF RecordTrue, LoadedTrue
  <2>4. QED
    BY <1>1, <1>2, <2>3 DEF AgreesAt, Agreement, Midway
<1>8. WorldTyped' /\ CausesStep(s)
  BY <1>2, <1>k, <1>4, OfOne DEF WorldTyped, CausesStep, Records, Recorded
<1>9. kind \in Netplan /\ disk' \in Invalid => disk \in Invalid /\ pc[s] # "validate"
  BY <1>2
<1>10. QED
  BY <1>2, <1>4, <1>6, <1>7, <1>8, <1>9, SlotStep

\* What comes after loading, by provider.
LEMMA AfterApplyKinds ==
  ASSUME NEW s \in Slots
  PROVE  /\ AfterApply(s) \in {"changed", "recollect", "record"}
         /\ AfterApply(s) \in {"recollect", "record"} <=> kind \in Netplan
         /\ AfterApply(s) = "recollect" => call[s].op = "delete"
         /\ AfterApply(s) = "record" => call[s].op # "delete"
  BY DEF AfterApply

\* The running system has what the disk has, or nothing is loaded.
LEMMA LoadedIsTrue ==
  ASSUME applied' = Loaded, disk' = disk, kind' = kind
  PROVE  LoadedTrue'
  BY DEF Loaded, LoadedTrue

\* Loading what an operation has written, or that it removed the file.
LEMMA ApplyStep ==
  ASSUME FInv, NEW s \in Slots, Apply(s) PROVE FInv'
<1>2. /\ pc[s] = "apply" /\ applied' = Loaded
      /\ UNCHANGED <<kind, object, disk, attrs, record, causes, mishaps, uploads>>
  BY DEF Apply
<1>1. PICK label \in {"changed", "recollect", "record"} :
        /\ GoTo(s, label)
        /\ label \in {"recollect", "record"} <=> kind \in Netplan
        /\ label = "recollect" => call[s].op = "delete"
        /\ label = "record" => call[s].op # "delete"
  BY AfterApplyKinds DEF Apply
<1>3. PICK c \in Calls : c = call[s]
  BY <1>2, OfOne DEF Ended
<1>4. Moved(s, label, c) /\ label \in Labels /\ pc[s] \notin Ended
  BY <1>1, <1>2, <1>3, GoToMoves DEF FInv, Labels, Ended
<1>5. /\ kind \in Netplan => kind \in Recording /\ kind \notin FileBased /\ kind # "sysctl"
      /\ call[s].op # "delete" => call[s].want \in Versions
      /\ call[s].op = "delete" => call[s].want = Absent
  BY <1>2, <1>4, OfOne DEF Netplan, Recording, Kinds, FileBased, LabelOK
<1>6. /\ label \notin Ended => LabelOK(s)'
      /\ label \notin Ended /\ ~spoiled[s] => Knows(s)'
  BY <1>1, <1>2, <1>3, <1>4, <1>5, OfOne
     DEF Moved, FInv, FilesTypeOK, LabelOK, Knows, Ended
<1>7. causes' = {} => AgreesAt(label)'
  <2>1. LoadedTrue'
    BY <1>2, LoadedIsTrue
  <2>2. causes' = {} /\ kind \in Recording \ Netplan => RecordTrue'
    BY <1>2, <1>4, OfOne DEF AgreesAt, RecordTrue, Managed
  <2>3. QED
    BY <1>1, <1>2, <2>1, <2>2 DEF AgreesAt, Agreement, Midway
<1>8. WorldTyped' /\ CausesStep(s)
  BY <1>2, <1>4, OfOne DEF WorldTyped, CausesStep, Loaded
<1>9. QED
  BY <1>2, <1>4, <1>6, <1>7, <1>8, SlotStep

-----------------------------------------------------------------------------
(***************************************************************************)
(* Removing.                                                               *)
(***************************************************************************)
\* A file to remove is there, or a record to mark.
LEMMA CheckDeleteStep ==
  ASSUME FInv, NEW s \in Slots, CheckDelete(s) PROVE FInv'
<1>2. /\ pc[s] = "check" /\ call[s].op = "delete"
      /\ UNCHANGED <<world, causes, mishaps, uploads>>
  BY DEF CheckDelete
<1>t. call[s] \in Calls /\ WorldTyped /\ LabelOK(s)
  BY <1>2, OfOne DEF Ended
<1>1. PICK label \in {"remove", "unchanged", "error"}, c \in Calls :
        /\ Proceed(s, label, c)
        /\ c.op = "delete" /\ c.want = call[s].want
        /\ label = "remove" /\ kind = "sysctl" => c.read # NoRecord /\ Managed
        /\ label = "remove" /\ kind # "sysctl" => disk # Absent
  <2>1. CASE kind = "sysctl"
    <3>1. [call[s] EXCEPT !.read = record] \in Calls
      BY <1>t DEF Calls, WorldTyped
    <3>2. Proceed(s, IF Managed THEN "remove" ELSE "unchanged",
                  [call[s] EXCEPT !.read = record])
      BY <2>1 DEF CheckDelete
    <3>3. QED
      BY <1>2, <1>t, <2>1, <3>1, <3>2 DEF Managed, Calls
  <2>2. CASE kind # "sysctl"
    BY <1>2, <1>t, <2>2 DEF CheckDelete, GoTo
  <2>3. QED
    BY <2>1, <2>2
<1>4. Moved(s, label, c) /\ label \in Labels /\ pc[s] \notin Ended
  BY <1>1, <1>2, ProceedMoves DEF FInv, Labels, Ended
<1>5. /\ label \notin Ended => LabelOK(s)'
      /\ label \notin Ended => Knows(s)'
  BY <1>1, <1>2, <1>t, <1>4
     DEF Moved, FInv, FilesTypeOK, LabelOK, Knows, Managed, world, Ended
<1>6. causes' = {} => AgreesAt(label)'
  <2>1. causes' = {} => Agreement
    BY <1>2, <1>4, OfOne DEF AgreesAt, Midway
  <2>2. QED
    BY <1>1, <1>2, <2>1
       DEF AgreesAt, Agreement, RecordTrue, LoadedTrue, Managed, world, Midway
<1>7. WorldTyped' /\ CausesStep(s) /\ kind' = kind /\ disk' = disk
  BY <1>2, <1>t DEF WorldTyped, world, CausesStep
<1>8. QED
  BY <1>2, <1>4, <1>5, <1>6, <1>7, SlotStep

\* What comes after a removal, by provider.
LEMMA AfterRemoveKinds ==
  ASSUME kind \in Kinds
  PROVE  /\ AfterRemove \in {"recollect", "mark", "apply"}
         /\ AfterRemove = "recollect" <=> kind \in FileBased
         /\ AfterRemove = "mark" <=> kind = "sysctl"
         /\ AfterRemove = "apply" =>
              kind \in Loading \ FileBased /\ kind \notin Recording \ Netplan
         /\ FileBased \subseteq Recording /\ "sysctl" \in Recording
         /\ "sysctl" \notin FileBased \cup Netplan
         /\ FileBased \cap Netplan = {}
  BY DEF AfterRemove, Kinds, FileBased, Loading, Netplan, Recording

\* The file is gone, and if it was gone before, something went wrong before.
LEMMA RemoveStep ==
  ASSUME FInv, NEW s \in Slots, Remove(s) PROVE FInv'
<1>2. /\ pc[s] = "remove" /\ disk' = Absent
      /\ UNCHANGED <<kind, object, attrs, record, applied, mishaps, uploads>>
      /\ causes' = causes \/ causes' = IF spoiled[s] THEN causes ELSE {}
  BY DEF Remove
<1>k. /\ kind \in Kinds /\ LabelOK(s) /\ WorldTyped /\ (~spoiled[s] => Knows(s))
      /\ call[s].op = "delete" /\ call[s].want = Absent
  BY <1>2, OfOne DEF Ended, WorldTyped, LabelOK
<1>1. PICK label \in {"recollect", "mark", "apply", "mark only", "unchanged", "error"} :
        /\ GoTo(s, label)
        /\ \/ disk # Absent /\ label = AfterRemove
           \/ disk = Absent /\ label \in AlreadyGone(s) /\ causes' = causes
  <2>1. CASE disk # Absent
    BY <1>k, <2>1, AfterRemoveKinds DEF Remove
  <2>2. CASE disk = Absent
    BY <2>2 DEF Remove, AlreadyGone
  <2>3. QED
    BY <2>1, <2>2
<1>3. PICK c \in Calls : c = call[s]
  BY <1>2, OfOne DEF Ended
<1>4. Moved(s, label, c) /\ label \in Labels /\ pc[s] \notin Ended
  BY <1>1, <1>2, <1>3, GoToMoves DEF FInv, Labels, Ended
<1>5. /\ label = "recollect" => kind \in Recording /\ kind # "sysctl" /\ kind \notin Netplan
      /\ label = "mark" => kind = "sysctl"
      /\ label = "mark only" => kind = "sysctl" /\ disk = Absent /\ causes' = causes
      /\ label = "apply" => kind \in Loading \ FileBased /\ kind \notin Recording \ Netplan
      /\ label \in {"unchanged", "error"} => disk = Absent /\ causes' = causes
      /\ "sysctl" \in Recording /\ "sysctl" \notin Netplan
  BY <1>1, <1>k, AfterRemoveKinds DEF AlreadyGone
<1>6. pc'[s] = label /\ (label \notin Ended => call'[s] = c)
  BY <1>4 DEF Moved, FInv, FilesTypeOK
<1>7. /\ label \notin Ended => LabelOK(s)'
      /\ label \notin Ended => Knows(s)'
  BY <1>1, <1>2, <1>3, <1>5, <1>6, <1>k DEF LabelOK, Knows, Ended
<1>8. ~spoiled[s] /\ causes' = {} => AgreesAt(label)'
  <2>1. SUFFICES ASSUME ~spoiled[s], causes' = {} PROVE AgreesAt(label)'
    OBVIOUS
  <2>2. CASE label \in {"recollect", "mark", "apply"}
    BY <1>2, <1>5, <2>2 DEF AgreesAt, Midway
  <2>3. CASE label = "mark only"
    <3>1. causes = {} /\ kind = "sysctl" /\ disk = Absent
      BY <1>5, <2>1, <2>3
    <3>2. ~Managed
      BY <1>2, <1>4, <1>5, <3>1, OfOne DEF AgreesAt, Agreement, RecordTrue, Midway
    <3>3. Managed
      BY <1>2, <1>k, <2>1, <3>1 DEF Knows
    <3>4. QED
      BY <3>2, <3>3
  <2>4. CASE label \in {"unchanged", "error"}
    <3>1. causes = {} /\ disk = Absent
      BY <1>5, <2>1, <2>4
    <3>2. Agreement
      BY <1>2, <1>4, <3>1, OfOne DEF AgreesAt, Midway
    <3>3. QED
      BY <1>2, <2>4, <3>1, <3>2
         DEF AgreesAt, Agreement, RecordTrue, LoadedTrue, Managed, Midway
  <2>5. QED
    BY <1>1, <2>2, <2>3, <2>4
<1>9. WorldTyped' /\ CausesStep(s)
  BY <1>2, <1>k DEF WorldTyped, CausesStep, Contents
<1>10. disk' \notin Invalid
  BY <1>2, ManagedFilesAssumption
<1>11. QED
  BY <1>2, <1>4, <1>7, <1>8, <1>9, <1>10, SlotStep

\* What comes after the record of a removal, by provider.
LEMMA AfterMarkKinds ==
  ASSUME kind \in Recording, NEW s \in Slots
  PROVE  \E label \in {"apply", "changed", "unchanged"} :
           /\ AfterMark(s) = label
           /\ label = "apply" => kind \in Loading /\ kind \in Recording \ Netplan
           /\ label # "apply" =>
                kind \notin Loading \/ kind \in Netplan \/ pc[s] = "mark only"
  BY AfterRecordKinds DEF AfterMark

(***************************************************************************)
(* The last steps of a removal: the file is gone, and what the record says *)
(* afterwards, if nothing went wrong, is that it is not managed.           *)
(***************************************************************************)
LEMMA RecordedRemoval ==
  ASSUME FInv, NEW s \in Slots, pc[s] \in {"recollect", "mark", "mark only"},
         NEW label \in {"apply", "changed", "unchanged", "error"}, GoTo(s, label),
         UNCHANGED <<kind, object, disk, attrs, applied, uploads>>,
         record' \in Records, mishaps' \in 0..MaxMishaps,
         causes' = causes \/ causes' = causes \cup {"fault"},
         causes' = {} => ~Managed',
         label = "apply" => kind \in Loading /\ kind \in Recording \ Netplan,
         causes' = {} /\ label # "apply" =>
             kind \notin Loading \/ kind \in Netplan \/ pc[s] = "mark only"
  PROVE  FInv'
<1>2. pc[s] \notin Ended
  BY DEF Ended
<1>k. /\ LabelOK(s) /\ WorldTyped /\ (~spoiled[s] => Knows(s))
      /\ call[s].op = "delete" /\ call[s].want = Absent
  BY <1>2, OfOne DEF LabelOK
<1>3. PICK c \in Calls : c = call[s]
  BY <1>2, OfOne
<1>4. Moved(s, label, c) /\ label \in Labels
  BY <1>3, GoToMoves DEF FInv, Labels, Ended
<1>5. pc'[s] = label /\ (label \notin Ended => call'[s] = c)
  BY <1>4 DEF Moved, FInv, FilesTypeOK
<1>6. /\ label \notin Ended => LabelOK(s)'
      /\ label \notin Ended /\ ~spoiled[s] => Knows(s)'
  BY <1>3, <1>5, <1>k DEF LabelOK, Knows, Ended
<1>7. ~spoiled[s] /\ causes' = {} => AgreesAt(label)'
  <2>1. SUFFICES ASSUME ~spoiled[s], causes' = {} PROVE AgreesAt(label)'
    OBVIOUS
  <2>2. disk = Absent /\ causes = {} /\ pc[s] # "mark only"
    BY <1>2, <1>k, <2>1, OfOne DEF Knows, AgreesAt
  <2>3. RecordTrue' /\ (kind \in Netplan => LoadedTrue')
    BY <1>2, <2>1, <2>2, OfOne DEF AgreesAt, RecordTrue, LoadedTrue
  <2>4. QED
    BY <2>1, <2>2, <2>3 DEF AgreesAt, Agreement, Midway
<1>8. WorldTyped' /\ CausesStep(s)
  BY <1>k DEF WorldTyped, CausesStep
<1>9. QED
  BY <1>2, <1>4, <1>6, <1>7, <1>8, SlotStep

\* Without a record there is nothing to mark.
LEMMA RecollectStep ==
  ASSUME FInv, NEW s \in Slots, Recollect(s) PROVE FInv'
<1>1. pc[s] = "recollect" /\ UNCHANGED <<world, causes, mishaps, uploads>>
  BY DEF Recollect
<1>k. LabelOK(s) /\ WorldTyped /\ call[s] \in Calls /\ pc[s] \notin Ended
      /\ kind \in Recording
  BY <1>1, OfOne DEF Ended, LabelOK
<1>2. CASE record = NoRecord
  <2>1. PICK c \in Calls : c = [call[s] EXCEPT !.read = record]
    BY <1>k DEF Calls, WorldTyped
  <2>2. PICK label \in {"apply", "changed", "unchanged"} :
           /\ Proceed(s, label, c)
           /\ label = "apply" => kind \in Loading /\ kind \in Recording \ Netplan
           /\ label # "apply" =>
                kind \notin Loading \/ kind \in Netplan \/ pc[s] = "mark only"
    BY <1>2, <1>k, <2>1, AfterMarkKinds DEF Recollect
  <2>3. Moved(s, label, c) /\ label \in Labels
    BY <2>1, <2>2, ProceedMoves DEF FInv, Labels, Ended
  <2>4. pc'[s] = label /\ (label \notin Ended => call'[s] = c)
    BY <2>3 DEF Moved, FInv, FilesTypeOK
  <2>5. /\ label \notin Ended => LabelOK(s)'
        /\ label \notin Ended /\ ~spoiled[s] => Knows(s)'
    <3>1. call[s].op = "delete" /\ call[s].want = Absent /\ (~spoiled[s] => disk = Absent)
      BY <1>1, <1>k, OfOne DEF LabelOK, Knows
    <3>2. c.op = "delete" /\ c.want = Absent
      BY <1>k, <2>1, <3>1 DEF Calls
    <3>3. QED
      BY <1>1, <2>2, <2>4, <3>1, <3>2 DEF LabelOK, Knows, Ended, world
  <2>6. ~spoiled[s] /\ causes' = {} => AgreesAt(label)'
    <3>1. SUFFICES ASSUME ~spoiled[s], causes' = {} PROVE AgreesAt(label)'
      OBVIOUS
    <3>2. disk = Absent /\ (kind \in Netplan => LoadedTrue)
      BY <1>1, <1>k, <3>1, OfOne DEF Knows, AgreesAt
    <3>3. RecordTrue' /\ (kind \in Netplan => LoadedTrue')
      BY <1>1, <1>2, <3>2 DEF RecordTrue, LoadedTrue, Managed, world
    <3>4. QED
      BY <1>1, <2>2, <3>3 DEF AgreesAt, Agreement, Midway, world
  <2>7. WorldTyped' /\ CausesStep(s) /\ kind' = kind /\ disk' = disk
    BY <1>1, <1>k DEF WorldTyped, CausesStep, world
  <2>8. QED
    BY <1>1, <1>k, <2>3, <2>5, <2>6, <2>7, SlotStep
<1>3. CASE record # NoRecord
  <2>1. PICK c \in Calls : c = [call[s] EXCEPT !.read = record]
    BY <1>k DEF Calls, WorldTyped
  <2>2. PICK label \in {"mark"} : Proceed(s, label, c)
    BY <1>3, <2>1 DEF Recollect
  <2>3. Moved(s, label, c) /\ label \in Labels
    BY <2>1, <2>2, ProceedMoves DEF FInv, Labels, Ended
  <2>4. pc'[s] = label /\ call'[s] = c
    BY <2>2, <2>3 DEF Moved, FInv, FilesTypeOK, Ended
  <2>5. LabelOK(s)' /\ (~spoiled[s] => Knows(s)')
    <3>1. call[s].op = "delete" /\ call[s].want = Absent /\ (~spoiled[s] => disk = Absent)
      BY <1>1, <1>k, OfOne DEF LabelOK, Knows
    <3>2. c.op = "delete" /\ c.want = Absent /\ c.read # NoRecord
      BY <1>3, <1>k, <2>1, <3>1 DEF Calls
    <3>3. QED
      BY <1>1, <1>k, <2>2, <2>4, <3>1, <3>2 DEF LabelOK, Knows, world
  <2>6. ~spoiled[s] /\ causes' = {} => AgreesAt(label)'
    BY <1>1, <1>k, <2>2, OfOne DEF AgreesAt, LoadedTrue, Midway, world
  <2>7. WorldTyped' /\ CausesStep(s) /\ kind' = kind /\ disk' = disk
    BY <1>1, <1>k DEF WorldTyped, CausesStep, world
  <2>8. QED
    BY <1>1, <1>k, <2>3, <2>5, <2>6, <2>7, SlotStep
<1>4. QED
  BY <1>2, <1>3

\* What is marked is not managed.
LEMMA MarkedRecord ==
  ASSUME FInv, NEW s \in Slots, pc[s] \in {"mark", "mark only"}
  PROVE  /\ [call[s].read EXCEPT !.live = FALSE] \in Records
         /\ [call[s].read EXCEPT !.live = FALSE].live = FALSE
         /\ kind \in Recording
<1>1. call[s].read \in [content : Versions, live : BOOLEAN] /\ kind \in Recording
  BY OfOne DEF Ended, LabelOK, Calls, Records
<1>2. QED
  BY <1>1 DEF Records

\* Marking it.
LEMMA MarkStep ==
  ASSUME FInv, NEW s \in Slots, Mark(s) PROVE FInv'
<1>1. /\ pc[s] \in {"mark", "mark only"}
      /\ record' = [call[s].read EXCEPT !.live = FALSE]
      /\ UNCHANGED <<kind, object, disk, attrs, applied, causes, mishaps, uploads>>
  BY DEF Mark
<1>2. record' \in Records /\ ~Managed' /\ kind \in Recording
  BY <1>1, MarkedRecord DEF Managed
<1>3. mishaps' \in 0..MaxMishaps
  BY <1>1 DEF FInv, FilesTypeOK
<1>4. PICK label \in {"apply", "changed", "unchanged"} :
         /\ GoTo(s, label)
         /\ label = "apply" => kind \in Loading /\ kind \in Recording \ Netplan
         /\ label # "apply" =>
              kind \notin Loading \/ kind \in Netplan \/ pc[s] = "mark only"
  BY <1>2, AfterMarkKinds DEF Mark
<1>5. QED
  BY <1>1, <1>2, <1>3, <1>4, RecordedRemoval

-----------------------------------------------------------------------------
(***************************************************************************)
(* Failures.                                                               *)
(***************************************************************************)
\* Every failure is counted, and a cause where the file has been changed.
LEMMA FaultCounted ==
  ASSUME FInv, NEW s \in Slots, NEW label \in Labels \ Ended, Fails(s, label)
  PROVE  /\ pc[s] = label /\ pc[s] \notin Ended
         /\ mishaps' \in 0..MaxMishaps
         /\ UNCHANGED <<kind, object, disk, uploads>>
         /\ label \in Midway => causes' = causes \cup {"fault"}
         /\ label \notin Midway => causes' = causes
<1>1. mishaps \in 0..MaxMishaps /\ MaxMishaps \in Nat
  BY ManagedFilesAssumption DEF FInv, FilesTypeOK
<1>2. mishaps' \in 0..MaxMishaps
  BY <1>1 DEF Fails, Mishap
<1>3. QED
  BY <1>2 DEF Fails

\* An operation that ends without having touched file or record leaves the
\* copies as they are, mode and owner apart.
LEMMA FaultBeforehand ==
  ASSUME FInv, NEW s \in Slots,
         NEW l \in {"check", "fetch", "permit", "write", "own", "remove"}, Fails(s, l),
         NEW label \in {"unchanged", "error"}, Finish(s, label),
         attrs' \in Attributes, UNCHANGED <<record, applied>>
  PROVE  FInv'
<1>1. /\ pc[s] = l /\ pc[s] \notin Ended /\ mishaps' \in 0..MaxMishaps
      /\ UNCHANGED <<kind, object, disk, record, applied, uploads>>
      /\ l = "own" => causes' = causes \cup {"fault"}
      /\ l # "own" => causes' = causes
  <2>1. l \in Labels \ Ended /\ (l \in Midway <=> l = "own")
    BY DEF Labels, Ended, Midway
  <2>2. QED
    BY <2>1, FaultCounted
<1>2. PICK c \in Calls : c = call[s]
  BY <1>1, OfOne
<1>3. label \in Labels /\ label \in Ended
  BY DEF Labels, Ended
<1>4. Moved(s, label, c)
  BY <1>2, <1>3, FinishMoves DEF FInv
<1>5. causes' = {} => AgreesAt(label)'
  <2>1. causes' = {} => Agreement
    BY <1>1, OfOne DEF AgreesAt, Midway
  <2>2. QED
    BY <1>1, <2>1 DEF AgreesAt, Agreement, RecordTrue, LoadedTrue, Managed, Midway
<1>6. WorldTyped' /\ CausesStep(s)
  BY <1>1, OfOne DEF WorldTyped, CausesStep
<1>7. causes \subseteq causes' /\ pc[s] # "validate"
  BY <1>1
<1>8. QED
  BY <1>1, <1>3, <1>4, <1>5, <1>6, <1>7, SlotStep

\* What cannot be checked ends the operation.
LEMMA FailCheckStep ==
  ASSUME FInv, NEW s \in Slots, FailCheck(s) PROVE FInv'
<1>1. PICK label \in {"unchanged", "error"} : Finish(s, label)
  BY DEF FailCheck
<1>2. attrs' \in Attributes
  BY DEF FailCheck, FInv, FilesTypeOK
<1>3. QED
  BY <1>1, <1>2, FaultBeforehand DEF FailCheck

\* So does what cannot be fetched, written or removed.
LEMMA FailBeforeStep ==
  ASSUME FInv, NEW s \in Slots, FailBefore(s) PROVE FInv'
<1>1. PICK l \in {"fetch", "write", "remove"} : Fails(s, l)
  BY DEF FailBefore
<1>2. attrs' \in Attributes
  BY DEF FailBefore, FInv, FilesTypeOK
<1>3. QED
  BY <1>1, <1>2, FaultBeforehand DEF FailBefore

\* And so does an owner that cannot be set, which may be there all the same.
LEMMA FailPermitStep ==
  ASSUME FInv, NEW s \in Slots, FailPermit(s) PROVE FInv'
<1>1. PICK l \in {"permit", "own"} : Fails(s, l)
  BY DEF FailPermit
<1>2. call[s] \in Calls /\ attrs \in Attributes
  BY <1>1, OfOne DEF Fails, Ended, WorldTyped
<1>3. attrs' \in Attributes
  BY <1>2 DEF FailPermit, Calls
<1>4. QED
  BY <1>1, <1>3, FaultBeforehand DEF FailPermit

\* A fault on the way is a cause for whatever it leaves.
LEMMA FaultOnTheWay ==
  ASSUME FInv, NEW s \in Slots, pc[s] \in {"record", "apply"},
         NEW label \in {"changed", "error"}, GoTo(s, label),
         UNCHANGED <<kind, object, disk, attrs, uploads>>,
         record' \in Records, applied' \in Contents, mishaps' \in 0..MaxMishaps,
         causes' = causes \cup {"fault"}
  PROVE  FInv'
<1>1. pc[s] \notin Ended
  BY DEF Ended
<1>2. PICK c \in Calls : c = call[s]
  BY <1>1, OfOne
<1>3. Moved(s, label, c) /\ label \in Labels /\ label \in Ended
  BY <1>2, GoToMoves DEF FInv, Labels, Ended
<1>4. WorldTyped' /\ CausesStep(s) /\ causes' # {}
  BY <1>1, OfOne DEF WorldTyped, CausesStep
<1>5. QED
  BY <1>1, <1>3, <1>4, SlotStep

\* The record may be there all the same.
LEMMA FailRecordStep ==
  ASSUME FInv, NEW s \in Slots, FailRecord(s) PROVE FInv'
<1>1. /\ pc[s] = "record" /\ mishaps' \in 0..MaxMishaps
      /\ UNCHANGED <<kind, object, disk, attrs, uploads>>
      /\ causes' = causes \cup {"fault"}
  <2>1. "record" \in Labels \ Ended /\ "record" \in Midway
    BY DEF Labels, Ended, Midway
  <2>2. QED
    BY <2>1, FaultCounted DEF FailRecord
<1>2. LabelOK(s) /\ WorldTyped
  BY <1>1, OfOne DEF Ended
<1>3. record' \in Records /\ applied' \in Contents
  <2>1. Recorded(call[s].want) \in Records
    BY <1>1, <1>2 DEF LabelOK, Records, Recorded
  <2>2. QED
    BY <1>2, <2>1 DEF FailRecord, WorldTyped
<1>4. PICK label \in {"error"} : GoTo(s, label)
  BY DEF FailRecord, GoTo, Proceed, Ended
<1>5. QED
  BY <1>1, <1>3, <1>4, FaultOnTheWay

\* So may what was to be loaded; the operation goes on, or ends.
LEMMA FailApplyStep ==
  ASSUME FInv, NEW s \in Slots, FailApply(s) PROVE FInv'
<1>1. /\ pc[s] = "apply" /\ mishaps' \in 0..MaxMishaps
      /\ UNCHANGED <<kind, object, disk, attrs, uploads>>
      /\ causes' = causes \cup {"fault"}
  <2>1. "apply" \in Labels \ Ended /\ "apply" \in Midway
    BY DEF Labels, Ended, Midway
  <2>2. QED
    BY <2>1, FaultCounted DEF FailApply
<1>2. WorldTyped
  BY <1>1, OfOne DEF Ended
<1>3. record' \in Records /\ applied' \in Contents
  BY <1>2 DEF FailApply, WorldTyped, Loaded
<1>4. PICK label \in {"changed", "error"} : GoTo(s, label)
  <2>1. kind \in {"sysctl", "ntp"} => AfterApply(s) = "changed"
    BY AfterApplyKinds DEF Netplan
  <2>2. QED
    BY <2>1 DEF FailApply
<1>5. QED
  BY <1>1, <1>3, <1>4, FaultOnTheWay

\* A record that cannot be read stays unmarked.
LEMMA FailRecollectStep ==
  ASSUME FInv, NEW s \in Slots, FailRecollect(s) PROVE FInv'
<1>1. /\ pc[s] = "recollect" /\ mishaps' \in 0..MaxMishaps
      /\ UNCHANGED <<kind, object, disk, attrs, record, applied, uploads>>
      /\ causes' = causes \cup {"fault"}
  <2>1. "recollect" \in Labels \ Ended /\ "recollect" \in Midway
    BY DEF Labels, Ended, Midway
  <2>2. QED
    BY <2>1, FaultCounted DEF FailRecollect
<1>2. kind \in Recording /\ record' \in Records
  BY <1>1, OfOne DEF Ended, LabelOK, WorldTyped
<1>3. PICK label \in {"apply", "changed", "unchanged"} :
         /\ GoTo(s, label)
         /\ label = "apply" => kind \in Loading /\ kind \in Recording \ Netplan
  BY <1>2, AfterMarkKinds DEF FailRecollect
<1>4. QED
  BY <1>1, <1>2, <1>3, RecordedRemoval

\* And so may one that cannot be written.
LEMMA FailMarkStep ==
  ASSUME FInv, NEW s \in Slots, FailMark(s) PROVE FInv'
<1>1. /\ pc[s] \in {"mark", "mark only"} /\ mishaps' \in 0..MaxMishaps
      /\ UNCHANGED <<kind, object, disk, attrs, applied, uploads>>
      /\ causes' = causes \cup {"fault"}
  <2>1. /\ {"mark", "mark only"} \subseteq Labels \ Ended
        /\ {"mark", "mark only"} \subseteq Midway
    BY DEF Labels, Ended, Midway
  <2>2. QED
    BY <2>1, FaultCounted DEF FailMark
<1>2. kind \in Recording /\ record' \in Records
  BY <1>1, MarkedRecord DEF FailMark, FInv, FilesTypeOK
<1>3. PICK label \in {"apply", "changed", "unchanged", "error"} :
         /\ GoTo(s, label)
         /\ label = "apply" => kind \in Loading /\ kind \in Recording \ Netplan
  BY <1>2, AfterMarkKinds DEF FailMark
<1>4. QED
  BY <1>1, <1>2, <1>3, RecordedRemoval

-----------------------------------------------------------------------------
(***************************************************************************)
(* Around the operations.                                                  *)
(***************************************************************************)
\* An upload changes only the object.
LEMMA UploadStep ==
  ASSUME FInv, Upload PROVE FInv'
<1>1. /\ UNCHANGED <<kind, disk, attrs, record, applied, pc, call, spoiled, causes,
                      mishaps>>
      /\ object' \in Contents
  BY DEF Upload
<1>2. FilesTypeOK'
  <2>1. uploads \in 0..MaxUploads /\ MaxUploads \in Nat
    BY ManagedFilesAssumption DEF FInv, FilesTypeOK
  <2>2. uploads' \in 0..MaxUploads
    BY <2>1 DEF Upload
  <2>3. QED
    BY <1>1, <2>2 DEF FInv, FilesTypeOK
<1>3. LabelsOK' /\ Alone' /\ SpoiledHasCause'
  BY <1>1 DEF FInv, LabelsOK, LabelOK, Alone, SpoiledHasCause, Active
<1>4. Knowledge'
  BY <1>1 DEF FInv, Knowledge, Knows, Active, Managed
<1>5. Agreed'
  BY <1>1
     DEF FInv, Agreed, AgreesAt, Agreement, RecordTrue, LoadedTrue, Managed, Quiet, Active
<1>6. OnlyValidatedStay'
  BY <1>1 DEF FInv, OnlyValidatedStay
<1>7. QED
  BY <1>2, <1>3, <1>4, <1>5, <1>6 DEF FInv

\* An edit is a cause, for the file and for the operations under way.
LEMMA EditStep ==
  ASSUME FInv, Edit PROVE FInv'
<1>1. /\ UNCHANGED <<kind, object, record, applied, pc, call, uploads>>
      /\ disk' \in Contents /\ attrs' \in Attributes
      /\ causes' = causes \cup {"edit"}
      /\ spoiled' = [s \in Slots |-> spoiled[s] \/ s \in Active]
  BY DEF Edit
<1>2. FilesTypeOK'
  <2>1. mishaps \in 0..MaxMishaps /\ MaxMishaps \in Nat
    BY ManagedFilesAssumption DEF FInv, FilesTypeOK
  <2>2. mishaps' \in 0..MaxMishaps
    BY <2>1 DEF Edit, Mishap
  <2>3. QED
    BY <1>1, <2>2 DEF FInv, FilesTypeOK
<1>3. Active' = Active /\ \A s \in Slots : s \in Active => spoiled'[s]
  BY <1>1 DEF Active
<1>4. LabelsOK'
  BY <1>1 DEF FInv, LabelsOK, LabelOK
<1>5. Alone' /\ SpoiledHasCause' /\ Knowledge' /\ Agreed' /\ OnlyValidatedStay'
  BY <1>1, <1>3 DEF Alone, SpoiledHasCause, Knowledge, Agreed, OnlyValidatedStay
<1>6. QED
  BY <1>2, <1>4, <1>5 DEF FInv

\* A death of the agent is a cause when an operation was on the way.
LEMMA CrashStep ==
  ASSUME FInv, Crash PROVE FInv'
<1>1. /\ UNCHANGED <<world, uploads>>
      /\ causes' = causes \cup {c \in {"crash"} : \E s \in Slots : pc[s] \in Midway}
      /\ pc' = [s \in Slots |-> "idle"] /\ call' = [s \in Slots |-> NoCall]
      /\ spoiled' = [s \in Slots |-> FALSE]
  BY DEF Crash
<1>2. FilesTypeOK'
  <2>1. mishaps \in 0..MaxMishaps /\ MaxMishaps \in Nat
    BY ManagedFilesAssumption DEF FInv, FilesTypeOK
  <2>2. mishaps' \in 0..MaxMishaps
    BY <2>1 DEF Crash, Mishap
  <2>3. "idle" \in Labels
    BY DEF Labels, Ended
  <2>4. QED
    BY <1>1, <2>2, <2>3, CallsAndLabels DEF FInv, FilesTypeOK, world
<1>3. Active' = {}
  BY <1>1 DEF Active, Ended
<1>4. LabelsOK'
  <2>1. ASSUME NEW s \in Slots PROVE LabelOK(s)'
    <3>1. pc'[s] = "idle" /\ call'[s].op = "create"
      BY <1>1 DEF NoCall
    <3>2. QED
      BY <3>1 DEF LabelOK, Ended
  <2>2. QED
    BY <2>1 DEF LabelsOK
<1>5. Agreed'
  <2>1. SUFFICES ASSUME causes' = {} PROVE Agreement'
    BY <1>3 DEF Agreed
  <2>2. causes = {} /\ \A s \in Slots : pc[s] \notin Midway
    BY <1>1, <2>1
  <2>3. Agreement
    BY <2>2 DEF FInv, Agreed, AgreesAt, Quiet, Active
  <2>4. QED
    BY <1>1, <2>3 DEF Agreement, RecordTrue, LoadedTrue, Managed, world
<1>6. OnlyValidatedStay'
  <2>1. (\E s \in Slots : pc[s] = "validate") => "crash" \in causes'
    BY <1>1 DEF Midway
  <2>2. QED
    BY <1>1, <2>1 DEF FInv, OnlyValidatedStay, world
<1>7. QED
  BY <1>2, <1>3, <1>4, <1>5, <1>6 DEF FInv, Alone, SpoiledHasCause, Knowledge

\* An operation that starts beside another spoils both, and is a cause.
LEMMA StartStep ==
  ASSUME FInv, NEW s \in Slots, Start(s) PROVE FInv'
<1>1. /\ s \notin Active /\ UNCHANGED <<world, mishaps, uploads>>
      /\ pc' = [pc EXCEPT ![s] = "check"]
      /\ spoiled' = [t \in Slots |-> IF t = s THEN ~Quiet
                                              ELSE spoiled[t] \/ t \in Active]
      /\ causes' = causes \cup {c \in {"overlap"} : ~Quiet}
  BY DEF Start
<1>2. PICK c \in Requests : call' = [call EXCEPT ![s] = c]
  BY DEF Start
<1>3. /\ c \in Calls /\ (c.op = "delete" => c.want = Absent)
      /\ c.op # "delete" /\ kind \notin FileBased => c.want \in Versions
      /\ c.op # "delete" /\ kind \in FileBased \ {"file"} => c.asked = "fresh"
  BY <1>2 DEF Requests, Calls, Contents
<1>4. /\ pc'[s] = "check" /\ call'[s] = c
      /\ \A t \in Slots \ {s} : pc'[t] = pc[t] /\ call'[t] = call[t]
  BY <1>1, <1>2 DEF FInv, FilesTypeOK
<1>5. Active' = Active \cup {s}
  BY <1>4 DEF Active, Ended
<1>6. FilesTypeOK'
  <2>1. "check" \in Labels
    BY DEF Labels
  <2>2. QED
    BY <1>1, <1>2, <1>3, <2>1 DEF FInv, FilesTypeOK, world
<1>7. LabelsOK'
  <2>1. LabelOK(s)'
    BY <1>1, <1>3, <1>4 DEF LabelOK, world
  <2>2. ASSUME NEW t \in Slots \ {s} PROVE LabelOK(t)'
    BY <1>1, <1>4, <2>2 DEF FInv, LabelsOK, LabelOK, world
  <2>3. QED
    BY <2>1, <2>2 DEF LabelsOK
<1>8. /\ ~Quiet => \A t \in Slots : t \in Active' => spoiled'[t]
      /\ Quiet => Active' = {s} /\ ~spoiled'[s]
  BY <1>1, <1>5 DEF Quiet
<1>9. Alone' /\ SpoiledHasCause'
  BY <1>1, <1>8 DEF Alone, SpoiledHasCause
<1>10. Knowledge'
  BY <1>4, <1>8 DEF Knowledge, Knows
<1>11. Agreed'
  <2>1. SUFFICES ASSUME causes' = {} PROVE Agreed'
    BY DEF Agreed
  <2>2. Quiet /\ Agreement
    BY <1>1, <2>1 DEF FInv, Agreed
  <2>3. Agreement'
    BY <1>1, <2>2 DEF Agreement, RecordTrue, LoadedTrue, Managed, world
  <2>4. QED
    BY <1>4, <1>8, <2>2, <2>3 DEF Agreed, AgreesAt, Midway
<1>12. OnlyValidatedStay'
  <2>1. \A t \in Slots : pc[t] = "validate" => pc'[t] = "validate"
    BY <1>1, <1>4 DEF Active, Ended
  <2>2. QED
    BY <1>1, <2>1 DEF FInv, OnlyValidatedStay, world
<1>13. QED
  BY <1>6, <1>7, <1>9, <1>10, <1>11, <1>12 DEF FInv

-----------------------------------------------------------------------------
(***************************************************************************)
(* The invariants.                                                         *)
(***************************************************************************)
\* A file that nobody manages counts as edited.
LEMMA InitFInv == Init => FInv
<1> SUFFICES ASSUME Init PROVE FInv
  OBVIOUS
<1>1. FilesTypeOK
  <2>1. 0 \in 0..MaxMishaps /\ 0 \in 0..MaxUploads
    BY ManagedFilesAssumption
  <2>2. "idle" \in Labels
    BY DEF Labels, Ended
  <2>3. QED
    BY <2>1, <2>2, CallsAndLabels DEF Init, FilesTypeOK, Contents, Records
<1>2. Active = {}
  BY DEF Init, Active, Ended
<1>3. LabelsOK
  BY DEF Init, LabelsOK, LabelOK, NoCall, Ended
<1>4. Agreed
  BY <1>2 DEF Init, Agreed, Agreement, RecordTrue, LoadedTrue, Managed
<1>5. OnlyValidatedStay
  BY ManagedFilesAssumption DEF Init, OnlyValidatedStay
<1>6. QED
  BY <1>1, <1>2, <1>3, <1>4, <1>5 DEF FInv, Alone, SpoiledHasCause, Knowledge

\* Every step keeps the invariant.
LEMMA StepFInv == FInv /\ [Next]_vars => FInv'
<1> SUFFICES ASSUME FInv, [Next]_vars PROVE FInv'
  OBVIOUS
<1>1. CASE UNCHANGED vars
  BY <1>1
     DEF vars, world, FInv, FilesTypeOK, LabelsOK, LabelOK, Alone, SpoiledHasCause, Active,
         Knowledge, Knows, Agreed, AgreesAt, Agreement, RecordTrue, LoadedTrue, Managed,
         OnlyValidatedStay, Quiet
<1>2. CASE Upload \/ Edit \/ Crash
  BY <1>2, UploadStep, EditStep, CrashStep
<1>3. ASSUME NEW s \in Slots, Start(s) \/ Apply(s)
      PROVE  FInv'
  BY <1>3, StartStep, ApplyStep
<1>4. ASSUME NEW s \in Slots, Deploy(s)
      PROVE  FInv'
  BY <1>4, CheckDeployStep, FetchStep, CompareStep, PermitStep, WriteStep, OwnStep,
     ValidateStep, RecordStep DEF Deploy
<1>5. ASSUME NEW s \in Slots, Undeploy(s)
      PROVE  FInv'
  BY <1>5, CheckDeleteStep, RemoveStep, RecollectStep, MarkStep DEF Undeploy
<1>6. ASSUME NEW s \in Slots, Failure(s)
      PROVE  FInv'
  BY <1>6, FailCheckStep, FailBeforeStep, FailPermitStep, FailRecordStep, FailApplyStep,
     FailRecollectStep, FailMarkStep DEF Failure
<1>7. QED
  BY <1>1, <1>2, <1>3, <1>4, <1>5, <1>6 DEF Next

\* The invariant of a managed file, with what each operation knows.
THEOREM FilesInvariance == Spec => []FInv
<1>1. QED
  BY InitFInv, StepFInv, PTL DEF Spec

\* Every variable keeps its type.
THEOREM FilesTypeCorrectness == Spec => []FilesTypeOK
<1>1. FInv => FilesTypeOK
  BY DEF FInv
<1>2. QED
  BY <1>1, FilesInvariance, PTL

(***************************************************************************)
(* Between operations the disk, the record and the running system agree    *)
(* unless something went wrong since the file was last rewritten.          *)
(***************************************************************************)
THEOREM CopiesAgree == Spec => []AgreementUnlessCause
<1>1. FInv => AgreementUnlessCause
  BY DEF FInv, Agreed, Agreement, AgreementUnlessCause
<1>2. QED
  BY <1>1, FilesInvariance, PTL

\* A configuration netplan refuses does not stay in its directory.
THEOREM RefusedConfigsGo == Spec => []InvalidConfigHasCause
<1>1. FInv => InvalidConfigHasCause
  <2>1. SUFFICES ASSUME FInv, kind \in Netplan, Quiet, disk \in Invalid,
                        causes \ {"rejected"} = {}
                 PROVE  FALSE
    BY DEF InvalidConfigHasCause
  <2>2. \E s \in Slots : pc[s] = "validate"
    BY <2>1 DEF FInv, OnlyValidatedStay
  <2>3. QED
    BY <2>1, <2>2 DEF Quiet, Active, Ended
<1>2. QED
  BY <1>1, FilesInvariance, PTL

\* The list of stale deployments errs only where a read failed, and over files of no object.
THEOREM StaleListErrs == Spec => []StaleListErrsForCause
<1>1. FInv => StaleListErrsForCause
  <2>1. SUFFICES ASSUME FInv, Quiet, causes = {},
                        NEW recordRead \in BOOLEAN, NEW objectRead \in BOOLEAN
                 PROVE  LET listed == Listed(recordRead, objectRead) IN
                        /\ kind \in FileBased /\ Outdated /\ ~listed => ~recordRead
                        /\ kind \in FileBased /\ listed /\ ~Outdated => ~objectRead
                        /\ kind \in Recording /\ listed => disk # Absent
                        /\ kind \in Recording \ FileBased /\ disk # Absent
                               => listed \/ ~recordRead
    BY DEF StaleListErrsForCause
  <2>2. CASE kind \notin Recording
    BY <2>2 DEF FileBased, Recording, Kinds
  <2>3. CASE kind \in Recording
    <3>1. RecordTrue
      BY <2>1, <2>3 DEF FInv, Agreed, Agreement
    <3>2. CASE disk = Absent
      BY <3>1, <3>2 DEF Listed, Outdated, RecordTrue
    <3>3. CASE disk # Absent
      <4>1. record = Recorded(disk) /\ disk \in Versions
        BY <2>1, <3>1, <3>3 DEF RecordTrue, FInv, FilesTypeOK, Contents
      <4>2. Recorded(disk) # NoRecord /\ Recorded(disk).live /\ Recorded(disk).content = disk
        <5>1. Recorded(disk) \in [content : Versions, live : BOOLEAN]
          BY <4>1 DEF Recorded
        <5>2. QED
          BY <5>1, ManagedFilesAssumption DEF Recorded
      <4>3. Managed /\ record.content = disk
        BY <4>1, <4>2 DEF Managed
      <4>4. Listed(recordRead, objectRead) <=>
                recordRead /\ disk # IF kind \in FileBased /\ objectRead THEN object ELSE Absent
        BY <4>3 DEF Listed
      <4>5. QED
        BY <3>3, <4>4 DEF Outdated
    <3>4. QED
      BY <3>2, <3>3
  <2>4. QED
    BY <2>2, <2>3
<1>2. QED
  BY <1>1, FilesInvariance, PTL

-----------------------------------------------------------------------------
(***************************************************************************)
(* What an operation reports.                                              *)
(***************************************************************************)
\* Where an operation goes when another one steps: nowhere.
LEMMA OthersStay ==
  ASSUME FilesTypeOK, NEW s \in Slots, NEW t \in Slots, s # t,
         Start(t) \/ Apply(t) \/ Deploy(t) \/ Undeploy(t) \/ Failure(t)
  PROVE  pc'[s] = pc[s]
<1>1. ASSUME NEW label, NEW c, Moved(t, label, c) PROVE pc'[s] = pc[s]
  BY <1>1 DEF Moved, FilesTypeOK
<1>2. ASSUME NEW label, NEW c, Proceed(t, label, c) PROVE pc'[s] = pc[s]
  BY <1>1, <1>2, ProceedMoves
<1>3. ASSUME NEW label, GoTo(t, label) PROVE pc'[s] = pc[s]
  BY <1>2, <1>3 DEF GoTo
<1>4. ASSUME NEW label, Finish(t, label) PROVE pc'[s] = pc[s]
  BY <1>4 DEF Finish, FilesTypeOK
<1>5. Start(t) => pc'[s] = pc[s]
  BY DEF Start, FilesTypeOK
<1>6. Deploy(t) \/ Apply(t) => pc'[s] = pc[s]
  BY <1>2, <1>3, <1>4
     DEF Deploy, Apply, CheckDeploy, Fetch, Compare, Permit, Write, Own, Validate, Rollback,
         Record
<1>7. Undeploy(t) => pc'[s] = pc[s]
  BY <1>2, <1>3 DEF Undeploy, CheckDelete, Remove, Recollect, Mark
<1>8. Failure(t) => pc'[s] = pc[s]
  BY <1>3, <1>4
     DEF Failure, FailCheck, FailBefore, FailPermit, FailRecord, FailApply, FailRecollect,
         FailMark
<1>9. QED
  BY <1>5, <1>6, <1>7, <1>8

\* The last steps of a deploy and of a removal, by what is known by then.
LEMMA KnownAtTheEnd ==
  ASSUME FInv, NEW s \in Slots, ~spoiled[s], disk' = disk, attrs' = attrs, kind' = kind,
         pc[s] \in {"record", "apply", "recollect", "mark", "mark only"}
  PROVE  AsAsked(s)
  BY OfOne DEF Ended, LabelOK, Knows, AsAsked

\* One step that ends an operation well.
LEMMA SuccessStep ==
  ASSUME FInv, NEW s \in Slots, s \in Active, ~spoiled[s],
         pc'[s] \in {"changed", "unchanged"}, Next
  PROVE  AsAsked(s) \/ LeftAlone(s)
<1> DEFINE Good == AsAsked(s) \/ LeftAlone(s)
<1> SUFFICES Good
  OBVIOUS
<1>a. pc[s] \notin Ended /\ LabelOK(s) /\ Knows(s) /\ (causes = {} => AgreesAt(pc[s]))
      /\ FilesTypeOK
  BY OfOne DEF Active, FInv
<1>m. ASSUME NEW label, NEW c, Moved(s, label, c) PROVE label = pc'[s]
  BY <1>a, <1>m DEF Moved, FilesTypeOK
<1>p. ASSUME NEW label, NEW c, Proceed(s, label, c) PROVE label = pc'[s]
  BY <1>a, <1>m, <1>p, ProceedMoves
<1>g. ASSUME NEW label, GoTo(s, label) PROVE label = pc'[s]
  BY <1>p, <1>g DEF GoTo
<1>f. ASSUME NEW label, Finish(s, label) PROVE label = pc'[s]
  BY <1>a, <1>f DEF Finish, FilesTypeOK
<1>1. PICK t \in Slots : Start(t) \/ Apply(t) \/ Deploy(t) \/ Undeploy(t) \/ Failure(t)
  <2>1. ~Upload /\ ~Edit
    BY <1>a DEF Upload, Edit, Ended
  <2>2. ~Crash
    BY DEF Crash
  <2>3. QED
    BY <2>1, <2>2 DEF Next
<1>2. t = s
  BY <1>1, <1>a, OthersStay DEF Ended
<1>3. ~Start(s)
  BY DEF Start
<1>4. CheckDeploy(s) => Good
  <2>1. SUFFICES ASSUME CheckDeploy(s) PROVE Good
    OBVIOUS
  <2>2. InTheWay(s) /\ pc[s] = "check"
    BY <1>g, <2>1 DEF CheckDeploy
  <2>3. QED
    BY <2>2 DEF InTheWay, LeftAlone
<1>5. ~Fetch(s) /\ ~Write(s) /\ ~Own(s)
  BY <1>p, <1>g DEF Fetch, Write, Own, AfterWrite
<1>6. Compare(s) => Good
  BY <1>g DEF Compare, AsAsked, world
<1>7. Permit(s) => Good
  <2>1. SUFFICES ASSUME Permit(s) PROVE Good
    OBVIOUS
  <2>2. disk = call[s].want /\ disk # Absent /\ call[s].op # "delete"
    BY <1>a, <2>1, ManagedFilesAssumption DEF Permit, LabelOK, Knows
  <2>3. call[s].asked \in {Unset, attrs} /\ attrs' = attrs /\ disk' = disk
    BY <1>g, <2>1, <2>2 DEF Permit
  <2>4. QED
    BY <2>2, <2>3 DEF AsAsked
<1>8. ~Validate(s)
  BY <1>g, <1>f DEF Validate, Rollback
<1>9. Record(s) \/ Apply(s) => Good
  BY KnownAtTheEnd DEF Record, Apply
<1>10. CheckDelete(s) => Good
  <2>1. SUFFICES ASSUME CheckDelete(s) PROVE Good
    OBVIOUS
  <2>2. pc[s] = "check" /\ call[s].op = "delete" /\ call[s].want = Absent /\ disk' = disk
    BY <1>a, <2>1 DEF CheckDelete, LabelOK, world
  <2>3. CASE kind = "sysctl"
    <3>1. ~Managed
      BY <1>p, <2>1, <2>3 DEF CheckDelete
    <3>2. causes = {} => disk = Absent
      <4>1. causes = {} => RecordTrue
        BY <1>a, <2>2, <2>3 DEF AgreesAt, Agreement, Midway, Recording, Kinds
      <4>2. disk # Absent /\ RecordTrue => Managed
        <5>1. SUFFICES ASSUME disk # Absent, RecordTrue PROVE Managed
          OBVIOUS
        <5>2. record = Recorded(disk) /\ disk \in Versions
          BY <1>a, <5>1 DEF RecordTrue, FilesTypeOK, Contents
        <5>3. record \in [content : Versions, live : BOOLEAN] /\ record.live
          BY <5>2 DEF Recorded
        <5>4. QED
          BY <5>3, ManagedFilesAssumption DEF Managed
      <4>3. QED
        BY <3>1, <4>1, <4>2
    <3>3. QED
      BY <2>2, <2>3, <3>2 DEF AsAsked, LeftAlone
  <2>4. CASE kind # "sysctl"
    <3>1. disk = Absent
      BY <1>g, <2>1, <2>4 DEF CheckDelete
    <3>2. QED
      BY <2>2, <3>1 DEF AsAsked
  <2>5. QED
    BY <2>3, <2>4
<1>11. Remove(s) => Good
  <2>1. SUFFICES ASSUME Remove(s) PROVE Good
    OBVIOUS
  <2>2. disk' = Absent /\ call[s].op = "delete" /\ call[s].want = Absent
    BY <1>a, <2>1 DEF Remove, LabelOK
  <2>3. QED
    BY <2>2 DEF AsAsked
<1>12. Recollect(s) \/ Mark(s) => Good
  BY KnownAtTheEnd DEF Recollect, Mark, world
<1>13. Failure(s) => Good
  <2>1. ~FailBefore(s) /\ ~FailPermit(s) /\ ~FailRecord(s)
    BY <1>f DEF FailBefore, FailPermit, FailRecord
  <2>2. FailCheck(s) => Good
    <3>1. SUFFICES ASSUME FailCheck(s) PROVE Good
      OBVIOUS
    <3>2. call[s].op = "delete" /\ pc[s] = "check"
      BY <1>f, <3>1 DEF FailCheck, Fails
    <3>3. kind = "sysctl" /\ mishaps' = mishaps + 1
      BY <3>1, <3>2 DEF FailCheck, Fails, Mishap
    <3>4. mishaps \in Nat
      BY <1>a DEF FilesTypeOK
    <3>5. QED
      BY <3>2, <3>3, <3>4 DEF LeftAlone
  <2>3. FailApply(s) \/ FailRecollect(s) \/ FailMark(s) => Good
    BY KnownAtTheEnd DEF FailApply, FailRecollect, FailMark, Fails
  <2>4. QED
    BY <2>1, <2>2, <2>3 DEF Failure
<1>14. QED
  BY <1>1, <1>2, <1>3, <1>4, <1>5, <1>6, <1>7, <1>8, <1>9, <1>10, <1>11, <1>12, <1>13
     DEF Deploy, Undeploy

\* What an operation reports is true of the file, unless it overlapped another.
THEOREM ReportsAreTrue == Spec => SuccessIsTrue
<1>1. ASSUME FInv, [Next]_vars
      PROVE  \A s \in Slots :
               /\ s \in Active /\ ~spoiled[s] /\ pc'[s] \in {"changed", "unchanged"}
               => AsAsked(s) \/ LeftAlone(s)
  <2>1. SUFFICES ASSUME NEW s \in Slots, s \in Active, ~spoiled[s],
                        pc'[s] \in {"changed", "unchanged"}
                 PROVE  AsAsked(s) \/ LeftAlone(s)
    OBVIOUS
  <2>2. Next
    BY <1>1, <2>1 DEF vars, Active, Ended
  <2>3. QED
    BY <1>1, <2>1, <2>2, SuccessStep
<1>2. FInv /\ [Next]_vars =>
        [\A s \in Slots :
           /\ s \in Active /\ ~spoiled[s]
           /\ pc'[s] \in {"changed", "unchanged"}
           => AsAsked(s) \/ LeftAlone(s)]_vars
  BY <1>1
<1>3. QED
  BY <1>2, FilesInvariance, PTL DEF Spec, SuccessIsTrue

-----------------------------------------------------------------------------
(***************************************************************************)
(* What a deploy mends.                                                    *)
(***************************************************************************)
\* A deploy that reports a change leaves file, record and running system as it
\* was asked, whatever had gone wrong before; that sysctl or chronyc could not
\* load the file is only logged.
DeployMends(s) ==
    /\ disk' = call[s].want
    /\ kind \in Recording => record' = Recorded(call[s].want)
    /\ kind \in Loading => \/ applied' = call[s].want
                           \/ kind \in {"sysctl", "ntp"} /\ mishaps' > mishaps

ChangesMend ==
    [][\A s \in Slots :
          /\ s \in Active /\ ~spoiled[s]
          /\ call[s].op # "delete" /\ pc'[s] = "changed"
          => DeployMends(s)]_vars

\* What a deploy has put right before its last step: netplan loads first.
MendedAt(s) ==
    /\ pc[s] = "apply" /\ kind \in Recording \ Netplan => record = Recorded(call[s].want)
    /\ pc[s] = "record" /\ kind \in Netplan => applied = call[s].want

Mended ==
    \A s \in Slots : s \in Active /\ ~spoiled[s] /\ call[s].op # "delete" => MendedAt(s)

\* A deploy goes on to its last step from the last but one.
LEMMA MendingStep ==
  ASSUME FInv, NEW s \in Slots, Deploy(s) \/ Apply(s) \/ Undeploy(s) \/ Failure(s),
         pc[s] \notin Ended, ~spoiled[s], call[s].op # "delete",
         pc'[s] \in {"apply", "record"}
  PROVE  MendedAt(s)'
<1>a. LabelOK(s) /\ Knows(s) /\ kind \in Kinds /\ FilesTypeOK
  BY OfOne DEF Active, FInv, FilesTypeOK
<1>m. ASSUME NEW label, NEW c, Moved(s, label, c)
      PROVE  label = pc'[s] /\ (label \notin Ended => call'[s] = c)
  BY <1>a, <1>m DEF Moved, FilesTypeOK
<1>g. ASSUME NEW label, GoTo(s, label)
      PROVE  label = pc'[s] /\ (label \notin Ended => call'[s] = call[s])
  BY <1>a, <1>m, <1>g, GoToMoves
<1>p. ASSUME NEW label, NEW c, Proceed(s, label, c) PROVE label = pc'[s]
  BY <1>a, <1>m, <1>p, ProceedMoves
<1>f. ASSUME NEW label, Finish(s, label) PROVE label = pc'[s]
  BY <1>a, <1>f DEF Finish, FilesTypeOK
<1>1. CASE Write(s)
  <2>1. pc'[s] = AfterWrite /\ kind' = kind
    BY <1>1, <1>g DEF Write
  <2>2. AfterWrite = "apply" => kind \notin Recording \ Netplan
    BY <1>a DEF AfterWrite, FileBased, Netplan, Recording, Kinds
  <2>3. AfterWrite = "record" => kind \notin Netplan
    BY <1>a DEF AfterWrite, FileBased, Netplan, Recording, Kinds
  <2>4. QED
    BY <2>1, <2>2, <2>3 DEF MendedAt
<1>2. CASE Permit(s) \/ Own(s)
  <2>1. kind \in FileBased /\ kind' = kind
    BY <1>2, <1>a DEF Permit, Own, LabelOK
  <2>2. pc'[s] # "apply"
    BY <1>2, <1>g DEF Permit, Own
  <2>3. QED
    BY <2>1, <2>2 DEF MendedAt, FileBased, Netplan
<1>3. CASE Validate(s)
  <2>1. kind \in Netplan /\ kind' = kind /\ pc'[s] # "record"
    BY <1>3, <1>a, <1>g, <1>f DEF Validate, Rollback, LabelOK
  <2>2. QED
    BY <2>1 DEF MendedAt
<1>4. CASE Record(s)
  <2>1. pc'[s] = AfterRecord /\ record' = Recorded(call[s].want)
    BY <1>4, <1>g DEF Record
  <2>2. pc'[s] = "apply" /\ call'[s] = call[s]
    BY <1>4, <1>g, <2>1 DEF Record, AfterRecord, Ended
  <2>3. QED
    BY <2>1, <2>2 DEF MendedAt
<1>5. CASE Apply(s)
  <2>1. /\ pc[s] = "apply" /\ applied' = Loaded /\ kind' = kind
        /\ pc'[s] = AfterApply(s) /\ (pc'[s] \notin Ended => call'[s] = call[s])
    BY <1>5, <1>g DEF Apply
  <2>2. pc'[s] = "record" /\ call'[s] = call[s]
    BY <2>1 DEF AfterApply, Ended
  <2>3. disk = call[s].want
    BY <1>a, <2>1 DEF Knows
  <2>4. kind \in Netplan => Loaded = disk
    BY DEF Loaded, Netplan
  <2>5. QED
    BY <2>1, <2>2, <2>3, <2>4 DEF MendedAt
<1>6. ~(CheckDeploy(s) \/ Fetch(s) \/ Compare(s))
  BY <1>g, <1>p DEF CheckDeploy, Fetch, Compare
<1>7. ~Undeploy(s)
  BY <1>a DEF Undeploy, CheckDelete, Remove, Recollect, Mark, LabelOK
<1>8. CASE Failure(s)
  <2>1. ~(FailCheck(s) \/ FailBefore(s) \/ FailPermit(s) \/ FailRecord(s))
    BY <1>f DEF FailCheck, FailBefore, FailPermit, FailRecord
  <2>2. ~(FailRecollect(s) \/ FailMark(s))
    BY <1>a DEF FailRecollect, FailMark, Fails, LabelOK
  <2>3. FailApply(s)
    BY <1>8, <2>1, <2>2 DEF Failure
  <2>4. pc'[s] = IF kind \in {"sysctl", "ntp"} THEN AfterApply(s) ELSE "error"
    BY <1>g, <2>3 DEF FailApply
  <2>5. kind \in {"sysctl", "ntp"} => AfterApply(s) = "changed"
    BY DEF AfterApply, Netplan
  <2>6. QED
    BY <2>4, <2>5
<1>9. QED
  BY <1>1, <1>2, <1>3, <1>4, <1>5, <1>6, <1>7, <1>8 DEF Deploy

\* A step of an operation moves that one on, and does not change what it is.
LEMMA OperationMoves ==
  ASSUME FilesTypeOK, NEW s \in Slots, Deploy(s) \/ Apply(s) \/ Undeploy(s) \/ Failure(s)
  PROVE  \E label, c : Moved(s, label, c) /\ c.op = call[s].op
<1> DEFINE Moves == \E label, c : Moved(s, label, c) /\ c.op = call[s].op
<1>1. ASSUME NEW label, GoTo(s, label) PROVE Moves
  BY <1>1, GoToMoves
<1>2. ASSUME NEW label \in Ended, Finish(s, label) PROVE Moves
  BY <1>2, FinishMoves
<1>3. ASSUME NEW label, NEW v, \/ Proceed(s, label, [call[s] EXCEPT !.want = v])
                              \/ Proceed(s, label, [call[s] EXCEPT !.read = v])
      PROVE  Moves
  <2>1. call[s] \in Calls
    BY DEF FilesTypeOK
  <2>2. /\ [call[s] EXCEPT !.want = v].op = call[s].op
        /\ [call[s] EXCEPT !.read = v].op = call[s].op
    BY <2>1 DEF Calls
  <2>3. QED
    BY <1>3, <2>2, ProceedMoves
<1>4. {"error", "unchanged"} \subseteq Ended
  BY DEF Ended
<1> HIDE DEF Moves
<1>5. Deploy(s) \/ Apply(s) => Moves
  BY <1>1, <1>2, <1>3, <1>4
     DEF Deploy, Apply, CheckDeploy, Fetch, Compare, Permit, Write, Own, Validate, Rollback,
         Record
<1>6. Undeploy(s) => Moves
  BY <1>1, <1>3 DEF Undeploy, CheckDelete, Remove, Recollect, Mark
<1>7. Failure(s) => Moves
  BY <1>1, <1>2, <1>4
     DEF Failure, FailCheck, FailBefore, FailPermit, FailRecord, FailApply, FailRecollect,
         FailMark
<1>8. QED
  BY <1>5, <1>6, <1>7 DEF Moves

\* An operation that overlaps nothing keeps what it has put right.
LEMMA MendedStep ==
  ASSUME FInv, Mended, [Next]_vars
  PROVE  Mended'
<1> SUFFICES ASSUME NEW s \in Slots, (s \in Active)', ~spoiled'[s], call'[s].op # "delete",
                    pc'[s] \in {"apply", "record"}
             PROVE  MendedAt(s)'
  BY DEF Mended, MendedAt
<1>a. FilesTypeOK
  BY DEF FInv
<1>1. CASE UNCHANGED vars
  BY <1>1 DEF vars, world, Mended, MendedAt, Active
<1>2. CASE Upload
  BY <1>2 DEF Upload, Mended, MendedAt, Active
<1>3. CASE Edit
  BY <1>3 DEF Edit, Mended, MendedAt, Active
<1>4. ~Crash
  BY DEF Crash
<1>5. ASSUME NEW t \in Slots, Start(t) PROVE FALSE
  <2>1. t # s
    BY <1>5, <1>a DEF Start, FilesTypeOK
  <2>2. pc'[s] = pc[s] /\ spoiled'[s] = (spoiled[s] \/ s \in Active)
    BY <1>5, <1>a, <2>1 DEF Start, FilesTypeOK
  <2>3. QED
    BY <2>2 DEF Active, Ended
<1>6. ASSUME NEW t \in Slots, Deploy(t) \/ Apply(t) \/ Undeploy(t) \/ Failure(t)
      PROVE  MendedAt(s)'
  <2>1. pc[t] \notin Ended
    BY <1>6 DEF Deploy, Apply, Undeploy, Failure, CheckDeploy, Fetch, Compare, Permit, Write,
           Own, Validate, Record, CheckDelete, Remove, Recollect, Mark, FailCheck, FailBefore,
           FailPermit, FailRecord, FailApply, FailRecollect, FailMark, Fails, Ended
  <2>2. PICK label, c : Moved(t, label, c) /\ c.op = call[t].op
    BY <1>6, <1>a, OperationMoves
  <2>3. CASE s # t
    <3>1. pc'[s] = pc[s] /\ spoiled'[s] = spoiled[s]
      BY <1>a, <2>2, <2>3 DEF Moved, FilesTypeOK
    <3>2. s \in Active /\ t \in Active /\ ~spoiled[s]
      BY <2>1, <3>1 DEF Active, Ended
    <3>3. QED
      BY <2>3, <3>2 DEF FInv, Alone
  <2>4. CASE s = t
    <3>1. label = pc'[s] /\ label \notin Ended
      BY <1>a, <2>2, <2>4 DEF Moved, FilesTypeOK, Ended
    <3>2. ~spoiled[s] /\ call[s].op # "delete"
      BY <1>a, <2>2, <2>4, <3>1 DEF Moved, FilesTypeOK
    <3>3. QED
      BY <1>6, <2>1, <2>4, <3>2, MendingStep
  <2>5. QED
    BY <2>3, <2>4
<1>7. QED
  BY <1>1, <1>2, <1>3, <1>4, <1>5, <1>6 DEF Next

\* The step with which a deploy ends in a change.
LEMMA ChangeMends ==
  ASSUME FInv, Mended, NEW s \in Slots, s \in Active, ~spoiled[s], call[s].op # "delete",
         pc'[s] = "changed", Deploy(s) \/ Apply(s) \/ Undeploy(s) \/ Failure(s)
  PROVE  DeployMends(s)
<1>a. LabelOK(s) /\ Knows(s) /\ kind \in Kinds /\ FilesTypeOK /\ MendedAt(s)
  BY OfOne DEF Active, FInv, FilesTypeOK, Mended
<1>m. ASSUME NEW label, NEW c, Moved(s, label, c) PROVE label = pc'[s]
  BY <1>a, <1>m DEF Moved, FilesTypeOK
<1>g. ASSUME NEW label, GoTo(s, label) PROVE label = pc'[s]
  BY <1>a, <1>m, <1>g, GoToMoves
<1>p. ASSUME NEW label, NEW c, Proceed(s, label, c) PROVE label = pc'[s]
  BY <1>a, <1>m, <1>p, ProceedMoves
<1>f. ASSUME NEW label, Finish(s, label) PROVE label = pc'[s]
  BY <1>a, <1>f DEF Finish, FilesTypeOK
<1>1. ~(CheckDeploy(s) \/ Fetch(s) \/ Compare(s) \/ Permit(s) \/ Own(s))
  BY <1>g, <1>p DEF CheckDeploy, Fetch, Compare, Permit, Own
<1>2. ~(Write(s) \/ Validate(s) \/ Undeploy(s))
  BY <1>a, <1>g, <1>f DEF Write, AfterWrite, Validate, Rollback,
     Undeploy, CheckDelete, Remove, Recollect, Mark, LabelOK
<1>3. CASE Record(s)
  <2>1. /\ pc[s] = "record" /\ record' = Recorded(call[s].want)
        /\ UNCHANGED <<kind, disk, applied>> /\ AfterRecord = "changed"
    BY <1>3, <1>g DEF Record
  <2>2. kind \in Netplan \/ kind \notin Loading
    BY <2>1, <1>a, AfterRecordKinds DEF LabelOK
  <2>3. QED
    BY <1>a, <2>1, <2>2 DEF Knows, MendedAt, DeployMends
<1>4. CASE Apply(s) \/ FailApply(s)
  <2>1. /\ pc[s] = "apply" /\ UNCHANGED <<kind, disk, record>>
        /\ kind \in Loading /\ disk = call[s].want /\ disk # Absent
    BY <1>4, <1>a, ManagedFilesAssumption DEF Apply, FailApply, Fails, LabelOK, Knows
  <2>2. \/ applied' = Loaded /\ AfterApply(s) = "changed"
        \/ /\ kind \in {"sysctl", "ntp"} /\ AfterApply(s) = "changed"
           /\ mishaps' = mishaps + 1
    BY <1>4, <1>g DEF Apply, FailApply, Fails, Mishap
  <2>3. kind \notin Netplan
    BY <1>a, <2>2, AfterApplyKinds
  <2>4. Loaded = disk
    BY <2>1 DEF Loaded
  <2>5. mishaps' = mishaps + 1 => mishaps' > mishaps
    BY <1>a DEF FilesTypeOK
  <2>6. kind \in Recording => record = Recorded(call[s].want)
    BY <1>a, <2>1, <2>3 DEF MendedAt
  <2>7. QED
    BY <2>1, <2>2, <2>4, <2>5, <2>6 DEF DeployMends
<1>5. ~(FailCheck(s) \/ FailBefore(s) \/ FailPermit(s) \/ FailRecord(s))
  BY <1>f DEF FailCheck, FailBefore, FailPermit, FailRecord
<1>6. ~(FailRecollect(s) \/ FailMark(s))
  BY <1>a DEF FailRecollect, FailMark, Fails, LabelOK
<1>7. QED
  BY <1>1, <1>2, <1>3, <1>4, <1>5, <1>6 DEF Deploy, Failure

(***************************************************************************)
(* Deploying again repairs: what an earlier fault, death, overlap or edit  *)
(* left behind, a deploy that changes something puts right, the record     *)
(* included, even if it only found another mode or owner.                  *)
(***************************************************************************)
THEOREM DeploysRepair == Spec => ChangesMend
<1>1. ASSUME FInv, Mended, Next, NEW s \in Slots, s \in Active, ~spoiled[s],
             call[s].op # "delete", pc'[s] = "changed"
      PROVE  DeployMends(s)
  <2>1. ~Upload /\ ~Edit /\ ~Crash
    BY <1>1 DEF Upload, Edit, Crash, Active, Ended, FInv, FilesTypeOK
  <2>2. PICK t \in Slots : Start(t) \/ Apply(t) \/ Deploy(t) \/ Undeploy(t) \/ Failure(t)
    BY <1>1, <2>1 DEF Next
  <2>3. t = s
    BY <1>1, <2>2, OthersStay DEF Active, Ended, FInv
  <2>4. ~Start(s)
    BY <1>1 DEF Start
  <2>5. QED
    BY <1>1, <2>2, <2>3, <2>4, ChangeMends
<1>2. FInv /\ Mended /\ [Next]_vars =>
        [\A s \in Slots :
           /\ s \in Active /\ ~spoiled[s]
           /\ call[s].op # "delete" /\ pc'[s] = "changed"
           => DeployMends(s)]_vars
  BY <1>1
<1>3. Init => Mended
  BY DEF Init, Mended, Active, Ended
<1>4. FInv /\ Mended /\ [Next]_vars => Mended'
  BY MendedStep
<1>5. QED
  BY <1>2, <1>3, <1>4, FilesInvariance, PTL DEF Spec, ChangesMend
=============================================================================
