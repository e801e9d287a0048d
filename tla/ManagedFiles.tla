---------------------------- MODULE ManagedFiles ----------------------------
(***************************************************************************)
(* The providers that own a file on the host: one path, written through    *)
(* the file provider (internal/provider/file), the netplan helper          *)
(* (network/netplan) or directly (sysctl, ntp), with up to four copies of  *)
(* the truth: the object the content comes from, the file on disk, the     *)
(* record in the file-state bucket and what the running system has loaded. *)
(*                                                                         *)
(* An agent works on several jobs at a time and no provider takes a lock,  *)
(* so operations on one path may overlap: each is a sequence of steps, one *)
(* per access of the disk, the bucket, the object store or a command.      *)
(* Reads of the local disk are taken to succeed.  Only what a path shows   *)
(* is kept: a step's temporary file (fsutil.WriteFileAtomic) is not.       *)
(***************************************************************************)
EXTENDS Naturals, FiniteSets

CONSTANTS
    Versions,       \* contents
    Invalid,        \* the contents that netplan generate refuses
    Absent,         \* no file, no object, nothing loaded
    NoRecord,       \* the bucket has no record of the path
    Unset,          \* a request without mode and owner
    Slots,          \* the operations an agent runs at a time
    MaxMishaps,     \* bound on failures, deaths of the agent and edits
    MaxUploads      \* bound on changes of the object

ASSUME ManagedFilesAssumption ==
    /\ Invalid \subseteq Versions
    /\ {Absent, Unset} \cap Versions = {}
    /\ Unset \notin {"fresh", "owned"}
    /\ NoRecord \notin [content : Versions, live : BOOLEAN]
    /\ {MaxMishaps, MaxUploads} \subseteq Nat
    /\ IsFiniteSet(Slots)

Kinds == {"file", "cron", "certificate", "service",
          "interface", "dns", "sysctl", "ntp"}
FileBased == {"file", "cron", "certificate", "service"}
Netplan   == {"interface", "dns"}
Recording == Kinds \ {"ntp"}
Loading   == {"certificate", "service", "sysctl", "ntp"} \cup Netplan

\* Mode and owner, as one value: those of a file just written, or others.
Attributes == {"fresh", "owned"}

Contents == Versions \cup {Absent}
Records  == {NoRecord} \cup [content : Versions, live : BOOLEAN]
Recorded(content) == [content |-> content, live |-> TRUE]

Operations == {"create", "update", "delete"}
Ended      == {"idle", "changed", "unchanged", "error"}
Labels     == Ended \cup {"check", "fetch", "compare", "permit", "write", "own",
                          "validate", "record", "apply", "remove", "recollect", "mark",
                          "mark only"}
\* Where the file has been changed and the operation has more to do.
Midway     == {"own", "validate", "record", "apply", "recollect", "mark", "mark only"}

VARIABLES
    kind,       \* the provider the path belongs to
    object,     \* the object store's content for the path
    disk,       \* the file
    attrs,      \* its mode and owner
    record,     \* job.FileState: the content's SHA and whether undeployed
    applied,    \* the content the running system has loaded
    pc, call,   \* each operation: where it is, what it was asked and has read
    spoiled,    \* history: it overlapped another operation, or an edit
    causes,     \* history: what went wrong since the file was last rewritten
    mishaps, uploads

world == <<kind, object, disk, attrs, record, applied>>
vars  == <<world, pc, call, spoiled, causes, mishaps, uploads>>

Calls == [op : Operations, want : Contents, asked : Attributes \cup {Unset},
          read : Records]
NoCall == [op |-> "create", want |-> Absent, asked |-> Unset, read |-> NoRecord]

Active == {s \in Slots : pc[s] \notin Ended}
Quiet  == Active = {}

\* isManagedFile: the record is there and not marked undeployed.
Managed == record # NoRecord /\ record.live

Init ==
    /\ kind \in Kinds
    /\ object \in Versions
    /\ disk \in Contents /\ attrs \in Attributes
    /\ record = NoRecord
    /\ applied = disk
    /\ pc = [s \in Slots |-> "idle"] /\ call = [s \in Slots |-> NoCall]
    /\ spoiled = [s \in Slots |-> FALSE]
    /\ causes = IF disk = Absent THEN {} ELSE {"edit"}
    /\ mishaps = 0 /\ uploads = 0

Mishap == mishaps < MaxMishaps /\ mishaps' = mishaps + 1

-----------------------------------------------------------------------------
(***************************************************************************)
(* Around the providers.                                                   *)
(***************************************************************************)
\* The object is uploaded again, or deleted.
Upload ==
    /\ kind \in FileBased
    /\ uploads < MaxUploads /\ uploads' = uploads + 1
    /\ object' \in Contents \ {object}
    /\ UNCHANGED <<kind, disk, attrs, record, applied, pc, call, spoiled, causes, mishaps>>

\* Somebody changes the file, its mode or its owner by hand.
Edit ==
    /\ Mishap
    /\ disk' \in Contents /\ attrs' \in Attributes
    /\ <<disk', attrs'>> # <<disk, attrs>>
    /\ causes' = causes \cup {"edit"}
    /\ spoiled' = [s \in Slots |-> spoiled[s] \/ s \in Active]
    /\ UNCHANGED <<kind, object, record, applied, pc, call, uploads>>

\* The agent dies; its jobs come back as new operations.
Crash ==
    /\ ~Quiet /\ Mishap
    /\ causes' = causes \cup {c \in {"crash"} : \E s \in Slots : pc[s] \in Midway}
    /\ pc' = [s \in Slots |-> "idle"] /\ call' = [s \in Slots |-> NoCall]
    /\ spoiled' = [s \in Slots |-> FALSE]
    /\ UNCHANGED <<world, uploads>>

\* What callers may ask: only the file provider passes an owner on, and only
\* file and dns have one operation for a new and a changed file.
Requests ==
    {c \in Calls :
        /\ c.read = NoRecord
        /\ c.op = "update" => kind \notin {"file", "dns"}
        /\ c.want = Absent <=> c.op = "delete" \/ kind \in FileBased
        /\ c.op = "delete" \/ kind \notin FileBased => c.asked = Unset
        /\ c.op # "delete" /\ kind \in FileBased \ {"file"} => c.asked = "fresh"}

Start(s) ==
    /\ s \notin Active
    /\ \E c \in Requests : call' = [call EXCEPT ![s] = c]
    /\ pc' = [pc EXCEPT ![s] = "check"]
    /\ spoiled' = [t \in Slots |-> IF t = s THEN ~Quiet
                                            ELSE spoiled[t] \/ t \in Active]
    /\ causes' = causes \cup {c \in {"overlap"} : ~Quiet}
    /\ UNCHANGED <<world, mishaps, uploads>>

-----------------------------------------------------------------------------
(***************************************************************************)
(* The order of the steps.                                                 *)
(***************************************************************************)
Finish(s, outcome) ==
    /\ pc' = [pc EXCEPT ![s] = outcome]
    /\ call' = [call EXCEPT ![s] = NoCall]
    /\ spoiled' = [spoiled EXCEPT ![s] = FALSE]

\* On to the next step, or to the end, with what the operation knows by now.
Proceed(s, label, c) ==
    IF label \in Ended THEN Finish(s, label)
                       ELSE /\ pc' = [pc EXCEPT ![s] = label]
                            /\ call' = [call EXCEPT ![s] = c]
                            /\ UNCHANGED spoiled

GoTo(s, label) == Proceed(s, label, call[s])

AfterWrite ==
    CASE kind \in FileBased -> "own"
      [] kind \in Netplan   -> "validate"
      [] kind = "sysctl"    -> "record"
      [] OTHER              -> "apply"

AfterRecord ==
    IF kind \in {"certificate", "service", "sysctl"} THEN "apply" ELSE "changed"

AfterRemove ==
    CASE kind \in FileBased -> "recollect"
      [] kind = "sysctl"    -> "mark"
      [] OTHER              -> "apply"

AfterApply(s) ==
    IF kind \notin Netplan THEN "changed"
    ELSE IF call[s].op = "delete" THEN "recollect" ELSE "record"

AfterMark(s) == IF pc[s] = "mark only" THEN "unchanged" ELSE AfterRecord

-----------------------------------------------------------------------------
(***************************************************************************)
(* Deploying.                                                              *)
(***************************************************************************)
\* What Create and Update of each provider look at before the deploy: creating
\* an interface leaves a file that is there, an update needs one, or a record.
InTheWay(s) ==
    kind = "interface" /\ call[s].op = "create" /\ disk # Absent

NothingToUpdate(s) ==
    call[s].op = "update" /\ IF kind = "sysctl" THEN ~Managed ELSE disk = Absent

\* An update that names no object takes the one in the record, if any.
ObjectUnknown(s) ==
    call[s].op = "update" /\ kind \in FileBased /\ record = NoRecord

CheckDeploy(s) ==
    /\ pc[s] = "check" /\ call[s].op # "delete"
    /\ \/ InTheWay(s) /\ GoTo(s, "unchanged")
       \/ (NothingToUpdate(s) \/ ObjectUnknown(s)) /\ GoTo(s, "error")
       \/ /\ ~InTheWay(s) /\ ~NothingToUpdate(s)
          /\ GoTo(s, IF kind \in FileBased THEN "fetch" ELSE "compare")
    /\ UNCHANGED <<world, causes, mishaps, uploads>>

\* objStore.GetBytes.
Fetch(s) ==
    /\ pc[s] = "fetch"
    /\ Proceed(s, IF object = Absent THEN "error" ELSE "compare",
               [call[s] EXCEPT !.want = object])
    /\ UNCHANGED <<world, causes, mishaps, uploads>>

\* Mutant: what the last deploy recorded decides, not the file.
CompareWithRecord(s) ==
    /\ pc[s] = "compare"
    /\ GoTo(s, IF record # Recorded(call[s].want) THEN "write"
               ELSE IF kind \in FileBased THEN "permit" ELSE "unchanged")
    /\ UNCHANGED <<world, causes, mishaps, uploads>>

\* The file on disk decides, whatever the record says.
Compare(s) ==
    /\ pc[s] = "compare"
    /\ GoTo(s, IF disk # call[s].want THEN "write"
               ELSE IF kind \in FileBased THEN "permit" ELSE "unchanged")
    /\ UNCHANGED <<world, causes, mishaps, uploads>>

\* applyPermissions: mode and owner of a file whose content is right.
Permit(s) ==
    /\ pc[s] = "permit"
    /\ IF call[s].asked \in {Unset, attrs} \/ disk = Absent
       THEN /\ GoTo(s, IF call[s].asked # Unset /\ disk = Absent THEN "error"
                                                               ELSE "unchanged")
            /\ UNCHANGED <<attrs, causes>>
       ELSE /\ GoTo(s, "record")
            /\ attrs' = call[s].asked
            /\ causes' = IF spoiled[s] THEN causes ELSE {}
    /\ UNCHANGED <<kind, object, disk, record, applied, mishaps, uploads>>

\* The rename of WriteFileAtomic: the new file, with its mode, at once.
Write(s) ==
    /\ pc[s] = "write"
    /\ GoTo(s, AfterWrite)
    /\ disk' = call[s].want /\ attrs' = "fresh"
    /\ causes' = IF spoiled[s] THEN causes ELSE {}
    /\ UNCHANGED <<kind, object, record, applied, mishaps, uploads>>

\* enforceOwnership, of the file that was just written; nobody else asks for one.
Own(s) ==
    /\ pc[s] = "own"
    /\ IF call[s].asked = Unset \/ kind # "file"
       THEN GoTo(s, "record") /\ UNCHANGED attrs
       ELSE /\ GoTo(s, IF disk = Absent THEN "error" ELSE "record")
            /\ attrs' = call[s].asked
    /\ UNCHANGED <<kind, object, disk, record, applied, causes, mishaps, uploads>>

\* Mutant: an invalid configuration is left in the directory.
ValidateWithoutRollback(s) ==
    /\ pc[s] = "validate"
    /\ GoTo(s, IF disk \in Invalid THEN "error" ELSE "apply")
    /\ causes' = causes \cup {c \in {"rejected"} : disk \in Invalid}
    /\ UNCHANGED <<world, mishaps, uploads>>

(***************************************************************************)
(* netplan generate.  A refused file is removed, which does not bring back *)
(* the one it replaced; a removal that fails is not noticed.               *)
(***************************************************************************)
Rollback(s) == Finish(s, "error") /\ disk' = Absent

Validate(s) ==
    /\ pc[s] = "validate"
    /\ \/ disk \notin Invalid /\ GoTo(s, "apply") /\ UNCHANGED <<disk, causes, mishaps>>
       \/ disk \in Invalid /\ Rollback(s) /\ causes' = causes \cup {"rejected"}
          /\ UNCHANGED mishaps
       \/ Mishap /\ Rollback(s) /\ causes' = causes \cup {"fault"}
       \/ Mishap /\ Finish(s, "error") /\ causes' = causes \cup {"fault"} /\ UNCHANGED disk
    /\ UNCHANGED <<kind, object, attrs, record, applied, uploads>>

\* Mutant: the record is made of the object as it is now.
RecordCurrentObject(s) ==
    /\ pc[s] = "record"
    /\ GoTo(s, AfterRecord)
    /\ record' = Recorded(IF kind \in FileBased THEN object ELSE call[s].want)
    /\ UNCHANGED <<kind, object, disk, attrs, applied, causes, mishaps, uploads>>

\* putState, and the same in netplan and sysctl.
Record(s) ==
    /\ pc[s] = "record"
    /\ GoTo(s, AfterRecord)
    /\ record' = Recorded(call[s].want)
    /\ UNCHANGED <<kind, object, disk, attrs, applied, causes, mishaps, uploads>>

(***************************************************************************)
(* update-ca-certificates, systemctl daemon-reload, netplan apply, sysctl  *)
(* -p or --system, chronyc reload: the file there is now gets loaded.  The *)
(* kernel keeps a value whose file is gone.                                *)
(***************************************************************************)
Loaded == IF kind = "sysctl" /\ disk = Absent THEN applied ELSE disk

Apply(s) ==
    /\ pc[s] = "apply"
    /\ GoTo(s, AfterApply(s))
    /\ applied' = Loaded
    /\ UNCHANGED <<kind, object, disk, attrs, record, causes, mishaps, uploads>>

-----------------------------------------------------------------------------
(***************************************************************************)
(* Removing.                                                               *)
(***************************************************************************)
\* Only sysctl asks the record whether there is anything to remove.
CheckDelete(s) ==
    /\ pc[s] = "check" /\ call[s].op = "delete"
    /\ IF kind = "sysctl"
       THEN Proceed(s, IF Managed THEN "remove" ELSE "unchanged",
                    [call[s] EXCEPT !.read = record])
       ELSE GoTo(s, IF disk # Absent THEN "remove"
                    ELSE IF kind = "ntp" THEN "error" ELSE "unchanged")
    /\ UNCHANGED <<world, causes, mishaps, uploads>>

(***************************************************************************)
(* The file may have gone meanwhile: nothing to do where Stat is called a  *)
(* second time (Undeploy, RemoveConfig), an error when it went after the   *)
(* last Stat.  sysctl still marks its record.                              *)
(***************************************************************************)
AlreadyGone(s) ==
    CASE kind = "sysctl" -> {"mark only"} \cup {e \in {"error"} : spoiled[s]}
      [] kind \in {"cron", "certificate", "service", "interface"}
                         -> {"unchanged", "error"}
      [] OTHER           -> {"error"}

Remove(s) ==
    /\ pc[s] = "remove"
    /\ \/ disk # Absent /\ GoTo(s, AfterRemove)
          /\ causes' = IF spoiled[s] THEN causes ELSE {}
       \/ disk = Absent /\ \E l \in AlreadyGone(s) : GoTo(s, l)
          /\ UNCHANGED causes
    /\ disk' = Absent
    /\ UNCHANGED <<kind, object, attrs, record, applied, mishaps, uploads>>

\* The record is read to be marked; without one there is nothing to mark.
Recollect(s) ==
    /\ pc[s] = "recollect"
    /\ Proceed(s, IF record = NoRecord THEN AfterMark(s) ELSE "mark",
               [call[s] EXCEPT !.read = record])
    /\ UNCHANGED <<world, causes, mishaps, uploads>>

\* Mutant: the record stays as it was read.
MarkNothing(s) ==
    /\ pc[s] \in {"mark", "mark only"}
    /\ GoTo(s, AfterMark(s))
    /\ record' = call[s].read
    /\ UNCHANGED <<kind, object, disk, attrs, applied, causes, mishaps, uploads>>

\* undeployed_at is set in the record as it was read.
Mark(s) ==
    /\ pc[s] \in {"mark", "mark only"}
    /\ GoTo(s, AfterMark(s))
    /\ record' = [call[s].read EXCEPT !.live = FALSE]
    /\ UNCHANGED <<kind, object, disk, attrs, applied, causes, mishaps, uploads>>

-----------------------------------------------------------------------------
(***************************************************************************)
(* What fails.  A Put that fails may have been stored, a command that      *)
(* fails may have done its work; a failed write or removal changes nothing *)
(* (WriteFileAtomic).  Undeploy and RemoveConfig ignore that the record    *)
(* cannot be marked; sysctl and ntp only log that loading failed.          *)
(***************************************************************************)
Fails(s, label) ==
    /\ pc[s] = label /\ Mishap
    /\ causes' = causes \cup {c \in {"fault"} : label \in Midway}
    /\ UNCHANGED <<kind, object, disk, uploads>>

\* The record, or the resolver's state, cannot be read: sysctl takes a record
\* it cannot read for none, and says there is nothing to delete.
FailCheck(s) ==
    /\ Fails(s, "check")
    /\ \/ kind = "sysctl" /\ call[s].op # "create"
       \/ kind \in FileBased /\ call[s].op = "update"
       \/ kind = "dns" /\ call[s].op = "create"
    /\ Finish(s, IF call[s].op = "delete" THEN "unchanged" ELSE "error")
    /\ UNCHANGED <<attrs, record, applied>>

FailBefore(s) ==
    /\ \E label \in {"fetch", "write", "remove"} : Fails(s, label)
    /\ Finish(s, "error")
    /\ UNCHANGED <<attrs, record, applied>>

FailPermit(s) ==
    /\ Fails(s, "permit") \/ (kind = "file" /\ Fails(s, "own"))
    /\ call[s].asked # Unset
    /\ Finish(s, "error")
    /\ attrs' \in {attrs, call[s].asked}
    /\ UNCHANGED <<record, applied>>

FailRecord(s) ==
    /\ Fails(s, "record")
    /\ Finish(s, "error")
    /\ record' \in {record, Recorded(call[s].want)}
    /\ UNCHANGED <<attrs, applied>>

FailApply(s) ==
    /\ Fails(s, "apply")
    /\ GoTo(s, IF kind \in {"sysctl", "ntp"} THEN AfterApply(s) ELSE "error")
    /\ applied' \in {applied, Loaded}
    /\ UNCHANGED <<attrs, record>>

FailRecollect(s) ==
    /\ Fails(s, "recollect")
    /\ GoTo(s, AfterMark(s))
    /\ UNCHANGED <<attrs, record, applied>>

FailMark(s) ==
    /\ Fails(s, "mark") \/ Fails(s, "mark only")
    /\ GoTo(s, IF kind = "sysctl" THEN "error" ELSE AfterMark(s))
    /\ record' \in {record, [call[s].read EXCEPT !.live = FALSE]}
    /\ UNCHANGED <<attrs, applied>>

Deploy(s) ==
    \/ CheckDeploy(s) \/ Fetch(s) \/ Compare(s) \/ Permit(s) \/ Write(s)
    \/ Own(s) \/ Validate(s) \/ Record(s)

Undeploy(s) == CheckDelete(s) \/ Remove(s) \/ Recollect(s) \/ Mark(s)

Failure(s) ==
    \/ FailCheck(s) \/ FailBefore(s) \/ FailPermit(s) \/ FailRecord(s)
    \/ FailApply(s) \/ FailRecollect(s) \/ FailMark(s)

Next ==
    \/ Upload \/ Edit \/ Crash
    \/ \E s \in Slots : \/ Start(s) \/ Deploy(s) \/ Apply(s) \/ Undeploy(s)
                        \/ Failure(s)

Spec == Init /\ [][Next]_vars

-----------------------------------------------------------------------------
(***************************************************************************)
(* Properties.                                                             *)
(***************************************************************************)
FilesTypeOK ==
    /\ kind \in Kinds /\ object \in Contents
    /\ disk \in Contents /\ attrs \in Attributes
    /\ record \in Records /\ applied \in Contents
    /\ pc \in [Slots -> Labels] /\ call \in [Slots -> Calls]
    /\ spoiled \in [Slots -> BOOLEAN]
    /\ causes \subseteq {"edit", "crash", "fault", "overlap", "rejected"}
    /\ mishaps \in 0..MaxMishaps /\ uploads \in 0..MaxUploads

(***************************************************************************)
(* What an operation reports is true of the file when it ends, unless it   *)
(* overlapped another or an edit: a deploy leaves the content that was     *)
(* asked for, with its mode and owner, a removal leaves no file.  There    *)
(* are two exceptions: creating an interface leaves a file that is there,  *)
(* and sysctl removes only what it can read a live record of.              *)
(***************************************************************************)
AsAsked(s) ==
    /\ disk' = call[s].want
    /\ call[s].op # "delete" /\ kind \in FileBased => call[s].asked \in {Unset, attrs'}

LeftAlone(s) ==
    /\ pc[s] = "check"
    /\ \/ kind = "interface" /\ call[s].op = "create"
       \/ kind = "sysctl" /\ (causes # {} \/ mishaps' > mishaps)

SuccessIsTrue ==
    [][\A s \in Slots :
          /\ s \in Active /\ ~spoiled[s]
          /\ pc'[s] \in {"changed", "unchanged"}
          => AsAsked(s) \/ LeftAlone(s)]_vars

(***************************************************************************)
(* Disk, record and running system agree between operations, unless        *)
(* something went wrong since the file was last rewritten: a fault, an     *)
(* edit, a death or an overlap.  What is loaded of a removed sysctl file   *)
(* stays in the kernel.                                                    *)
(***************************************************************************)
RecordTrue == IF disk = Absent THEN ~Managed ELSE record = Recorded(disk)
LoadedTrue == applied = disk \/ (kind = "sysctl" /\ disk = Absent)

AgreementUnlessCause ==
    Quiet /\ causes = {} => /\ kind \in Recording => RecordTrue
                            /\ kind \in Loading => LoadedTrue

(***************************************************************************)
(* An invalid configuration does not stay in netplan's directory: a        *)
(* refusal alone never leaves one behind.                                  *)
(***************************************************************************)
InvalidConfigHasCause ==
    kind \in Netplan /\ Quiet /\ disk \in Invalid => causes \ {"rejected"} # {}

(***************************************************************************)
(* GetFileStale's list.  A record that cannot be read or parsed is passed  *)
(* over, and whatever goes wrong with reading the object counts as a       *)
(* deleted object; the records of netplan and sysctl name no object, so    *)
(* that for them reading it always fails.                                  *)
(***************************************************************************)
Listed(recordRead, objectRead) ==
    LET current == IF kind \in FileBased /\ objectRead THEN object ELSE Absent
    IN  recordRead /\ Managed /\ record.content # current

Outdated == disk \notin {Absent, object}

(***************************************************************************)
(* Between operations, and unless something went wrong with the file, a    *)
(* file that differs from its object is missing from the list only when    *)
(* its record was not read, one that does not is on it only when its       *)
(* object was not read, also when the object was uploaded again or deleted *)
(* during the deploy, and a removed file never is.  Files that come from   *)
(* no object are always on it.                                             *)
(***************************************************************************)
StaleListErrsForCause ==
    Quiet /\ causes = {} => \A recordRead, objectRead \in BOOLEAN :
        LET listed == Listed(recordRead, objectRead) IN
        /\ kind \in FileBased /\ Outdated /\ ~listed => ~recordRead
        /\ kind \in FileBased /\ listed /\ ~Outdated => ~objectRead
        /\ kind \in Recording /\ listed => disk # Absent
        /\ kind \in Recording \ FileBased /\ disk # Absent => listed \/ ~recordRead
=============================================================================
