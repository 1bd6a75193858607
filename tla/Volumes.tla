------------------------------ MODULE Volumes ------------------------------
(* A volume of one replica, from its declared size to the guest's writes and  *)
(* to the note an operator sees (crates/mc2-server/src/node/disk.rs,          *)
(* crates/mc2-runtime/src/naming.rs and msb_sdk.rs, crates/mc2-api/src/       *)
(* disk.rs). The directory outlives the VM. A VM is created with the quota    *)
(* that is left, measured then; a VM that only stopped is started in place    *)
(* with the quota it was created with. The node's passes annotate the         *)
(* instance's message from samples that are up to a minute old.               *)
(*                                                                            *)
(* Sizes and contents are MiB, from small sets. microsandbox charges a quota  *)
(* as growth beyond what the directory holds when the VM starts (external;    *)
(* msb_sdk.rs:197). Left out: replicas that share a volume, the wording of    *)
(* the conditions, the log lines and the gauges.                              *)
EXTENDS Naturals, Sequences, SequencesExt, FiniteSetsExt

CONSTANTS VolSizes,     \* the sizes a document may declare
          VolLevels,    \* what a directory or a root disk may hold
          RootCapacity, \* what the guest sees of its root disk
          VolRestarts,  \* the service's restart policy is not "no"
          MaxVolFaults  \* crashes, failed writes and missing metrics together

ASSUME VolumeBounds ==
    /\ VolSizes \subseteq Nat \ {0} /\ VolLevels \subseteq Nat /\ 0 \in VolLevels
    /\ RootCapacity \in VolLevels /\ VolRestarts \in BOOLEAN /\ MaxVolFaults \in Nat

VARIABLES volSize,    \* the declared size in the instance's row; 0: no row
          volMsg,     \* the row's message, line by line
          volUsed,    \* what the directory holds
          volVm,      \* the VM
          volSample,  \* the node's cached measurement of the directory
          volPc, volWant, volReport, \* a pass: where it is, the size it read,
                                     \* and the message it will write
          volSeen,    \* the row of this pass is still there
          volFaults

volVars == <<volSize, volMsg, volUsed, volVm, volSample, volPc, volWant,
             volReport, volSeen, volFaults>>
volPass == <<volPc, volWant, volReport, volSeen>>

NoSample == [known |-> FALSE, used |-> 0, fresh |-> FALSE]
NoVolVm  == [phase |-> "none", size |-> 0, quota |-> 0, found |-> 0,
             again |-> FALSE, root |-> 0]

VolInit ==
    /\ volSize = 0 /\ volMsg = <<>> /\ volUsed = 0 /\ volVm = NoVolVm
    /\ volSample = NoSample
    /\ volPc = "idle" /\ volWant = 0 /\ volReport = <<>> /\ volSeen = FALSE
    /\ volFaults = 0

VolFault == volFaults < MaxVolFaults /\ volFaults' = volFaults + 1

-----------------------------------------------------------------------------
\* classify: at 99 % or with less than 64 MiB left, writes are failing.
Classify(used, limit) ==
    IF limit = 0 \/ used = 0 THEN "none"
    ELSE IF (used * 100) \div limit >= 99 \/ limit < used + 64 THEN "full"
    ELSE IF (used * 100) \div limit >= 90 THEN "warning"
    ELSE "none"

\* conditions_for: the root disk first, if there are metrics; then the volume.
ConditionsFor(rootUsed, hasRoot, used, size) ==
    LET all == <<[target |-> "root", severity |->
                    IF hasRoot THEN Classify(rootUsed, RootCapacity) ELSE "none"],
                 [target |-> "volume", severity |-> Classify(used, size)]>>
    IN  SelectSeq(all, LAMBDA c : c.severity # "none")

\* block: the explanation of every condition, and one line for machines.
MessageText(c) == <<"text", c.target>>
Marker(conditions) == <<"marker", conditions>>
Block(conditions) ==
    IF conditions = <<>> THEN <<>>
    ELSE [i \in DOMAIN conditions |-> MessageText(conditions[i])]
         \o <<Marker(conditions)>>

\* decode: the last marker line counts.
DecodeMessage(lines) ==
    LET markers == SelectSeq(lines, LAMBDA l : l[1] = "marker")
    IN  IF markers = <<>> THEN <<>> ELSE Last(markers)[2]

\* strip_marker: what a person reads.
StripMarker(lines) == SelectSeq(lines, LAMBDA l : l[1] # "marker")

\* notes_from_message, per target.
Note(target) ==
    LET about == {i \in DOMAIN DecodeMessage(volMsg) : DecodeMessage(volMsg)[i].target = target}
    IN  IF about = {} THEN "none"
        ELSE DecodeMessage(volMsg)[CHOOSE i \in about : TRUE].severity

-----------------------------------------------------------------------------
\* remaining_quota_mib.
RemainingQuota(size, used) == IF used < size THEN size - used ELSE 0

\* mutation: the quota is computed from the cached sample
MeasuredCached == IF volSample.known THEN volSample.used ELSE volUsed

\* dir_size_mib, before every create.
Measured == volUsed

\* create_detached: a bind mount with the quota that is left.
CreatedVm(size) ==
    [phase |-> "up", size |-> size, quota |-> RemainingQuota(size, Measured),
     found |-> volUsed, again |-> FALSE, root |-> 0]

\* start_detached: the sandbox as it was configured, quota included.
StartedVm == [volVm EXCEPT !.phase = "up", !.found = volUsed, !.again = TRUE]

-----------------------------------------------------------------------------
\* `mc2 up` and `mc2 down`.

\* check_volume_shrink: never below what the directory holds.
ShrinkAllowed(size) == size >= volUsed

\* apply_stack: a row that stays keeps its message.
VolApply(size) ==
    /\ volSize # size /\ ShrinkAllowed(size)
    /\ volSize' = size
    /\ volMsg' = IF volSize = 0 THEN <<>> ELSE volMsg
    /\ UNCHANGED <<volUsed, volVm, volSample, volPass, volFaults>>

\* delete_stack; the directory is kept.
VolDelete ==
    /\ volSize # 0
    /\ volSize' = 0 /\ volMsg' = <<>> /\ volSeen' = FALSE
    /\ UNCHANGED <<volUsed, volVm, volSample, volPc, volWant, volReport, volFaults>>

-----------------------------------------------------------------------------
\* The guest (external): it writes while its quota lasts, frees, and ends.
GuestWrites(level) ==
    /\ volVm.phase = "up" /\ volUsed < level /\ level <= volVm.found + volVm.quota
    /\ volUsed' = level
    /\ UNCHANGED <<volSize, volMsg, volVm, volSample, volPass, volFaults>>

GuestFrees(level) ==
    /\ volVm.phase = "up" /\ level < volUsed
    /\ volUsed' = level
    /\ UNCHANGED <<volSize, volMsg, volVm, volSample, volPass, volFaults>>

RootFills ==
    /\ volVm.phase = "up" /\ volVm.root = 0
    /\ volVm' = [volVm EXCEPT !.root = RootCapacity]
    /\ UNCHANGED <<volSize, volMsg, volUsed, volSample, volPass, volFaults>>

VmEnds ==
    /\ volVm.phase = "up"
    /\ volVm' = [volVm EXCEPT !.phase = "ended"]
    /\ UNCHANGED <<volSize, volMsg, volUsed, volSample, volPass, volFaults>>

-----------------------------------------------------------------------------
\* A pass of the node loop.

\* The desired set; a sandbox nobody wants is collected.
VolStartPass ==
    /\ volPc = "idle"
    /\ volWant' = volSize /\ volSeen' = (volSize # 0)
    /\ volVm' = IF volSize = 0 THEN NoVolVm ELSE volVm
    /\ volPc' = IF volSize = 0 THEN "idle" ELSE "ensure"
    /\ UNCHANGED <<volSize, volMsg, volUsed, volSample, volReport, volFaults>>

\* What the pass may make of the VM it finds (ensure_running): a new size
\* recreates it; one that ended is started in place if it stopped, and recreated
\* if it failed or that start does. A back-off leaves it as it is.
EnsuredVms ==
    CASE volVm.phase = "none" \/ volVm.size # volWant -> {CreatedVm(volWant)}
      [] volVm.phase = "up" \/ ~VolRestarts -> {volVm}
      [] OTHER -> {volVm, StartedVm, CreatedVm(volWant)}

\* A removal or a creation that fails leaves it, too.
VolEnsure ==
    /\ volPc = "ensure"
    /\ \/ volVm' \in EnsuredVms /\ UNCHANGED volFaults
       \/ VolFault /\ UNCHANGED volVm
    /\ volReport' = <<<<"text", "vm">>>>
    /\ volPc' = "annotate"
    /\ UNCHANGED <<volSize, volMsg, volUsed, volSample, volWant, volSeen>>

\* mutation: a cached sample never gets too old
SampleGoodNoExpiry == volSample.known

\* volume_usage_mib: the cached measurement, for VOLUME_SAMPLE_TTL.
SampleGood == volSample.known /\ volSample.fresh
VolumeUsage == IF SampleGood THEN volSample.used ELSE volUsed

\* annotate_reports; without metrics nothing is said of the root disk.
VolAnnotate ==
    /\ volPc = "annotate"
    /\ \E hasRoot \in BOOLEAN :
          /\ hasRoot => volVm.phase = "up"
          /\ IF ~hasRoot /\ volVm.phase = "up" THEN VolFault ELSE UNCHANGED volFaults
          /\ volReport' = volReport \o
                Block(ConditionsFor(volVm.root, hasRoot, VolumeUsage, volWant))
    /\ volSample' = IF SampleGood THEN volSample
                    ELSE [known |-> TRUE, used |-> volUsed, fresh |-> TRUE]
    /\ volPc' = "publish"
    /\ UNCHANGED <<volSize, volMsg, volUsed, volVm, volWant, volSeen>>

\* persist_instance_report: an update by the row's id, which may have gone; a
\* write that fails is left to the next pass.
VolPublish ==
    /\ volPc = "publish"
    /\ \/ volMsg' = (IF volSeen THEN volReport ELSE volMsg) /\ UNCHANGED volFaults
       \/ VolFault /\ UNCHANGED volMsg
    /\ volPc' = "idle" /\ volReport' = <<>> /\ volWant' = 0 /\ volSeen' = FALSE
    /\ UNCHANGED <<volSize, volUsed, volVm, volSample>>

VolPassStep == VolStartPass \/ VolEnsure \/ VolAnnotate \/ VolPublish

\* A minute passes.
SampleAges ==
    /\ volSample.fresh
    /\ volSample' = [volSample EXCEPT !.fresh = FALSE]
    /\ UNCHANGED <<volSize, volMsg, volUsed, volVm, volPass, volFaults>>

\* The process ends anywhere and starts again; VMs run on, samples are lost.
VolCrash ==
    /\ VolFault
    /\ volSample' = NoSample
    /\ volPc' = "idle" /\ volReport' = <<>> /\ volWant' = 0 /\ volSeen' = FALSE
    /\ UNCHANGED <<volSize, volMsg, volUsed, volVm>>

VolNext ==
    \/ \E size \in VolSizes : VolApply(size)
    \/ VolDelete
    \/ \E level \in VolLevels : GuestWrites(level) \/ GuestFrees(level)
    \/ RootFills \/ VmEnds
    \/ VolPassStep \/ SampleAges \/ VolCrash

\* The ticker starts a pass every few seconds, and time passes.
VolSpec == VolInit /\ [][VolNext]_volVars /\ WF_volVars(VolPassStep)
           /\ WF_volVars(SampleAges)

-----------------------------------------------------------------------------
VolTypeOK ==
    /\ volSize \in VolSizes \cup {0} /\ volWant \in VolSizes \cup {0}
    /\ volUsed \in VolLevels
    /\ volVm.phase \in {"none", "up", "ended"}
    /\ volVm.size \in VolSizes \cup {0} /\ volVm.found \in VolLevels
    /\ volSample.used \in VolLevels
    /\ volPc \in {"idle", "ensure", "annotate", "publish"}
    /\ volFaults \in 0 .. MaxVolFaults

\* What a VM leaves in the directory: the size it was created for, or what it
\* found there if that was more already.
Cap == Max({volVm.size, volVm.found})

\* A VM that was created writes no further than the size, whatever earlier VMs
\* wrote, what was freed, and however often the size was declared anew between
\* the passes. One started in place is the exception (VolumeSizeCaps).
FreshQuotaCaps == [][volUsed' > volUsed /\ ~volVm.again => volUsed' <= Cap]_volVars

\* storage.mdx:77 and msb_sdk.rs:199: whenever the microVM starts it is given what
\* remains of the size, an absolute cap that survives restarts.
VolumeSizeCaps == [][volUsed' > volUsed => volUsed' <= Cap]_volVars

\* Once nothing is written, applied or ended any more, what the operator reads
\* is what the disks hold: a full disk is called full, and a note whose cause is
\* gone disappears, whatever samples, failed writes and crashes came between.
NotesTrue ==
    volSize # 0 /\ volVm.phase = "up" =>
        /\ Note("volume") = Classify(volUsed, volSize)
        /\ Note("root") = Classify(volVm.root, RootCapacity)
        /\ StripMarker(volMsg) # <<>>
NotesSettle == <>[][FALSE]_<<volSize, volUsed, volVm>> => <>[]NotesTrue
=============================================================================
