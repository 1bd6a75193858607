--------------------------- MODULE ApplyPathProofs ---------------------------
(***************************************************************************)
(* Proofs about the parts of the apply path that have none of their own:   *)
(* the quota of a volume, the search of a document's depends_on, and the   *)
(* way of a declared key into its guest; and about the five parts side by  *)
(* side, as MCApplyPath runs them.                                         *)
(***************************************************************************)
EXTENDS MCApplyPath, StackApplyProofs, SqliteStoreProofs, SequenceTheorems

(***************************************************************************)
(* Volumes.                                                                *)
(***************************************************************************)

LEMMA LargerOfTwo ==
    ASSUME NEW a \in Nat, NEW b \in Nat
    PROVE  Max({a, b}) = IF a >= b THEN a ELSE b
  BY DEF Max

\* The records a volume's VM can be.
VolVMs == [phase : {"none", "up", "ended"}, size : VolSizes \cup {0}, quota : Nat,
           found : VolLevels, again : BOOLEAN, root : {0, RootCapacity}]
VolSamples == [known : BOOLEAN, used : VolLevels, fresh : BOOLEAN]

\* A VM that was not started in place has what was left of its size when it
\* found what it found.
VolInv ==
    /\ VolTypeOK
    /\ volVm \in VolVMs /\ volSample \in VolSamples
    /\ ~volVm.again => volVm.quota = RemainingQuota(volVm.size, volVm.found)

LEMMA QuotaNat ==
    ASSUME NEW size \in Nat, NEW used \in Nat
    PROVE  /\ RemainingQuota(size, used) \in Nat
           /\ used + RemainingQuota(size, used) = IF used < size THEN size ELSE used
  BY DEF RemainingQuota

LEMMA VolInitInv == VolInit => VolInv
  BY VolumeBounds DEF VolInit, VolInv, VolTypeOK, VolVMs, VolSamples, NoVolVm,
     NoSample, RemainingQuota

LEMMA VolVmKept ==
    ASSUME VolInv, NEW size \in VolSizes \cup {0}
    PROVE  /\ CreatedVm(size) \in VolVMs /\ ~CreatedVm(size).again
           /\ CreatedVm(size).quota = RemainingQuota(CreatedVm(size).size, CreatedVm(size).found)
           /\ StartedVm \in VolVMs /\ StartedVm.again
<1>1. size \in Nat /\ volUsed \in Nat /\ volUsed \in VolLevels
  BY VolumeBounds DEF VolInv, VolTypeOK
<1>2. RemainingQuota(size, volUsed) \in Nat
  BY <1>1, QuotaNat
<1>3. /\ CreatedVm(size) \in VolVMs /\ ~CreatedVm(size).again
      /\ CreatedVm(size).quota = RemainingQuota(CreatedVm(size).size, CreatedVm(size).found)
  BY <1>1, <1>2, VolumeBounds DEF CreatedVm, Measured, VolVMs
<1>4. StartedVm \in VolVMs /\ StartedVm.again
  BY <1>1 DEF StartedVm, VolVMs, VolInv
<1>. QED  BY <1>3, <1>4

LEMMA VolNextInv == VolInv /\ [VolNext]_volVars => VolInv'
<1> SUFFICES ASSUME VolInv, [VolNext]_volVars PROVE VolInv'
  OBVIOUS
<1> USE VolumeBounds DEF VolInv, VolTypeOK
<1>1. ASSUME NEW size \in VolSizes, VolApply(size) PROVE VolInv'
  BY <1>1 DEF VolApply, volPass
<1>2. ASSUME VolDelete PROVE VolInv'
  BY <1>2 DEF VolDelete
<1>3. ASSUME NEW level \in VolLevels, GuestWrites(level) \/ GuestFrees(level)
      PROVE VolInv'
  BY <1>3 DEF GuestWrites, GuestFrees, volPass
<1>4. ASSUME RootFills PROVE VolInv'
  BY <1>4 DEF RootFills, volPass, VolVMs
<1>5. ASSUME VmEnds PROVE VolInv'
  BY <1>5 DEF VmEnds, volPass, VolVMs
<1>6. ASSUME VolStartPass PROVE VolInv'
  <2>1. NoVolVm \in VolVMs /\ NoVolVm.quota = RemainingQuota(NoVolVm.size, NoVolVm.found)
        /\ NoVolVm.phase = "none" /\ NoVolVm.size = 0 /\ NoVolVm.found = 0
    BY DEF NoVolVm, VolVMs, RemainingQuota
  <2>. QED  BY <1>6, <2>1 DEF VolStartPass
<1>7. ASSUME VolEnsure PROVE VolInv'
  <2>1. volVm' \in {volVm, StartedVm, CreatedVm(volWant)}
    BY <1>7 DEF VolEnsure, EnsuredVms
  <2>2. /\ volVm' \in VolVMs
        /\ ~volVm'.again => volVm'.quota = RemainingQuota(volVm'.size, volVm'.found)
    BY <2>1, VolVmKept
  <2>3. volVm'.phase \in {"none", "up", "ended"} /\ volVm'.size \in VolSizes \cup {0}
        /\ volVm'.found \in VolLevels
    BY <2>2 DEF VolVMs
  <2>4. volFaults' \in 0 .. MaxVolFaults
    BY <1>7 DEF VolEnsure, VolFault
  <2>. QED  BY <1>7, <2>2, <2>3, <2>4 DEF VolEnsure
<1>8. ASSUME VolAnnotate PROVE VolInv'
  <2>1. volSample' \in VolSamples /\ volSample'.used \in VolLevels
    BY <1>8 DEF VolAnnotate, VolSamples
  <2>2. volFaults' \in 0 .. MaxVolFaults
    BY <1>8 DEF VolAnnotate, VolFault
  <2>. QED  BY <1>8, <2>1, <2>2 DEF VolAnnotate
<1>9. ASSUME VolPublish PROVE VolInv'
  BY <1>9 DEF VolPublish, VolFault
<1>10. ASSUME SampleAges PROVE VolInv'
  <2>1. volSample' \in VolSamples /\ volSample'.used \in VolLevels
    BY <1>10 DEF SampleAges, VolSamples
  <2>. QED  BY <1>10, <2>1 DEF SampleAges, volPass
<1>11. ASSUME VolCrash PROVE VolInv'
  BY <1>11 DEF VolCrash, VolFault, NoSample, VolSamples
<1>12. ASSUME UNCHANGED volVars PROVE VolInv'
  BY <1>12 DEF volVars
<1>. QED
  BY <1>1, <1>2, <1>3, <1>4, <1>5, <1>6, <1>7, <1>8, <1>9, <1>10, <1>11, <1>12
  DEF VolNext, VolPassStep

\* What a guest writes stays within the quota its VM was given.
LEMMA QuotaStep ==
    VolInv /\ [VolNext]_volVars
      => [volUsed' > volUsed /\ ~volVm.again => volUsed' <= Cap]_volVars
<1>1. ASSUME VolInv, [VolNext]_volVars, volUsed' > volUsed, ~volVm.again
      PROVE  volUsed' <= Cap
  <2>1. PICK level \in VolLevels : GuestWrites(level)
    <3>1. volUsed \in Nat /\ VolLevels \subseteq Nat
      BY <1>1, VolumeBounds DEF VolInv, VolTypeOK
    <3>2. volUsed' # volUsed
      BY <1>1, <3>1
    <3>3. CASE UNCHANGED volVars
      BY <3>2, <3>3 DEF volVars
    <3>4. ASSUME NEW level \in VolLevels, GuestFrees(level) PROVE FALSE
      BY <1>1, <3>1, <3>4 DEF GuestFrees
    <3>. QED
      BY <1>1, <3>2, <3>3, <3>4
      DEF VolNext, VolPassStep, VolApply, VolDelete, RootFills, VmEnds, VolStartPass,
          VolEnsure, VolAnnotate, VolPublish, SampleAges, VolCrash
  <2>2. volVm.size \in Nat /\ volVm.found \in Nat /\ level \in Nat
    BY <1>1, VolumeBounds DEF VolInv, VolTypeOK
  <2>3. volUsed' <= volVm.found + RemainingQuota(volVm.size, volVm.found)
    BY <1>1, <2>1 DEF GuestWrites, VolInv
  <2>4. Cap = IF volVm.size >= volVm.found THEN volVm.size ELSE volVm.found
    BY <2>2, LargerOfTwo DEF Cap
  <2>5. volUsed' \in Nat
    BY <2>1, <2>2 DEF GuestWrites
  <2>6. volVm.found + RemainingQuota(volVm.size, volVm.found)
          = IF volVm.found < volVm.size THEN volVm.size ELSE volVm.found
    BY <2>2, QuotaNat
  <2>. QED  BY <2>2, <2>3, <2>4, <2>5, <2>6
<1>. QED  BY <1>1

\* A VM that was created writes no further than its declared size, or than what
\* it found in the directory, for all sizes and whatever is written, freed,
\* declared anew and restarted (remaining_quota_mib, dir_size_mib).
THEOREM FreshQuotasCap == VolSpec => FreshQuotaCaps
  BY QuotaStep, VolInitInv, VolNextInv, PTL DEF VolSpec, FreshQuotaCaps

(***************************************************************************)
(* The search of depends_on.                                               *)
(***************************************************************************)
Done == {s \in DocServices : docColor[s] = "done"}
DocFrames == [service : DocServices, left : SUBSET DocNames]

DocTyped ==
    /\ docDepends \in [DocServices -> [DocNames -> DocConditions \cup {"no"}]]
    /\ docColor \in [DocServices -> {"new", "on_stack", "done"}]
    /\ docVerdict \in {"references", "bad_reference", "searching", "cycle", "accepted"}
    /\ docStack \in Seq(DocFrames)

\* A service is on the stack once, and as long as its colour says so.
StackIsColored ==
    /\ \A s \in DocServices :
         docColor[s] = "on_stack" <=> \E k \in 1 .. Len(docStack) : docStack[k].service = s
    /\ \A j, k \in 1 .. Len(docStack) : docStack[j].service = docStack[k].service => j = k

\* Every frame depends on the next one, and is through with all it depends on
\* but that one and what is left of it.
StackIsPath ==
    /\ \A k \in 1 .. Len(docStack) - 1 :
         docStack[k + 1].service \in Dependencies(docStack[k].service)
    /\ \A k \in 1 .. Len(docStack) :
         /\ docStack[k].left \subseteq Dependencies(docStack[k].service)
         /\ \A d \in Dependencies(docStack[k].service) \ docStack[k].left :
              \/ d \in Done
              \/ k < Len(docStack) /\ docStack[k + 1].service = d

\* The services that are done can be started in the order they were left.
DoneInOrder ==
    \E rank \in [Done -> 1 .. Cardinality(Done)] :
        \A s \in Done : \A d \in Dependencies(s) : d \in Done /\ rank[d] < rank[s]

\* What each verdict says of the search.
VerdictMatches ==
    /\ docVerdict \in {"searching", "cycle", "accepted"} => ReferencesHold
    /\ docVerdict \in {"references", "bad_reference"} => docStack = <<>>
    /\ docVerdict = "accepted" => Done = DocServices
    /\ docVerdict = "cycle" =>
         /\ docStack # <<>>
         /\ \E k \in 1 .. Len(docStack) : docStack[k].service \in Dependencies(Top.service)

DocInv == DocTyped /\ StackIsColored /\ StackIsPath /\ DoneInOrder /\ VerdictMatches

-----------------------------------------------------------------------------
\* What the stack looks like after a step of the search.
LEMMA SearchStack ==
    ASSUME DocTyped, StackIsPath, Searching, ReferencesHold
    PROVE  /\ Len(docStack) \in Nat \ {0} /\ Top = docStack[Len(docStack)]
           /\ Top \in DocFrames /\ Top.service \in DocServices
           /\ Top.left # {} =>
                /\ NextDependency \in Top.left
                /\ NextDependency \in Dependencies(Top.service)
                /\ NextDependency \in DocServices
<1>1. Len(docStack) \in Nat \ {0}
  BY EmptySeq DEF DocTyped, Searching
<1>2. Top \in DocFrames
  BY <1>1 DEF DocTyped, Top
<1>3. Top.left \subseteq Nat /\ Top.left \subseteq Dependencies(Top.service)
  <2>1. Len(docStack) \in 1 .. Len(docStack)
    BY <1>1
  <2>2. Top.left \subseteq Dependencies(Top.service)
    BY <2>1 DEF StackIsPath, Top
  <2>. QED  BY <2>2, DocumentsAreNumbered DEF Dependencies
<1>4. Top.left # {} => NextDependency \in Top.left
  BY <1>3, MinIn DEF NextDependency
<1>. QED  BY <1>1, <1>2, <1>3, <1>4 DEF DocFrames, Top, ReferencesHold

LEMMA AdvancedStack ==
    ASSUME DocTyped, StackIsPath, Searching, ReferencesHold, Top.left # {}
    PROVE  /\ Advanced \in Seq(DocFrames) /\ Len(Advanced) = Len(docStack)
           /\ \A k \in 1 .. Len(docStack) :
                /\ Advanced[k].service = docStack[k].service
                /\ Advanced[k].left = IF k = Len(docStack)
                                      THEN Top.left \ {NextDependency} ELSE docStack[k].left
<1>. DEFINE n == Len(docStack)
            e == [docStack[n] EXCEPT !.left = @ \ {NextDependency}]
<1>1. n \in Nat \ {0} /\ Top = docStack[n] /\ Top \in DocFrames
  BY SearchStack
<1>2. e \in DocFrames /\ e.service = Top.service /\ e.left = Top.left \ {NextDependency}
  BY <1>1 DEF DocFrames
<1>3. Advanced = [docStack EXCEPT ![n] = e]
  BY DEF Advanced
<1>4. docStack \in Seq(DocFrames) /\ n \in 1 .. Len(docStack)
  BY <1>1 DEF DocTyped
<1>. HIDE DEF e
<1>5. /\ Advanced \in Seq(DocFrames) /\ Len(Advanced) = Len(docStack)
      /\ \A k \in 1 .. Len(docStack) : Advanced[k] = IF k = n THEN e ELSE docStack[k]
  BY <1>2, <1>3, <1>4, ExceptSeq
<1>. QED  BY <1>1, <1>2, <1>5

LEMMA DocInitInv == DocInit => DocInv
<1>. SUFFICES ASSUME DocInit PROVE DocInv
  OBVIOUS
<1>1. DocTyped
  BY DocumentsAreNumbered, EmptySeq DEF DocInit, DocTyped
<1>2. Len(docStack) = 0 /\ Done = {}
  BY EmptySeq DEF DocInit, Done
<1>3. StackIsColored /\ StackIsPath /\ VerdictMatches
  BY <1>2 DEF DocInit, StackIsColored, StackIsPath, VerdictMatches
<1>4. DoneInOrder
  <2>. DEFINE none == [s \in Done |-> 1]
  <2>1. none \in [Done -> 1 .. Cardinality(Done)]
    BY <1>2
  <2>. QED  BY <1>2, <2>1 DEF DoneInOrder
<1>. QED  BY <1>1, <1>3, <1>4 DEF DocInv

\* The search enters a service that is new, on an empty stack or below the top.
LEMMA VisitKeeps ==
    ASSUME DocInv, VisitRoot \/ VisitDependency
    PROVE  DocInv'
<1>. USE DEF DocInv
<1>1. docVerdict = "searching" /\ ReferencesHold
  BY DEF VisitRoot, VisitDependency, Searching, VerdictMatches
<1>2. PICK s \in DocServices :
        /\ docColor[s] = "new" /\ Visit(s)
        /\ \/ docStack = <<>> /\ docStack' = <<Frame(s)>>
           \/ /\ Searching /\ Top.left # {} /\ s = NextDependency
              /\ docStack' = Append(Advanced, Frame(s))
  <2>1. CASE VisitRoot
    <3>. DEFINE new == {s \in DocServices : docColor[s] = "new"}
    <3>1. new \in SUBSET Nat /\ new # {}
      BY <2>1, DocumentsAreNumbered DEF VisitRoot
    <3>2. Min(new) \in new
      <4>. HIDE DEF new
      <4>. QED  BY <3>1, MinIn
    <3>. QED  BY <2>1, <3>2 DEF VisitRoot
  <2>2. CASE VisitDependency
    BY <1>1, <2>2, SearchStack DEF VisitDependency
  <2>. QED  BY <2>1, <2>2
<1>3. /\ docColor' = [docColor EXCEPT ![s] = "on_stack"]
      /\ docDepends' = docDepends /\ docVerdict' = docVerdict
  BY <1>2 DEF Visit
<1>4. Frame(s) \in DocFrames /\ Frame(s).service = s /\ Frame(s).left = Dependencies(s)
  BY DEF Frame, DocFrames, Dependencies
<1>5. /\ \A x : Dependencies(x)' = Dependencies(x)
      /\ ReferencesHold' = ReferencesHold
      /\ Done' = Done
  BY <1>2, <1>3 DEF Dependencies, ReferencesHold, Done, DocTyped
<1>. DEFINE n == Len(docStack)
<1>6. /\ n \in Nat /\ docStack' \in Seq(DocFrames) /\ Len(docStack') = n + 1
      /\ \A k \in 1 .. n : /\ docStack'[k].service = docStack[k].service
                           /\ docStack'[k].left =
                                IF k = n THEN Top.left \ {s} ELSE docStack[k].left
      /\ docStack'[n + 1] = Frame(s)
      /\ n # 0 => s \in Dependencies(Top.service) /\ Top = docStack[n]
  <2>1. CASE docStack = <<>> /\ docStack' = <<Frame(s)>>
    BY <1>4, <2>1
  <2>2. CASE /\ Searching /\ Top.left # {} /\ s = NextDependency
             /\ docStack' = Append(Advanced, Frame(s))
    <3>1. /\ Advanced \in Seq(DocFrames) /\ Len(Advanced) = n
          /\ \A k \in 1 .. n :
                /\ Advanced[k].service = docStack[k].service
                /\ Advanced[k].left = IF k = n THEN Top.left \ {s} ELSE docStack[k].left
      BY <1>1, <2>2, AdvancedStack
    <3>2. n \in Nat /\ s \in Dependencies(Top.service) /\ Top = docStack[n]
      BY <1>1, <2>2, SearchStack
    <3>3. docStack' \in Seq(DocFrames) /\ Len(docStack') = n + 1
          /\ docStack'[n + 1] = Frame(s)
          /\ \A k \in 1 .. n : docStack'[k] = Advanced[k]
      BY <1>4, <2>2, <3>1, <3>2, AppendProperties
    <3>. QED  BY <3>1, <3>2, <3>3
  <2>. QED  BY <1>2, <2>1, <2>2
<1>7. DocTyped'
  BY <1>3, <1>6 DEF DocTyped
<1>8. StackIsColored'
  <2>1. \A k \in 1 .. n : docStack[k].service # s
    BY <1>2 DEF StackIsColored
  <2>3. docStack'[n + 1].service = s
    BY <1>4, <1>6
  <2>4. \A j, k \in 1 .. Len(docStack') : docStack'[j].service = docStack'[k].service => j = k
    BY <1>6, <2>1, <2>3 DEF StackIsColored
  <2>5. ASSUME NEW t \in DocServices
        PROVE  docColor'[t] = "on_stack"
                 <=> \E k \in 1 .. Len(docStack') : docStack'[k].service = t
    <3>1. CASE t = s
      BY <1>3, <1>6, <2>3, <3>1 DEF DocTyped
    <3>2. CASE t # s
      <4>1. docColor'[t] = docColor[t]
        BY <1>3, <3>2 DEF DocTyped
      <4>2. (\E k \in 1 .. Len(docStack') : docStack'[k].service = t)
              <=> \E k \in 1 .. n : docStack[k].service = t
        BY <1>6, <2>3, <3>2
      <4>. QED  BY <4>1, <4>2 DEF StackIsColored
    <3>. QED  BY <3>1, <3>2
  <2>. QED  BY <2>4, <2>5 DEF StackIsColored
<1>9. StackIsPath'
  <2>1. ASSUME NEW k \in 1 .. Len(docStack') - 1
        PROVE  docStack'[k + 1].service \in Dependencies(docStack'[k].service)
    <3>1. k \in 1 .. n /\ docStack'[k].service = docStack[k].service
      BY <1>6
    <3>2. CASE k = n
      BY <1>4, <1>6, <3>1, <3>2
    <3>3. CASE k < n
      <4>1. docStack'[k + 1].service = docStack[k + 1].service
        BY <1>6, <3>1, <3>3
      <4>. QED  BY <1>6, <3>1, <3>3, <4>1 DEF StackIsPath
    <3>. QED  BY <1>6, <3>1, <3>2, <3>3
  <2>2. ASSUME NEW k \in 1 .. Len(docStack')
        PROVE  /\ docStack'[k].left \subseteq Dependencies(docStack'[k].service)
               /\ \A d \in Dependencies(docStack'[k].service) \ docStack'[k].left :
                    \/ d \in Done
                    \/ k < Len(docStack') /\ docStack'[k + 1].service = d
    <3>1. CASE k = n + 1
      BY <1>4, <1>6, <3>1
    <3>2. CASE k = n
      <4>1. /\ k \in 1 .. n /\ docStack'[k].service = docStack[k].service
            /\ docStack'[k].left = docStack[k].left \ {s}
            /\ docStack'[k + 1].service = s /\ k < Len(docStack')
        BY <1>4, <1>6, <3>2
      <4>2. \A d \in Dependencies(docStack[k].service) \ docStack[k].left : d \in Done
        BY <1>6, <3>2, <4>1 DEF StackIsPath
      <4>. QED  BY <4>1, <4>2 DEF StackIsPath
    <3>3. CASE k < n
      <4>1. /\ k \in 1 .. n /\ docStack'[k].service = docStack[k].service
            /\ docStack'[k].left = docStack[k].left
            /\ docStack'[k + 1].service = docStack[k + 1].service /\ k < Len(docStack')
        BY <1>6, <3>3
      <4>. QED  BY <4>1 DEF StackIsPath
    <3>. QED  BY <1>6, <3>1, <3>2, <3>3
  <2>. QED  BY <1>5, <2>1, <2>2 DEF StackIsPath
<1>10. DoneInOrder'
  BY <1>5 DEF DoneInOrder
<1>11. VerdictMatches'
  BY <1>1, <1>3, <1>5 DEF VerdictMatches
<1>. QED  BY <1>7, <1>8, <1>9, <1>10, <1>11

\* A dependency that is done is skipped.
LEMMA SkipKeeps ==
    ASSUME DocInv, SkipDependency
    PROVE  DocInv'
<1>. USE DEF DocInv
<1>. DEFINE n == Len(docStack)
<1>1. /\ Searching /\ Top.left # {} /\ docColor[NextDependency] = "done"
      /\ docStack' = Advanced
      /\ docDepends' = docDepends /\ docColor' = docColor /\ docVerdict' = docVerdict
  BY DEF SkipDependency
<1>2. docVerdict = "searching" /\ ReferencesHold
  BY <1>1 DEF Searching, VerdictMatches
<1>3. /\ n \in Nat \ {0} /\ Top = docStack[n] /\ NextDependency \in DocServices
      /\ NextDependency \in Done
  BY <1>1, <1>2, SearchStack DEF Done
<1>4. /\ docStack' \in Seq(DocFrames) /\ Len(docStack') = n
      /\ \A k \in 1 .. n : /\ docStack'[k].service = docStack[k].service
                           /\ docStack'[k].left =
                                IF k = n THEN Top.left \ {NextDependency}
                                ELSE docStack[k].left
  BY <1>1, <1>2, AdvancedStack
<1>5. /\ \A x : Dependencies(x)' = Dependencies(x)
      /\ ReferencesHold' = ReferencesHold
      /\ Done' = Done
  BY <1>1 DEF Dependencies, ReferencesHold, Done
<1>6. DocTyped' /\ StackIsColored'
  <2>1. DocTyped'
    BY <1>1, <1>4 DEF DocTyped
  <2>2. \A j, k \in 1 .. n : docStack'[j].service = docStack'[k].service => j = k
    BY <1>4 DEF StackIsColored
  <2>3. ASSUME NEW t \in DocServices
        PROVE  (\E k \in 1 .. n : docStack'[k].service = t)
                 <=> \E k \in 1 .. n : docStack[k].service = t
    BY <1>4
  <2>. QED  BY <1>1, <1>4, <2>1, <2>2, <2>3 DEF StackIsColored
<1>7. StackIsPath'
  <2>1. ASSUME NEW k \in 1 .. n - 1
        PROVE  docStack'[k + 1].service \in Dependencies(docStack'[k].service)
    <3>1. k \in 1 .. n /\ k + 1 \in 1 .. n
      BY <1>3
    <3>2. /\ docStack'[k].service = docStack[k].service
          /\ docStack'[k + 1].service = docStack[k + 1].service
      BY <1>4, <3>1
    <3>3. docStack[k + 1].service \in Dependencies(docStack[k].service)
      BY DEF StackIsPath
    <3>. QED  BY <3>2, <3>3
  <2>2. ASSUME NEW k \in 1 .. n
        PROVE  /\ docStack'[k].left \subseteq Dependencies(docStack'[k].service)
               /\ \A d \in Dependencies(docStack'[k].service) \ docStack'[k].left :
                    \/ d \in Done
                    \/ k < n /\ docStack'[k + 1].service = d
    <3>1. docStack'[k].left \subseteq docStack[k].left
      BY <1>3, <1>4
    <3>2. docStack[k].left \subseteq docStack'[k].left \cup Done
      BY <1>3, <1>4
    <3>3. k < n => docStack'[k + 1].service = docStack[k + 1].service
      BY <1>3, <1>4
    <3>. QED  BY <1>4, <3>1, <3>2, <3>3 DEF StackIsPath
  <2>. QED  BY <1>4, <1>5, <2>1, <2>2 DEF StackIsPath
<1>8. DoneInOrder'
  BY <1>5 DEF DoneInOrder
<1>9. VerdictMatches'
  BY <1>1, <1>2, <1>5 DEF VerdictMatches
<1>. QED  BY <1>6, <1>7, <1>8, <1>9

\* A service is left when all it depends on is done: it comes last in the order.
LEMMA LeaveKeeps ==
    ASSUME DocInv, Leave
    PROVE  DocInv'
<1>. USE DEF DocInv
<1>. DEFINE n == Len(docStack)
            s == Top.service
<1>1. /\ Searching /\ Top.left = {}
      /\ docColor' = [docColor EXCEPT ![s] = "done"]
      /\ docStack' = SubSeq(docStack, 1, n - 1)
      /\ docDepends' = docDepends /\ docVerdict' = docVerdict
  BY DEF Leave, ColorOnLeaving
<1>2. docVerdict = "searching" /\ ReferencesHold
  BY <1>1 DEF Searching, VerdictMatches
<1>3. n \in Nat \ {0} /\ Top = docStack[n] /\ s \in DocServices
  BY <1>1, <1>2, SearchStack
<1>4. /\ docStack' \in Seq(DocFrames) /\ Len(docStack') = n - 1
      /\ \A k \in 1 .. n - 1 : docStack'[k] = docStack[k]
  <2>1. \A k \in 1 .. n - 1 : docStack[k] \in DocFrames
    BY <1>3 DEF DocTyped
  <2>. DEFINE t == SubSeq(docStack, 1, n - 1)
  <2>2. /\ t \in Seq(DocFrames)
        /\ Len(t) = IF 1 <= n - 1 THEN (n - 1) - 1 + 1 ELSE 0
        /\ \A k \in 1 .. (n - 1) - 1 + 1 : t[k] = docStack[1 + k - 1]
    BY <1>3, <2>1, SubSeqProperties
  <2>. HIDE DEF t
  <2>3. Len(t) = n - 1
    <3>. HIDE DEF n
    <3>1. CASE 1 <= n - 1
      BY <1>3, <2>2, <3>1
    <3>2. CASE ~(1 <= n - 1)
      BY <1>3, <2>2, <3>2
    <3>. QED  BY <3>1, <3>2
  <2>4. ASSUME NEW k \in 1 .. n - 1 PROVE t[k] = docStack[k]
    <3>1. k \in 1 .. (n - 1) - 1 + 1 /\ 1 + k - 1 = k
      BY <1>3
    <3>. QED  BY <2>2, <3>1
  <2>. QED  BY <1>1, <2>2, <2>3, <2>4 DEF t
<1>5. /\ \A x : Dependencies(x)' = Dependencies(x)
      /\ ReferencesHold' = ReferencesHold
  BY <1>1 DEF Dependencies, ReferencesHold
<1>6. Done' = Done \cup {s} /\ s \notin Done /\ Dependencies(s) \subseteq Done
  <2>1. docColor[s] = "on_stack"
    BY <1>3 DEF StackIsColored
  <2>2. Dependencies(s) \subseteq Done
    <3>1. \A d \in Dependencies(docStack[n].service) \ docStack[n].left :
             d \in Done \/ (n < Len(docStack) /\ docStack[n + 1].service = d)
      BY <1>3 DEF StackIsPath
    <3>. QED  BY <1>1, <1>3, <3>1
  <2>. QED  BY <1>1, <1>3, <2>1, <2>2 DEF Done, DocTyped
<1>7. DocTyped'
  BY <1>1, <1>4 DEF DocTyped
<1>8. StackIsColored'
  <2>1. \A j, k \in 1 .. n - 1 : docStack'[j].service = docStack'[k].service => j = k
    BY <1>3, <1>4 DEF StackIsColored
  <2>2. ASSUME NEW t \in DocServices
        PROVE  docColor'[t] = "on_stack"
                 <=> \E k \in 1 .. n - 1 : docStack'[k].service = t
    <3>1. CASE t = s
      <4>1. docColor'[t] = "done"
        BY <1>1, <1>3, <3>1 DEF DocTyped
      <4>2. \A k \in 1 .. n - 1 : docStack[k].service # s
        BY <1>3 DEF StackIsColored
      <4>. QED  BY <1>4, <3>1, <4>1, <4>2
    <3>2. CASE t # s
      <4>1. docColor'[t] = docColor[t]
        BY <1>1, <3>2 DEF DocTyped
      <4>2. (\E k \in 1 .. n : docStack[k].service = t)
              <=> \E k \in 1 .. n - 1 : docStack'[k].service = t
        BY <1>3, <1>4, <3>2
      <4>. QED  BY <4>1, <4>2 DEF StackIsColored
    <3>. QED  BY <3>1, <3>2
  <2>. QED  BY <1>4, <2>1, <2>2 DEF StackIsColored
<1>9. StackIsPath'
  <2>1. \A k \in 1 .. n - 2 :
           docStack'[k + 1].service \in Dependencies(docStack'[k].service)
    BY <1>3, <1>4 DEF StackIsPath
  <2>2. ASSUME NEW k \in 1 .. n - 1
        PROVE  /\ docStack'[k].left \subseteq Dependencies(docStack'[k].service)
               /\ \A d \in Dependencies(docStack'[k].service) \ docStack'[k].left :
                    \/ d \in Done'
                    \/ k < n - 1 /\ docStack'[k + 1].service = d
    <3>1. CASE k = n - 1
      <4>1. docStack[k + 1].service = s
        BY <1>3, <3>1
      <4>. QED  BY <1>3, <1>4, <1>6, <3>1, <4>1 DEF StackIsPath
    <3>2. CASE k < n - 1
      <4>1. docStack'[k + 1] = docStack[k + 1] /\ docStack'[k] = docStack[k]
        BY <1>3, <1>4, <3>2
      <4>. QED  BY <1>3, <1>6, <3>2, <4>1 DEF StackIsPath
    <3>. QED  BY <1>3, <3>1, <3>2
  <2>3. Len(docStack') - 1 = n - 2 /\ Len(docStack') = n - 1
    BY <1>3, <1>4
  <2>. QED  BY <1>5, <2>1, <2>2, <2>3 DEF StackIsPath
<1>10. DoneInOrder'
  <2>1. PICK rank \in [Done -> 1 .. Cardinality(Done)] :
           \A t \in Done : \A d \in Dependencies(t) : d \in Done /\ rank[d] < rank[t]
    BY DEF DoneInOrder
  <2>2. Cardinality(Done) \in Nat /\ Cardinality(Done \cup {s}) = Cardinality(Done) + 1
    <3>1. IsFiniteSet(Done)
      BY DocumentsAreNumbered, FS_Subset DEF Done
    <3>. QED  BY <1>6, <3>1, FS_CardinalityType, FS_AddElement
  <2>. DEFINE m == Cardinality(Done) + 1
              last == [t \in Done \cup {s} |-> IF t = s THEN m ELSE rank[t]]
  <2>3. last \in [Done \cup {s} -> 1 .. m]
    BY <1>6, <2>2
  <2>4. ASSUME NEW t \in Done \cup {s}, NEW d \in Dependencies(t)
        PROVE  d \in Done \cup {s} /\ last[d] < last[t]
    <3>1. CASE t = s
      <4>1. d \in Done /\ last[d] = rank[d] /\ last[t] = m
        BY <1>6, <2>4, <3>1
      <4>. QED  BY <2>2, <4>1
    <3>2. CASE t # s
      <4>1. d \in Done /\ rank[d] < rank[t] /\ last[d] = rank[d] /\ last[t] = rank[t]
        BY <1>6, <2>1, <2>4, <3>2
      <4>. QED  BY <4>1
    <3>. QED  BY <3>1, <3>2
  <2>5. m = Cardinality(Done \cup {s})
    BY <2>2
  <2>. HIDE DEF last, m
  <2>. QED  BY <1>5, <1>6, <2>3, <2>4, <2>5 DEF DoneInOrder
<1>11. VerdictMatches'
  BY <1>1, <1>2, <1>5 DEF VerdictMatches
<1>. QED  BY <1>7, <1>8, <1>9, <1>10, <1>11

\* The other steps only give a verdict.
LEMMA VerdictKeeps ==
    ASSUME DocInv, CheckReferences \/ FindCycle \/ Accept \/ UNCHANGED docVars
    PROVE  DocInv'
<1>. USE DEF DocInv
<1>1. docDepends' = docDepends /\ docColor' = docColor /\ docStack' = docStack
  BY DEF CheckReferences, FindCycle, Accept, docVars
<1>2. /\ \A x : Dependencies(x)' = Dependencies(x)
      /\ ReferencesHold' = ReferencesHold /\ Done' = Done /\ Top' = Top
  BY <1>1 DEF Dependencies, ReferencesHold, Done, Top
<1>3. DocTyped' /\ StackIsColored' /\ StackIsPath' /\ DoneInOrder'
  <2>1. docVerdict' \in {"references", "bad_reference", "searching", "cycle", "accepted"}
    BY DEF CheckReferences, FindCycle, Accept, docVars, DocTyped
  <2>. QED
    BY <1>1, <1>2, <2>1 DEF DocTyped, StackIsColored, StackIsPath, DoneInOrder
<1>4. VerdictMatches'
  <2>1. CASE CheckReferences
    BY <1>1, <1>2, <2>1 DEF CheckReferences, VerdictMatches
  <2>2. CASE FindCycle
    <3>1. Searching /\ ReferencesHold /\ docVerdict' = "cycle" /\ docStack # <<>>
      BY <2>2 DEF FindCycle, Searching, VerdictMatches
    <3>2. /\ Top.left # {} /\ docColor[NextDependency] = "on_stack"
          /\ NextDependency \in Dependencies(Top.service) /\ NextDependency \in DocServices
      BY <2>2, <3>1, SearchStack DEF FindCycle
    <3>3. \E k \in 1 .. Len(docStack) : docStack[k].service \in Dependencies(Top.service)
      BY <3>2 DEF StackIsColored
    <3>. QED  BY <1>1, <1>2, <3>1, <3>3 DEF VerdictMatches
  <2>3. CASE Accept
    <3>1. /\ docVerdict' = "accepted" /\ docStack = <<>> /\ docVerdict = "searching"
          /\ \A s \in DocServices : docColor[s] # "new"
      BY <2>3 DEF Accept
    <3>2. \A s \in DocServices : docColor[s] # "on_stack"
      BY <3>1, EmptySeq DEF StackIsColored
    <3>3. Done = DocServices
      BY <3>1, <3>2 DEF Done, DocTyped
    <3>. QED  BY <1>1, <1>2, <3>1, <3>3 DEF VerdictMatches
  <2>4. CASE UNCHANGED docVars
    BY <1>1, <1>2, <2>4 DEF docVars, VerdictMatches
  <2>. QED  BY <2>1, <2>2, <2>3, <2>4
<1>. QED  BY <1>3, <1>4

LEMMA DocNextInv == DocInv /\ [DocNext]_docVars => DocInv'
  BY VisitKeeps, SkipKeeps, LeaveKeeps, VerdictKeeps DEF DocNext

\* An accepted document starts in the order its services were left; one whose
\* search ended on the stack has none, since the frame that comes first in it
\* would still depend on another one.
LEMMA VerdictsAreRight == DocInv => AcceptedDocumentsStart
<1>. SUFFICES ASSUME DocInv PROVE AcceptedDocumentsStart
  OBVIOUS
<1>. USE DEF DocInv
<1>1. ASSUME docVerdict = "accepted" PROVE StartOrderExists /\ ReferencesHold
  <2>1. Done = DocServices /\ ReferencesHold
    BY <1>1 DEF VerdictMatches
  <2>. QED  BY <2>1 DEF DoneInOrder, StartOrderExists
<1>2. ASSUME docVerdict = "cycle", StartOrderExists PROVE FALSE
  <2>. DEFINE n == Len(docStack)
  <2>1. docStack \in Seq(DocFrames) /\ docStack # <<>> /\ n \in Nat \ {0}
    BY <1>2, EmptySeq DEF VerdictMatches, DocTyped
  <2>2. PICK c \in 1 .. n : docStack[c].service \in Dependencies(Top.service)
    BY <1>2 DEF VerdictMatches
  <2>3. PICK rank \in [DocServices -> 1 .. Cardinality(DocServices)] :
           \A s \in DocServices : \A d \in Dependencies(s) : rank[d] < rank[s]
    BY <1>2 DEF StartOrderExists
  <2>4. \A k \in 1 .. n : docStack[k].service \in DocServices
    <3>1. \A k \in 1 .. n : docStack[k] \in DocFrames
      BY <2>1
    <3>. QED  BY <3>1 DEF DocFrames
  <2>. DEFINE On == {docStack[k].service : k \in 1 .. n}
              Ranks == {rank[s] : s \in On}
  <2>5. \A s \in On : \E d \in On : rank[d] < rank[s]
    <3>1. ASSUME NEW k \in 1 .. n
          PROVE  \E d \in On : rank[d] < rank[docStack[k].service]
      <4>1. CASE k = n
        <5>1. docStack[c].service \in Dependencies(docStack[k].service)
          BY <2>2, <4>1 DEF Top
        <5>. QED  BY <2>2, <2>3, <2>4, <5>1
      <4>2. CASE k < n
        <5>1. k \in 1 .. n - 1 /\ k + 1 \in 1 .. n
          BY <2>1, <4>2
        <5>2. docStack[k + 1].service \in Dependencies(docStack[k].service)
          BY <5>1 DEF StackIsPath
        <5>. QED  BY <2>3, <2>4, <5>1, <5>2
      <4>. QED  BY <2>1, <4>1, <4>2
    <3>. QED  BY <3>1
  <2>6. Ranks \in SUBSET Nat /\ Ranks # {}
    <3>1. \A s \in DocServices : rank[s] \in Nat
      BY <2>3
    <3>. QED  BY <2>2, <2>4, <3>1
  <2>7. \A r \in Ranks : \E q \in Ranks : q < r
    BY <2>5
  <2>. HIDE DEF Ranks
  <2>8. Min(Ranks) \in Ranks /\ \A q \in Ranks : Min(Ranks) <= q
    BY <2>6, MinIn
  <2>9. PICK q \in Ranks : q < Min(Ranks)
    BY <2>7, <2>8
  <2>10. q \in Nat /\ Min(Ranks) \in Nat /\ Min(Ranks) <= q
    BY <2>6, <2>8
  <2>. QED  BY <2>9, <2>10
<1>. QED  BY <1>1, <1>2 DEF AcceptedDocumentsStart

\* For every document, the search ends in acceptance only if the services can be
\* started one after the other, each after what it depends on, and reports a
\* cycle only if they cannot (validate_depends_on).
THEOREM SearchIsRight == DocSpec => []AcceptedDocumentsStart
  BY DocInitInv, DocNextInv, VerdictsAreRight, PTL DEF DocSpec

(***************************************************************************)
(* Splitting a command: the fold over its characters stays among these     *)
(* states.                                                                 *)
(***************************************************************************)
\* Characters, those the splitter looks for among them.
Chars == STRING \cup {"'", "\"", "\\", " "}
Strings == Seq(Chars)

SplitModes == {"plain", "single", "double", "escaped", "escaped in quotes"}
SplitStates == [out : Seq(Strings), word : Strings, open : BOOLEAN, mode : SplitModes]
Splits == [p \in Chars \X SplitStates |-> SplitTake(p[2], p[1])]

\* Every step of the splitter keeps its states.
LEMMA SplitSteps ==
    ASSUME NEW s \in SplitStates, NEW c \in Chars
    PROVE  /\ SplitPush(s, c) \in SplitStates /\ SplitEnd(s) \in SplitStates
           /\ \A mode \in SplitModes : SplitInto(s, mode) \in SplitStates
           /\ SplitTake(s, c) \in SplitStates
           /\ SplitIdle \in SplitStates
<1>1. /\ s.out \in Seq(Strings) /\ s.word \in Strings /\ s.mode \in SplitModes
      /\ Append(s.word, c) \in Strings /\ Append(s.out, s.word) \in Seq(Strings)
  BY DEF SplitStates, Strings
<1>2. SplitIdle \in SplitStates
  <2>1. <<>> \in Seq(Strings) /\ <<>> \in Strings
    BY DEF Strings
  <2>. QED  BY <2>1 DEF SplitIdle, SplitStates, SplitModes
<1>3. ASSUME NEW r \in SplitStates PROVE SplitPush(r, c) \in SplitStates
  <2>1. Append(r.word, c) \in Strings
    BY DEF SplitStates, Strings
  <2>. QED  BY <2>1 DEF SplitPush, SplitStates
<1>4. SplitEnd(s) \in SplitStates
  BY <1>1, <1>2 DEF SplitEnd, SplitStates, SplitIdle
<1>5. ASSUME NEW mode \in SplitModes
      PROVE  SplitInto(s, mode) \in SplitStates /\ [s EXCEPT !.mode = mode] \in SplitStates
  BY DEF SplitInto, SplitStates
<1>6. {"plain", "single", "double", "escaped", "escaped in quotes"} \subseteq SplitModes
  BY DEF SplitModes
<1>7. SplitTake(s, c) \in SplitStates
  <2>1. CASE s.mode = "escaped"
    BY <1>3, <1>5, <1>6, <2>1 DEF SplitTake
  <2>2. CASE s.mode = "escaped in quotes"
    BY <1>3, <1>5, <1>6, <2>2 DEF SplitTake
  <2>3. CASE s.mode = "single"
    BY <1>3, <1>5, <1>6, <2>3 DEF SplitTake
  <2>4. CASE s.mode = "double"
    BY <1>3, <1>5, <1>6, <2>4 DEF SplitTake
  <2>5. CASE s.mode = "plain"
    BY <1>3, <1>4, <1>5, <1>6, <2>5 DEF SplitTake
  <2>. QED  BY <1>1, <2>1, <2>2, <2>3, <2>4, <2>5 DEF SplitModes
<1>. QED  BY <1>2, <1>3, <1>4, <1>5, <1>7

\* As a function, for the lemmas about folds.
LEMMA SplitsStep == StepsIn(Splits, Chars, SplitStates)
  BY SplitSteps DEF Splits, StepsIn

\* What the splitter computes over a text is such a fold.
LEMMA SplitFold ==
    ASSUME NEW text \in Strings, NEW base \in SplitStates
    PROVE  FoldLeft(SplitTake, base, text) = Fold(Splits, base, text)
<1>. DEFINE n == Len(text)
            up(h, S) == h = [s \in SUBSET S |->
                               IF s = {} THEN base
                               ELSE LET x == Max(s) IN SplitTake(h[s \ {x}], text[x])]
<1>0. n \in Nat /\ DOMAIN text = 1..n /\ \A i \in 1..n : text[i] \in Chars
  BY DEF Strings
<1>1. FoldLeft(SplitTake, base, text) = (CHOOSE h : up(h, DOMAIN text))[DOMAIN text]
  BY Zenon DEF FoldLeft, MapThenFoldSet
<1>2. ASSUME NEW k, \A s \in SUBSET (1..n) : k[s] \in SplitStates, NEW s \in SUBSET (1..n), s # {}
      PROVE  Splits[<<text[Max(s)], k[s \ {Max(s)}]>>] = SplitTake(k[s \ {Max(s)}], text[Max(s)])
  <2>1. Max(s) \in 1..n
    BY <1>0, <1>2, MaxIn
  <2>2. text[Max(s)] \in Chars /\ k[s \ {Max(s)}] \in SplitStates
    BY <1>0, <1>2, <2>1
  <2>. QED  BY <2>2 DEF Splits
<1>3. ASSUME NEW k, FoldsUp(k, Splits, base, text, 1..n) PROVE up(k, 1..n)
  <2>1. \A s \in SUBSET (1..n) : k[s] \in SplitStates
    BY <1>3, SplitsStep, FoldsUpType DEF Strings
  <2>2. \A s \in SUBSET (1..n) : s # {} =>
          Splits[<<text[Max(s)], k[s \ {Max(s)}]>>] = SplitTake(k[s \ {Max(s)}], text[Max(s)])
    BY <1>2, <2>1
  <2>. QED  BY <1>0, <1>3, <2>2 DEF FoldsUp
<1>4. ASSUME NEW k, up(k, 1..n) PROVE FoldsUp(k, Splits, base, text, 1..n)
  <2>. DEFINE P == {s \in SUBSET (1..n) : k[s] \in SplitStates}
  <2>1. {} \in P
    BY <1>4
  <2>2. ASSUME NEW s \in SUBSET (1..n), s # {}, s \ {Max(s)} \in P PROVE s \in P
    <3>1. Max(s) \in 1..n
      BY <1>0, <2>2, MaxIn
    <3>2. k[s] = SplitTake(k[s \ {Max(s)}], text[Max(s)])
      BY <1>4, <2>2
    <3>. QED  BY <1>0, <2>2, <3>1, <3>2, SplitSteps
  <2>3. P \in SUBSET (SUBSET (1..n))
    OBVIOUS
  <2>. HIDE DEF P
  <2>4. \A s \in SUBSET (1..n) : s \in P
    BY <1>0, <2>1, <2>2, <2>3, PlacesInduction
  <2>5. \A s \in SUBSET (1..n) : k[s] \in SplitStates
    BY <2>4 DEF P
  <2>6. \A s \in SUBSET (1..n) : s # {} =>
          Splits[<<text[Max(s)], k[s \ {Max(s)}]>>] = SplitTake(k[s \ {Max(s)}], text[Max(s)])
    BY <1>2, <2>5
  <2>. QED  BY <1>4, <2>6 DEF FoldsUp
<1>5. \A k : up(k, 1..n) <=> FoldsUp(k, Splits, base, text, 1..n)
  <2>. HIDE DEF up
  <2>. QED  BY <1>3, <1>4
<1>. HIDE DEF up
<1>. QED  BY <1>0, <1>1, <1>5 DEF Fold

\* Strings are closed under the operators on sequences.
LEMMA StringsClosed ==
    /\ <<>> \in Strings
    /\ \A c \in Chars : <<c>> \in Strings
    /\ \A t \in Strings : \A c \in Chars : Append(t, c) \in Strings
    /\ \A t, u \in Strings : t \o u \in Strings
  BY DEF Strings

Run(s, text) == FoldLeft(SplitTake, s, text)

\* Reading a text keeps the states, ...
LEMMA RunType ==
    ASSUME NEW text \in Strings, NEW s \in SplitStates
    PROVE  Run(s, text) \in SplitStates
<1>1. Fold(Splits, s, text) \in SplitStates
  BY SplitsStep, FoldType DEF Strings
<1>. QED  BY <1>1, SplitFold DEF Run

\* ... an empty one changes nothing, ...
LEMMA RunEmpty ==
    ASSUME NEW s \in SplitStates
    PROVE  Run(s, <<>>) = s
<1>1. Fold(Splits, s, <<>>) = s
  BY SplitsStep, FoldEmpty
<1>2. <<>> \in Strings
  BY DEF Strings
<1>. QED  BY <1>1, <1>2, SplitFold DEF Run

\* ... one more character is one more step, ...
LEMMA RunAppend ==
    ASSUME NEW text \in Strings, NEW s \in SplitStates, NEW c \in Chars
    PROVE  Run(s, Append(text, c)) = SplitTake(Run(s, text), c)
<1>1. Fold(Splits, s, Append(text, c)) = Splits[<<c, Fold(Splits, s, text)>>]
  BY SplitsStep, FoldAppend DEF Strings
<1>2. Append(text, c) \in Strings
  BY StringsClosed
<1>3. /\ Run(s, text) = Fold(Splits, s, text)
      /\ Run(s, Append(text, c)) = Fold(Splits, s, Append(text, c))
  BY <1>2, SplitFold DEF Run
<1>4. Run(s, text) \in SplitStates
  BY RunType
<1>. QED  BY <1>1, <1>3, <1>4 DEF Splits

\* ... and two texts are read one after the other.
LEMMA RunConcat ==
    ASSUME NEW text \in Strings, NEW more \in Strings, NEW s \in SplitStates
    PROVE  Run(s, text \o more) = Run(Run(s, text), more)
<1>1. Fold(Splits, s, text \o more) = Fold(Splits, Fold(Splits, s, text), more)
  BY SplitsStep, FoldConcat DEF Strings
<1>2. text \o more \in Strings
  BY DEF Strings
<1>3. /\ Run(s, text) = Fold(Splits, s, text)
      /\ Run(s, text \o more) = Fold(Splits, s, text \o more)
      /\ Run(Run(s, text), more) = Fold(Splits, Run(s, text), more)
  BY <1>2, RunType, SplitFold DEF Run
<1>. QED  BY <1>1, <1>3

\* A text of one character is one step.
LEMMA RunOne ==
    ASSUME NEW s \in SplitStates, NEW c \in Chars
    PROVE  Run(s, <<c>>) = SplitTake(s, c)
<1>1. <<>> \in Strings /\ Append(<<>>, c) = <<c>>
  BY DEF Strings
<1>. QED  BY <1>1, RunEmpty, RunAppend

\* The quoted form of a character is a string.
LEMMA QuotedCharIn == \A c \in Chars : QuotedChar(c) \in Strings
<1>. DEFINE q == "'"
            d == "\""
<1>1. q \in Chars /\ d \in Chars
  BY DEF Chars
<1>. HIDE DEF q, d
<1>2. <<q, d, q, d, q>> \in Strings /\ \A c \in Chars : <<c>> \in Strings
  BY <1>1 DEF Strings
<1>. QED  BY <1>2 DEF QuotedChar, q, d

\* A quote inside a quoted word ends the word's quotes, is quoted in others, and
\* opens them again.
LEMMA RunQuotedChar ==
    ASSUME NEW s \in SplitStates, s.mode = "single", NEW c \in Chars
    PROVE  QuotedChar(c) \in Strings /\ Run(s, QuotedChar(c)) = SplitPush(s, c)
<1>1. CASE c # "'"
  <2>1. QuotedChar(c) = <<c>> /\ <<c>> \in Strings
    BY <1>1 DEF QuotedChar, Strings
  <2>2. SplitTake(s, c) = SplitPush(s, c)
    BY <1>1 DEF SplitTake
  <2>. QED  BY <2>1, <2>2, RunOne
<1>2. CASE c = "'"
  <2>. DEFINE q == "'"
              d == "\""
              a == <<q>>
              b == <<q, d>>
              e == <<q, d, q>>
              f == <<q, d, q, d>>
              s1 == SplitInto(s, "plain")
              s2 == SplitInto(s1, "double")
              s3 == SplitPush(s2, q)
              s4 == SplitInto(s3, "plain")
              s5 == SplitInto(s4, "single")
              g == <<q, d, q, d, q>>
  <2>0. q \in Chars /\ d \in Chars
    BY DEF Chars
  <2>1. /\ a \in Strings /\ b \in Strings /\ e \in Strings /\ f \in Strings /\ g \in Strings
        /\ b = Append(a, d) /\ e = Append(b, q) /\ f = Append(e, d) /\ g = Append(f, q)
    <3>. HIDE DEF q, d
    <3>1. b = Append(a, d) /\ e = Append(b, q) /\ f = Append(e, d) /\ g = Append(f, q)
      OBVIOUS
    <3>2. a \in Strings
      BY <2>0, StringsClosed
    <3>. HIDE DEF a, b, e, f, g
    <3>. QED  BY <2>0, <3>1, <3>2, StringsClosed
  <2>a. QuotedChar(c) = g
    BY <1>2 DEF QuotedChar
  <2>2. /\ s1 \in SplitStates /\ s2 \in SplitStates /\ s3 \in SplitStates
        /\ s4 \in SplitStates /\ s5 \in SplitStates
    <3>1. "plain" \in SplitModes /\ "double" \in SplitModes /\ "single" \in SplitModes
      BY DEF SplitModes
    <3>2. \A r \in SplitStates : /\ SplitPush(r, q) \in SplitStates
                                 /\ \A mode \in SplitModes : SplitInto(r, mode) \in SplitStates
      <4>. HIDE DEF q
      <4>. QED  BY <2>0, SplitSteps
    <3>. HIDE DEF q
    <3>. QED  BY <3>1, <3>2
  <2>3. s1.mode = "plain" /\ s2.mode = "double" /\ s3.mode = "double" /\ s4.mode = "plain"
    BY DEF SplitInto, SplitPush, SplitStates
  <2>4. /\ SplitTake(s, q) = s1 /\ SplitTake(s1, d) = s2 /\ SplitTake(s2, q) = s3
        /\ SplitTake(s3, d) = s4 /\ SplitTake(s4, q) = s5
    <3>. HIDE DEF s1, s2, s3, s4, s5
    <3>1. SplitTake(s, q) = s1
      BY DEF SplitTake, s1
    <3>2. SplitTake(s1, d) = s2
      BY <2>3 DEF SplitTake, s2
    <3>3. SplitTake(s2, q) = s3
      BY <2>3 DEF SplitTake, s3
    <3>4. SplitTake(s3, d) = s4
      BY <2>3 DEF SplitTake, s4
    <3>5. SplitTake(s4, q) = s5
      BY <2>3 DEF SplitTake, s5
    <3>. QED  BY <3>1, <3>2, <3>3, <3>4, <3>5
  <2>5. s5 = SplitPush(s, c)
    BY <1>2 DEF SplitInto, SplitPush, SplitStates
  <2>. HIDE DEF s1, s2, s3, s4, s5, a, b, e, f, g, q, d
  <2>6. Run(s, a) = s1
    BY <2>0, <2>4, RunOne DEF a
  <2>7. Run(s, b) = s2
    BY <2>0, <2>1, <2>4, <2>6, RunAppend
  <2>8. Run(s, e) = s3
    BY <2>0, <2>1, <2>4, <2>7, RunAppend
  <2>9. Run(s, f) = s4
    BY <2>0, <2>1, <2>4, <2>8, RunAppend
  <2>10. Run(s, g) = s5
    BY <2>0, <2>1, <2>4, <2>9, RunAppend
  <2>. QED  BY <2>1, <2>5, <2>10, <2>a
<1>. QED  BY <1>1, <1>2

\* A character pushed after two words is pushed after the second.
LEMMA ConcatAppend ==
    ASSUME NEW t \in Strings, NEW u \in Strings, NEW c \in Chars
    PROVE  Append(t \o u, c) = t \o Append(u, c)
  BY SMTT(60) DEF Strings

\* The characters of a word as Quoted writes them.
QuotedChars(word) == FlattenSeq([j \in DOMAIN word |-> QuotedChar(word[j])])

\* Quoting a word with one character more.
LEMMA QuotedCharsMore ==
    ASSUME NEW word \in Strings, NEW c \in Chars
    PROVE  /\ QuotedChars(word) \in Strings
           /\ QuotedChars(Append(word, c)) = QuotedChars(word) \o QuotedChar(c)
<1>. DEFINE more == Append(word, c)
            ss == [j \in DOMAIN word |-> QuotedChar(word[j])]
            tt == [j \in DOMAIN more |-> QuotedChar(more[j])]
<1>0. \A d \in Chars : QuotedChar(d) \in Strings
  BY QuotedCharIn
<1>1. /\ word \in Seq(Chars) /\ Len(word) \in Nat /\ DOMAIN word = 1..Len(word)
      /\ more \in Seq(Chars) /\ DOMAIN more = 1..(Len(word) + 1)
      /\ more[Len(word) + 1] = c /\ \A j \in 1..Len(word) : more[j] = word[j]
  BY DEF Strings
<1>2. ss \in Seq(Strings) /\ Len(ss) = Len(word) /\ \A j \in 1..Len(word) : ss[j] = QuotedChar(word[j])
  <2>. HIDE DEF more
  <2>. QED  BY <1>0, <1>1
<1>3. /\ tt \in Seq(Strings) /\ Len(tt) = Len(word) + 1
      /\ \A j \in 1..(Len(word) + 1) : tt[j] = QuotedChar(more[j])
  <2>1. \A j \in 1..(Len(word) + 1) : more[j] \in Chars
    <3>. HIDE DEF more
    <3>. QED  BY <1>1
  <2>. HIDE DEF more
  <2>. QED  BY <1>0, <1>1, <2>1
<1>. HIDE DEF more, ss, tt
<1>4. QuotedChar(c) \in Strings
  BY <1>0
<1>5. tt = Append(ss, QuotedChar(c))
  <2>. DEFINE uu == Append(ss, QuotedChar(c))
  <2>1. /\ uu \in Seq(Strings) /\ Len(uu) = Len(word) + 1
        /\ uu[Len(word) + 1] = QuotedChar(c) /\ \A j \in 1..Len(word) : uu[j] = ss[j]
    BY <1>1, <1>2, <1>4, AppendProperties
  <2>. HIDE DEF uu
  <2>2. ASSUME NEW j \in 1..(Len(word) + 1) PROVE tt[j] = uu[j]
    <3>1. CASE j = Len(word) + 1
      BY <1>1, <1>3, <2>1, <3>1
    <3>2. CASE j # Len(word) + 1
      <4>1. j \in 1..Len(word)
        BY <1>1, <3>2
      <4>. QED  BY <1>1, <1>2, <1>3, <2>1, <4>1
    <3>. QED  BY <3>1, <3>2
  <2>3. tt = uu
    BY <1>3, <2>1, <2>2, SeqEqual
  <2>. QED  BY <2>3 DEF uu
<1>6. FlattenSeq(Append(ss, QuotedChar(c))) = FlattenSeq(ss) \o QuotedChar(c)
  BY <1>2, <1>4, FlattenAppend DEF Strings
<1>7. FlattenSeq(ss) \in Strings
  BY <1>2, FlattenType DEF Strings
<1>. QED  BY <1>5, <1>6, <1>7 DEF QuotedChars, ss, tt, more

\* Inside quotes every character of the word is pushed.
LEMMA RunQuotedChars ==
    ASSUME NEW s \in SplitStates, s.mode = "single", s.open, NEW w \in Strings
    PROVE  Run(s, QuotedChars(w)) = [s EXCEPT !.word = s.word \o w]
<1>. DEFINE Goal(word) == Run(s, QuotedChars(word)) = [s EXCEPT !.word = s.word \o word]
            B == {n \in Nat : \E word \in Strings : Len(word) = n /\ ~Goal(word)}
<1>0. s.word \in Strings /\ s.mode \in SplitModes /\ s.out \in Seq(Strings)
  BY DEF SplitStates
<1>1. ASSUME B # {} PROVE FALSE
  <2>1. B \in SUBSET Nat
    OBVIOUS
  <2>2. PICK n \in B : \A y \in B : n <= y
    BY <1>1, <2>1, LeastIn
  <2>3. PICK word \in Strings : Len(word) = n /\ ~Goal(word)
    OBVIOUS
  <2>4. word # <<>>
    <3>1. QuotedChars(<<>>) = <<>>
      BY FlattenEmpty DEF QuotedChars
    <3>2. Run(s, <<>>) = s
      BY RunEmpty
    <3>3. s.word \o <<>> = s.word
      BY <1>0 DEF Strings
    <3>4. [s EXCEPT !.word = s.word] = s
      BY DEF SplitStates
    <3>. QED  BY <2>3, <3>1, <3>2, <3>3, <3>4
  <2>5. PICK v \in Strings, c \in Chars : word = Append(v, c)
    BY <2>3, <2>4, SequenceEmptyOrAppend DEF Strings
  <2>6. Len(v) \in Nat /\ n = Len(v) + 1
    BY <2>3, <2>5 DEF Strings
  <2>7. Goal(v)
    <3>1. Len(v) \notin B
      <4>. HIDE DEF B
      <4>. QED  BY <2>2, <2>6
    <3>. HIDE DEF Goal
    <3>. QED  BY <2>6, <3>1
  <2>. DEFINE r == [s EXCEPT !.word = s.word \o v]
  <2>8. r \in SplitStates /\ r.mode = "single"
    <3>1. s.word \o v \in Strings
      BY <1>0, StringsClosed
    <3>. QED  BY <3>1 DEF SplitStates
  <2>9. /\ QuotedChars(word) = QuotedChars(v) \o QuotedChar(c)
        /\ QuotedChars(v) \in Strings /\ QuotedChar(c) \in Strings
    BY <2>5, QuotedCharsMore, QuotedCharIn
  <2>10. Run(s, QuotedChars(word)) = Run(r, QuotedChar(c))
    <3>. HIDE DEF r
    <3>1. Run(s, QuotedChars(v)) = r
      BY <2>7 DEF r
    <3>. QED  BY <2>9, <3>1, RunConcat
  <2>11. Run(r, QuotedChar(c)) = SplitPush(r, c)
    <3>. HIDE DEF r
    <3>. QED  BY <2>8, RunQuotedChar
  <2>12. SplitPush(r, c) = [s EXCEPT !.word = s.word \o word]
    <3>1. Append(s.word \o v, c) = s.word \o word
      <4>. HIDE DEF B, r, Goal
      <4>1. Append(s.word \o v, c) = s.word \o Append(v, c)
        BY <1>0, <2>5, ConcatAppend
      <4>. QED  BY <2>5, <4>1
    <3>2. SplitPush(r, c) = [s EXCEPT !.word = Append(s.word \o v, c), !.open = TRUE]
      BY DEF SplitPush, SplitStates
    <3>3. [s EXCEPT !.word = s.word \o word, !.open = TRUE] = [s EXCEPT !.word = s.word \o word]
      BY DEF SplitStates
    <3>. QED  BY <3>1, <3>2, <3>3
  <2>. QED  BY <2>3, <2>10, <2>11, <2>12
<1>2. Len(w) \in Nat
  BY DEF Strings
<1>. QED  BY <1>1, <1>2

\* A word in quotes after a blank: what was open before ends, and the word is
\* the one that is open now.
LEMMA RunQuotedWord ==
    ASSUME NEW s \in SplitStates, s.mode = "plain", NEW out \in Seq(Strings),
           SplitEnd(s) = [SplitIdle EXCEPT !.out = out], NEW w \in Strings
    PROVE  /\ QuotedWord(w) \in Strings
           /\ Run(s, QuotedWord(w)) = [out |-> out, word |-> w, open |-> TRUE, mode |-> "plain"]
<1>. DEFINE b == " "
            q == "'"
            e == SplitEnd(s)
            i == SplitInto(e, "single")
            d == [i EXCEPT !.word = i.word \o w]
            open == <<b, q>>
            inner == QuotedChars(w)
            close == <<q>>
<1>1. b \in Chars /\ q \in Chars
  BY DEF Chars
<1>2. /\ open \in Strings /\ inner \in Strings /\ close \in Strings /\ <<b>> \in Strings
      /\ open = Append(<<b>>, q) /\ open \o inner \in Strings
      /\ QuotedWord(w) = (open \o inner) \o close
  <2>1. QuotedWord(w) = open \o inner \o close
    BY DEF QuotedWord, QuotedChars
  <2>2. inner \in Strings
    BY QuotedCharsMore, <1>1
  <2>. HIDE DEF b, q, inner
  <2>3. <<b>> \in Strings /\ close \in Strings /\ open = Append(<<b>>, q)
    BY <1>1, StringsClosed
  <2>4. open \in Strings
    BY <1>1, <2>3, StringsClosed
  <2>. HIDE DEF open
  <2>5. open \o inner \in Strings
    BY <2>2, <2>4, StringsClosed
  <2>. QED  BY <2>1, <2>2, <2>3, <2>4, <2>5
<1>3. /\ e \in SplitStates /\ i \in SplitStates /\ i.mode = "single" /\ i.open /\ i.out = out
      /\ i.word = <<>> /\ e.mode = "plain"
  <2>1. "single" \in SplitModes
    BY DEF SplitModes
  <2>2. e \in SplitStates
    BY <1>1, SplitSteps
  <2>3. i \in SplitStates
    BY <1>1, <2>1, <2>2, SplitSteps
  <2>4. e.out = out /\ e.word = <<>> /\ e.mode = "plain"
    BY DEF SplitIdle
  <2>5. i.mode = "single" /\ i.open /\ i.out = out /\ i.word = <<>>
    <3>. HIDE DEF e
    <3>. QED  BY <2>2, <2>4 DEF SplitInto, SplitStates
  <2>. QED  BY <2>2, <2>3, <2>4, <2>5
<1>4. SplitTake(s, b) = e /\ SplitTake(e, q) = i
  <2>1. SplitTake(s, b) = e
    BY DEF SplitTake
  <2>2. SplitTake(e, q) = i
    <3>. HIDE DEF e
    <3>. QED  BY <1>3 DEF SplitTake
  <2>. QED  BY <2>1, <2>2
<1>. HIDE DEF e, i
<1>5. d \in SplitStates /\ d.mode = "single" /\ d.word = w /\ d.out = out
  <2>1. i.word \o w = w
    BY <1>3 DEF Strings
  <2>. QED  BY <1>3, <2>1 DEF SplitStates
<1>6. SplitTake(d, q) = [out |-> out, word |-> w, open |-> TRUE, mode |-> "plain"]
  <2>. HIDE DEF d
  <2>1. SplitTake(d, q) = SplitInto(d, "plain")
    BY <1>5 DEF SplitTake
  <2>. QED  BY <1>5, <2>1 DEF SplitInto, SplitStates
<1>7. Run(i, inner) = d
  BY <1>3, RunQuotedChars
<1>. HIDE DEF b, q, d, inner
<1>8. Run(s, open) = i
  <2>1. Run(s, <<b>>) = e
    BY <1>1, <1>4, RunOne
  <2>2. Run(s, Append(<<b>>, q)) = SplitTake(Run(s, <<b>>), q)
    BY <1>1, <1>2, RunAppend
  <2>. QED  BY <1>2, <1>4, <2>1, <2>2
<1>9. Run(s, open \o inner) = d
  <2>. HIDE DEF open
  <2>. QED  BY <1>2, <1>7, <1>8, RunConcat
<1>10. Run(d, close) = SplitTake(d, q)
  BY <1>1, <1>5, RunOne
<1>. HIDE DEF open, close
<1>11. Run(s, (open \o inner) \o close) = SplitTake(d, q)
  BY <1>2, <1>9, <1>10, RunConcat
<1>12. QuotedWord(w) \in Strings
  BY <1>2, StringsClosed
<1>. QED  BY <1>2, <1>6, <1>11, <1>12

\* The quoted form of a word is a string.
LEMMA QuotedWordIn == \A w \in Strings : QuotedWord(w) \in Strings
<1>1. SplitIdle \in SplitStates /\ SplitIdle.mode = "plain" /\ <<>> \in Seq(Strings)
      /\ SplitEnd(SplitIdle) = [SplitIdle EXCEPT !.out = <<>>]
  <2>1. <<>> \in Seq(Strings) /\ <<>> \in Strings
    BY DEF Strings
  <2>. QED  BY <2>1 DEF SplitIdle, SplitEnd, SplitStates, SplitModes
<1>. QED  BY <1>1, RunQuotedWord

\* Quoting a command with one word more.
LEMMA QuotedMore ==
    ASSUME NEW words \in Seq(Strings), NEW w \in Strings
    PROVE  /\ Quoted(words) \in Strings
           /\ Quoted(Append(words, w)) = Quoted(words) \o QuotedWord(w)
<1>. DEFINE more == Append(words, w)
            ss == [j \in DOMAIN words |-> QuotedWord(words[j])]
            tt == [j \in DOMAIN more |-> QuotedWord(more[j])]
<1>0. \A v \in Strings : QuotedWord(v) \in Strings
  BY QuotedWordIn
<1>1. /\ Len(words) \in Nat /\ DOMAIN words = 1..Len(words)
      /\ more \in Seq(Strings) /\ DOMAIN more = 1..(Len(words) + 1)
      /\ more[Len(words) + 1] = w /\ \A j \in 1..Len(words) : more[j] = words[j]
  OBVIOUS
<1>2. /\ ss \in Seq(Strings) /\ Len(ss) = Len(words)
      /\ \A j \in 1..Len(words) : ss[j] = QuotedWord(words[j])
  <2>. HIDE DEF more
  <2>. QED  BY <1>0, <1>1
<1>3. /\ tt \in Seq(Strings) /\ Len(tt) = Len(words) + 1
      /\ \A j \in 1..(Len(words) + 1) : tt[j] = QuotedWord(more[j])
  <2>1. \A j \in 1..(Len(words) + 1) : more[j] \in Strings
    <3>. HIDE DEF more
    <3>. QED  BY <1>1
  <2>. HIDE DEF more
  <2>. QED  BY <1>0, <1>1, <2>1
<1>. HIDE DEF more, ss, tt
<1>4. QuotedWord(w) \in Strings
  BY <1>0
<1>5. tt = Append(ss, QuotedWord(w))
  <2>. DEFINE uu == Append(ss, QuotedWord(w))
  <2>1. /\ uu \in Seq(Strings) /\ Len(uu) = Len(words) + 1
        /\ uu[Len(words) + 1] = QuotedWord(w) /\ \A j \in 1..Len(words) : uu[j] = ss[j]
    BY <1>1, <1>2, <1>4, AppendProperties
  <2>. HIDE DEF uu
  <2>2. ASSUME NEW j \in 1..(Len(words) + 1) PROVE tt[j] = uu[j]
    <3>1. CASE j = Len(words) + 1
      BY <1>1, <1>3, <2>1, <3>1
    <3>2. CASE j # Len(words) + 1
      <4>1. j \in 1..Len(words)
        BY <1>1, <3>2
      <4>. QED  BY <1>1, <1>2, <1>3, <2>1, <4>1
    <3>. QED  BY <3>1, <3>2
  <2>3. tt = uu
    BY <1>3, <2>1, <2>2, SeqEqual
  <2>. QED  BY <2>3 DEF uu
<1>6. FlattenSeq(Append(ss, QuotedWord(w))) = FlattenSeq(ss) \o QuotedWord(w)
  BY <1>2, <1>4, FlattenAppend DEF Strings
<1>7. FlattenSeq(ss) \in Strings
  BY <1>2, FlattenType DEF Strings
<1>. QED  BY <1>5, <1>6, <1>7 DEF Quoted, ss, tt, more

\* After a quoted command the splitter has its words, but for the last, which is
\* still open. By induction on the number of words.
LEMMA RunQuoted ==
    ASSUME NEW words \in Seq(Strings)
    PROVE  /\ Quoted(words) \in Strings /\ Run(SplitIdle, Quoted(words)) \in SplitStates
           /\ Run(SplitIdle, Quoted(words)).mode = "plain"
           /\ SplitEnd(Run(SplitIdle, Quoted(words))) = [SplitIdle EXCEPT !.out = words]
<1>. DEFINE end(r, ws) == r.mode = "plain" /\ SplitEnd(r) = [SplitIdle EXCEPT !.out = ws]
            Goal(ws) == end(Run(SplitIdle, Quoted(ws)), ws)
            B == {n \in Nat : \E ws \in Seq(Strings) : Len(ws) = n /\ ~Goal(ws)}
<1>0. SplitIdle \in SplitStates
  <2>1. <<>> \in Seq(Strings) /\ <<>> \in Strings
    BY DEF Strings
  <2>. QED  BY <2>1 DEF SplitIdle, SplitStates, SplitModes
<1>1. ASSUME B # {} PROVE FALSE
  <2>1. B \in SUBSET Nat
    OBVIOUS
  <2>2. PICK n \in B : \A y \in B : n <= y
    BY <1>1, <2>1, LeastIn
  <2>3. PICK ws \in Seq(Strings) : Len(ws) = n /\ ~Goal(ws)
    OBVIOUS
  <2>4. ws # <<>>
    <3>1. Quoted(<<>>) = <<>>
      BY FlattenEmpty DEF Quoted
    <3>2. Run(SplitIdle, <<>>) = SplitIdle
      BY <1>0, RunEmpty
    <3>3. end(SplitIdle, <<>>)
      BY DEF SplitIdle, SplitEnd
    <3>. QED  BY <2>3, <3>1, <3>2, <3>3
  <2>5. PICK vs \in Seq(Strings), w \in Strings : ws = Append(vs, w)
    BY <2>3, <2>4, SequenceEmptyOrAppend
  <2>6. Len(vs) \in Nat /\ n = Len(vs) + 1
    BY <2>3, <2>5
  <2>7. Goal(vs)
    <3>1. Len(vs) \notin B
      <4>. HIDE DEF B
      <4>. QED  BY <2>2, <2>6
    <3>. HIDE DEF Goal
    <3>. QED  BY <2>6, <3>1
  <2>. DEFINE r == Run(SplitIdle, Quoted(vs))
  <2>8. /\ Quoted(vs) \in Strings /\ Quoted(ws) = Quoted(vs) \o QuotedWord(w)
        /\ QuotedWord(w) \in Strings
    BY <2>5, QuotedMore, QuotedWordIn
  <2>9. r \in SplitStates
    BY <1>0, <2>8, RunType
  <2>10. Run(SplitIdle, Quoted(ws)) = Run(r, QuotedWord(w))
    BY <1>0, <2>8, RunConcat
  <2>11. r.mode = "plain" /\ SplitEnd(r) = [SplitIdle EXCEPT !.out = vs]
    BY <2>7
  <2>. HIDE DEF r
  <2>12. Run(r, QuotedWord(w)) = [out |-> vs, word |-> w, open |-> TRUE, mode |-> "plain"]
    BY <2>9, <2>11, RunQuotedWord
  <2>13. end(Run(r, QuotedWord(w)), Append(vs, w))
    BY <2>12 DEF SplitEnd, SplitIdle
  <2>. HIDE DEF end
  <2>. QED  BY <2>3, <2>5, <2>10, <2>13
<1>2. Len(words) \in Nat
  OBVIOUS
<1>3. Goal(words)
  BY <1>1, <1>2
<1>4. Quoted(words) \in Strings
  <2>1. words = <<>> \/ \E vs \in Seq(Strings), w \in Strings : words = Append(vs, w)
    BY SequenceEmptyOrAppend
  <2>2. Quoted(<<>>) = <<>> /\ <<>> \in Strings
    BY FlattenEmpty, StringsClosed DEF Quoted
  <2>. QED  BY <2>1, <2>2, QuotedMore, QuotedWordIn, StringsClosed
<1>. QED  BY <1>0, <1>3, <1>4, RunType

\* A command that is quoted word by word is split into the same words.
LEMMA SplitQuoted ==
    ASSUME NEW words \in Seq(Strings)
    PROVE  SplitCommandString(Quoted(words)) = words
<1>. DEFINE r == Run(SplitIdle, Quoted(words))
<1>1. r.mode = "plain" /\ SplitEnd(r) = [SplitIdle EXCEPT !.out = words]
  BY RunQuoted
<1>2. SplitCommandString(Quoted(words)) = SplitEnd(r).out
  <2>. HIDE DEF r
  <2>1. FoldLeft(SplitTake, SplitIdle, Quoted(words)) = r
    BY DEF Run, r
  <2>. QED  BY <1>1, <2>1 DEF SplitCommandString
<1>. QED  BY <1>1, <1>2 DEF SplitIdle

\* What a text is split into is a sequence of words.
LEMMA SplitType ==
    ASSUME NEW text \in Strings
    PROVE  SplitCommandString(text) \in Seq(Strings)
<1>. DEFINE r == Run(SplitIdle, text)
            last == IF r.mode \in {"escaped", "escaped in quotes"} THEN SplitPush(r, "\\") ELSE r
<1>0. SplitIdle \in SplitStates
  <2>1. <<>> \in Seq(Strings) /\ <<>> \in Strings
    BY DEF Strings
  <2>. QED  BY <2>1 DEF SplitIdle, SplitStates, SplitModes
<1>1. r \in SplitStates /\ "\\" \in Chars
  BY <1>0, RunType DEF Chars
<1>. HIDE DEF r
<1>2. last \in SplitStates
  BY <1>1, SplitSteps
<1>3. SplitCommandString(text) = SplitEnd(last).out
  BY DEF SplitCommandString, Run, r
<1>. HIDE DEF last
<1>4. SplitEnd(last) \in SplitStates
  BY <1>1, <1>2, SplitSteps
<1>. QED  BY <1>3, <1>4 DEF SplitStates

(***************************************************************************)
(* Names.  A name of a stack's parts is found again in the names joined    *)
(* from it, because it has no separator in it and none half at its end.    *)
(***************************************************************************)
NameChars == Lower \cup {"-", "_", ".", "1"}

\* The first separator of a joined name is where it was joined.
LEMMA ParsedBack ==
    ASSUME NEW S, "-" \in S, NEW a \in Seq(S), NEW b \in Seq(S), Pairs(a) = {},
           a # <<>> => a[Len(a)] # "-"
    PROVE  ParseVolumeName(a \o <<"-", "-">> \o b) = <<a, b>>
<1>. DEFINE d == <<"-", "-">>
            n == a \o d \o b
            k == Len(a)
<1>0. k \in Nat /\ Len(b) \in Nat /\ d \in Seq(S) /\ Len(d) = 2 /\ d[1] = "-" /\ d[2] = "-"
  OBVIOUS
<1>. HIDE DEF d
<1>1. a \o d \in Seq(S) /\ Len(a \o d) = k + 2
      /\ (\A i \in 1..k : (a \o d)[i] = a[i]) /\ (a \o d)[k + 1] = "-" /\ (a \o d)[k + 2] = "-"
  <2>1. /\ a \o d \in Seq(S) /\ Len(a \o d) = Len(a) + Len(d)
        /\ \A i \in 1 .. Len(a) + Len(d) : (a \o d)[i] = IF i <= Len(a) THEN a[i] ELSE d[i - Len(a)]
    BY <1>0, ConcatProperties
  <2>2. (k + 1) - k = 1 /\ (k + 2) - k = 2 /\ k + 1 \in 1..(k + 2) /\ k + 2 \in 1..(k + 2)
        /\ ~(k + 1 <= k) /\ ~(k + 2 <= k)
    BY <1>0
  <2>. QED  BY <1>0, <2>1, <2>2
<1>2. n \in Seq(S) /\ Len(n) = k + 2 + Len(b)
      /\ (\A i \in 1..(k + 2) : n[i] = (a \o d)[i])
      /\ (\A i \in 1..Len(b) : n[k + 2 + i] = b[i])
  <2>. DEFINE p == a \o d
  <2>0. p \in Seq(S) /\ Len(p) = k + 2
    BY <1>1
  <2>. HIDE DEF p
  <2>1. /\ p \o b \in Seq(S) /\ Len(p \o b) = Len(p) + Len(b)
        /\ \A i \in 1 .. Len(p) + Len(b) : (p \o b)[i] = IF i <= Len(p) THEN p[i] ELSE b[i - Len(p)]
    BY <2>0, ConcatProperties
  <2>2. \A i \in 1..Len(b) : /\ (k + 2 + i) - (k + 2) = i /\ ~(k + 2 + i <= k + 2)
                             /\ k + 2 + i \in 1..(k + 2 + Len(b))
    BY <1>0
  <2>3. \A i \in 1..(k + 2) : i <= k + 2 /\ i \in 1..(k + 2 + Len(b))
    BY <1>0
  <2>4. n = p \o b
    BY DEF p
  <2>. HIDE DEF n
  <2>5. \A i \in 1..(k + 2) : n[i] = p[i]
    BY <2>0, <2>1, <2>3, <2>4
  <2>6. \A i \in 1..Len(b) : n[k + 2 + i] = b[i]
    BY <2>0, <2>1, <2>2, <2>4
  <2>. QED  BY <2>0, <2>1, <2>4, <2>5, <2>6 DEF p
<1>. HIDE DEF n
<1>3. n[k + 1] = "-" /\ n[k + 2] = "-" /\ \A i \in 1..k : n[i] = a[i]
  BY <1>0, <1>1, <1>2
<1>4. k + 1 \in Pairs(n)
  BY <1>0, <1>2, <1>3 DEF Pairs
<1>5. ASSUME NEW i \in Pairs(n), i < k + 1 PROVE FALSE
  <2>1. i \in 1..k /\ n[i] = "-" /\ n[i + 1] = "-"
    BY <1>0, <1>2, <1>5 DEF Pairs
  <2>2. CASE i = k
    <3>1. a # <<>> /\ a[k] = "-"
      BY <1>0, <1>3, <2>1, <2>2
    <3>. QED  BY <3>1
  <2>3. CASE i # k
    <3>1. i + 1 \in 1..k /\ i \in 1..k - 1
      BY <1>0, <2>1, <2>3
    <3>2. a[i] = "-" /\ a[i + 1] = "-"
      BY <1>3, <2>1, <3>1
    <3>3. i \in Pairs(a)
      BY <3>1, <3>2 DEF Pairs
    <3>. QED  BY <3>3
  <2>. QED  BY <2>2, <2>3
<1>6. Min(Pairs(n)) = k + 1
  <2>1. Pairs(n) \in SUBSET Nat
    BY <1>0, <1>2 DEF Pairs
  <2>2. Min(Pairs(n)) \in Pairs(n) /\ \A y \in Pairs(n) : Min(Pairs(n)) <= y
    BY <1>4, <2>1, MinIn
  <2>. QED  BY <1>0, <1>4, <1>5, <2>1, <2>2
<1>7. SubSeq(n, 1, k) = a
  <2>1. \A i \in 1..k : n[i] \in S
    BY <1>3
  <2>2. SubSeq(n, 1, k) \in Seq(S) /\ Len(SubSeq(n, 1, k)) = k
        /\ \A i \in 1..k : SubSeq(n, 1, k)[i] = n[i]
    BY <1>0, <2>1
  <2>. QED  BY <1>3, <2>2, SeqEqual
<1>8. SubSeq(n, k + 3, Len(n)) = b
  <2>1. \A i \in k + 3..Len(n) : n[i] \in S
    BY <1>0, <1>2
  <2>2. Len(n) - (k + 3) + 1 = Len(b) /\ (k + 3 <= Len(n) <=> Len(b) # 0)
    BY <1>0, <1>2
  <2>3. /\ SubSeq(n, k + 3, Len(n)) \in Seq(S) /\ Len(SubSeq(n, k + 3, Len(n))) = Len(b)
        /\ \A i \in 1..Len(b) : SubSeq(n, k + 3, Len(n))[i] = n[k + 3 + i - 1]
    <3>1. k + 3 \in Int /\ Len(n) \in Int
      BY <1>0, <1>2
    <3>. QED  BY <1>0, <2>1, <2>2, <3>1, SubSeqProperties
  <2>4. \A i \in 1..Len(b) : k + 3 + i - 1 = k + 2 + i
    BY <1>0
  <2>. DEFINE m == SubSeq(n, k + 3, Len(n))
  <2>5. \A i \in 1..Len(b) : m[i] = b[i]
    BY <1>2, <2>3, <2>4
  <2>6. m \in Seq(S) /\ Len(m) = Len(b)
    BY <2>3
  <2>. HIDE DEF m
  <2>7. m = b
    BY <2>5, <2>6, SeqEqual
  <2>. QED  BY <2>7 DEF m
<1>9. (k + 1) - 1 = k /\ (k + 1) + 2 = k + 3
  BY <1>0
<1>. QED  BY <1>6, <1>7, <1>8, <1>9 DEF ParseVolumeName, n, d

\* A name that was accepted has no separator, and no half of one at its end.
LEMMA AcceptedChars ==
    ASSUME NEW v \in Texts, ValidLowerName(v) \/ ValidVolumeName(v)
    PROVE  /\ v \in Seq(NameChars) /\ Pairs(v) = {} /\ v # <<>> /\ v[Len(v)] # "-"
<1>1. v # <<>> /\ Pairs(v) = {} /\ Last(v) # "-"
  BY DEF ValidLowerName, ValidVolumeName, Lower
<1>2. ToSet(v) \subseteq NameChars
  BY DEF ValidLowerName, ValidVolumeName, NameChars
<1>3. Len(v) \in Nat /\ DOMAIN v = 1..Len(v) /\ v = [i \in 1..Len(v) |-> v[i]]
  BY DEF Texts
<1>4. v \in Seq(NameChars)
  <2>1. \A i \in 1..Len(v) : v[i] \in NameChars
    BY <1>2, <1>3 DEF ToSet
  <2>2. v \in [1..Len(v) -> NameChars]
    BY <1>3, <2>1
  <2>. QED  BY <1>3, <2>2, SeqDef
<1>. QED  BY <1>1, <1>4 DEF Last

\* What NamesParseBack says of each kind of name.
LEMMA StackParsesBack ==
    ASSUME NEW a \in Texts, ValidLowerName(a), NEW v \in Seq(NameChars)
    PROVE  /\ ParseVolumeName(VolumeName(a, v)) = <<a, v>>
           /\ ParseVolumeName(SandboxName(a, <<"b">>, <<"1">>))[1] = a
<1>. DEFINE d == <<"-", "-">>
            b == <<"b">>
            one == <<"1">>
<1>1. a \in Seq(NameChars) /\ Pairs(a) = {} /\ a # <<>> /\ a[Len(a)] # "-"
  BY AcceptedChars
<1>2. "-" \in NameChars /\ "b" \in NameChars /\ "1" \in NameChars
  BY DEF NameChars, Lower
<1>3. d \in Seq(NameChars) /\ b \in Seq(NameChars) /\ one \in Seq(NameChars)
  BY <1>2
<1>4. ParseVolumeName(VolumeName(a, v)) = <<a, v>>
  BY <1>1, <1>2, ParsedBack DEF VolumeName
<1>5. SandboxName(a, <<"b">>, <<"1">>) = a \o d \o (b \o d \o one)
  <2>1. SandboxName(a, <<"b">>, <<"1">>) = a \o d \o b \o d \o one
    BY DEF SandboxName
  <2>. HIDE DEF b, d, one
  <2>2. a \o d \o b \o d \o one = a \o d \o (b \o d \o one)
    BY <1>1, <1>3, SMTT(60)
  <2>. QED  BY <2>1, <2>2
<1>6. b \o d \o one \in Seq(NameChars)
  <2>. HIDE DEF b, d, one
  <2>. QED  BY <1>3
<1>7. ParseVolumeName(a \o d \o (b \o d \o one)) = <<a, b \o d \o one>>
  <2>. DEFINE w == b \o d \o one
  <2>1. w \in Seq(NameChars)
    BY <1>6
  <2>. HIDE DEF w
  <2>2. ParseVolumeName(a \o <<"-", "-">> \o w) = <<a, w>>
    BY <1>1, <1>2, <2>1, ParsedBack
  <2>. QED  BY <2>2 DEF w
<1>8. ParseVolumeName(SandboxName(a, <<"b">>, <<"1">>)) = <<a, b \o d \o one>>
  BY <1>5, <1>7
<1>. QED  BY <1>4, <1>8

\* The same of a service ...
LEMMA ServiceParsesBack ==
    ASSUME NEW a \in Texts, ValidLowerName(a)
    PROVE  /\ ParseVolumeName(SandboxName(<<"b">>, a, <<"1">>)) = <<<<"b">>, a \o <<"-", "-", "1">>>>
           /\ ParseVolumeName(a \o <<"-", "-", "1">>) = <<a, <<"1">>>>
<1>. DEFINE d == <<"-", "-">>
            b == <<"b">>
            one == <<"1">>
            do == <<"-", "-", "1">>
<1>1. a \in Seq(NameChars) /\ Pairs(a) = {} /\ a # <<>> /\ a[Len(a)] # "-"
  BY AcceptedChars
<1>2. "-" \in NameChars /\ "b" \in NameChars /\ "1" \in NameChars
  BY DEF NameChars, Lower
<1>3. d \in Seq(NameChars) /\ b \in Seq(NameChars) /\ one \in Seq(NameChars) /\ do \in Seq(NameChars)
  BY <1>2
<1>4. do = d \o one
  OBVIOUS
<1>5. Pairs(b) = {} /\ b[Len(b)] # "-"
  BY DEF Pairs
<1>6. SandboxName(<<"b">>, a, <<"1">>) = b \o d \o a \o d \o one
  BY DEF SandboxName
<1>7. a \o do = a \o d \o one
  <2>. HIDE DEF b, d, one, do
  <2>. QED  BY <1>1, <1>3, <1>4, SMTT(60)
<1>8. b \o d \o a \o d \o one = b \o d \o (a \o do) /\ a \o do \in Seq(NameChars)
  <2>. HIDE DEF b, d, one, do
  <2>1. b \o d \o a \o d \o one = b \o d \o (a \o d \o one)
    BY <1>1, <1>3, SMTT(60)
  <2>2. a \o do \in Seq(NameChars)
    BY <1>1, <1>3, ConcatProperties
  <2>. QED  BY <1>7, <2>1, <2>2
<1>9. ParseVolumeName(b \o d \o (a \o do)) = <<b, a \o do>>
  <2>. DEFINE w == a \o do
  <2>1. w \in Seq(NameChars)
    BY <1>8
  <2>. HIDE DEF w, b
  <2>2. ParseVolumeName(b \o <<"-", "-">> \o w) = <<b, w>>
    BY <1>2, <1>3, <1>5, <2>1, ParsedBack
  <2>. QED  BY <2>2 DEF w
<1>10. ParseVolumeName(a \o d \o one) = <<a, one>>
  <2>. HIDE DEF one
  <2>. QED  BY <1>1, <1>2, <1>3, ParsedBack
<1>. QED  BY <1>6, <1>7, <1>8, <1>9, <1>10

\* ... and of a volume.
LEMMA VolumeParsesBack ==
    ASSUME NEW a \in Texts, ValidVolumeName(a)
    PROVE  ParseVolumeName(VolumeName(<<"b">>, a)) = <<<<"b">>, a>>
<1>. DEFINE b == <<"b">>
<1>1. a \in Seq(NameChars)
  BY AcceptedChars
<1>2. "-" \in NameChars /\ b \in Seq(NameChars)
  BY DEF NameChars, Lower
<1>3. Pairs(b) = {} /\ b[Len(b)] # "-"
  BY DEF Pairs
<1>4. VolumeName(<<"b">>, a) = b \o <<"-", "-">> \o a
  BY DEF VolumeName
<1>. HIDE DEF b
<1>5. ParseVolumeName(b \o <<"-", "-">> \o a) = <<b, a>>
  BY <1>1, <1>2, <1>3, ParsedBack
<1>. QED  BY <1>4, <1>5 DEF b

-----------------------------------------------------------------------------
(***************************************************************************)
(* Suggestions.  What the fold over a refused name builds, and what is cut *)
(* from it, has no separator in it.                                        *)
(***************************************************************************)
LowerChars == Lower \cup {"-", "_"}
Clean == {o \in Seq(LowerChars) : Pairs(o) = {}}
Dashes == [p \in STRING \X Clean |-> Dashed(p[2], p[1])]

\* A character more keeps a clean name clean, unless it doubles a dash.
LEMMA CleanMore ==
    ASSUME NEW o \in Clean, NEW c \in LowerChars, c = "-" => o = <<>> \/ o[Len(o)] # "-"
    PROVE  Append(o, c) \in Clean
<1>1. /\ o \in Seq(LowerChars) /\ Len(o) \in Nat /\ Append(o, c) \in Seq(LowerChars)
      /\ Len(Append(o, c)) = Len(o) + 1 /\ Append(o, c)[Len(o) + 1] = c
      /\ \A i \in 1..Len(o) : Append(o, c)[i] = o[i]
  BY DEF Clean
<1>. DEFINE n == Append(o, c)
<1>. HIDE DEF n
<1>2. ASSUME NEW i \in Pairs(n) PROVE FALSE
  <2>1. i \in 1..Len(o) /\ n[i] = "-" /\ n[i + 1] = "-"
    BY <1>1 DEF Pairs, n
  <2>2. CASE i = Len(o)
    <3>1. c = "-" /\ o[Len(o)] = "-" /\ o # <<>>
      BY <1>1, <2>1, <2>2 DEF n
    <3>. QED  BY <3>1
  <2>3. CASE i # Len(o)
    <3>1. i + 1 \in 1..Len(o) /\ i \in 1..Len(o) - 1
      BY <1>1, <2>1, <2>3
    <3>2. o[i] = "-" /\ o[i + 1] = "-"
      BY <1>1, <2>1, <3>1 DEF n
    <3>. QED  BY <3>1, <3>2 DEF Clean, Pairs
  <2>. QED  BY <2>2, <2>3
<1>. QED  BY <1>1, <1>2 DEF Clean, n

\* A step of the suggestion keeps it clean ...
LEMMA DashedClean ==
    ASSUME NEW o \in Clean, NEW c
    PROVE  Dashed(o, c) \in Clean
<1>1. CASE LowerCase(c) \in Lower \cup {"_"}
  <2>1. LowerCase(c) # "-" /\ LowerCase(c) \in LowerChars
    BY <1>1 DEF Lower, LowerChars
  <2>. QED  BY <1>1, <2>1, CleanMore DEF Dashed
<1>2. CASE LowerCase(c) \notin Lower \cup {"_"} /\ o # <<>> /\ Last(o) = "-"
  BY <1>2 DEF Dashed
<1>3. CASE LowerCase(c) \notin Lower \cup {"_"} /\ ~(o # <<>> /\ Last(o) = "-")
  <2>1. "-" \in LowerChars /\ Dashed(o, c) = Append(o, "-")
    BY <1>3 DEF Dashed, LowerChars
  <2>. QED  BY <1>3, <2>1, CleanMore DEF Last
<1>. QED  BY <1>1, <1>2, <1>3

\* ... and so is the empty name it starts with.
LEMMA NoneClean == <<>> \in Clean
  BY DEF Clean, Pairs

\* So is what the whole fold builds.
LEMMA DashedFold ==
    ASSUME NEW text \in Texts
    PROVE  FoldLeft(Dashed, <<>>, text) \in Clean
<1>. DEFINE n == Len(text)
            none == <<>>
            up(h, S) == h = [s \in SUBSET S |->
                               IF s = {} THEN none
                               ELSE LET x == Max(s) IN Dashed(h[s \ {x}], text[x])]
            h == CHOOSE h : up(h, DOMAIN text)
<1>0. n \in Nat /\ DOMAIN text = 1..n /\ text \in Seq(STRING) /\ \A i \in 1..n : text[i] \in STRING
  BY DEF Texts
<1>1. FoldLeft(Dashed, <<>>, text) = h[DOMAIN text]
  BY Zenon DEF FoldLeft, MapThenFoldSet
<1>2. StepsIn(Dashes, STRING, Clean) /\ none \in Clean
  BY DashedClean, NoneClean DEF StepsIn, Dashes
<1>. HIDE DEF none
<1>3. ASSUME NEW k, FoldsUp(k, Dashes, none, text, 1..n) PROVE up(k, DOMAIN text)
  <2>1. \A s \in SUBSET (1..n) : k[s] \in Clean
    BY <1>0, <1>2, <1>3, FoldsUpType
  <2>2. ASSUME NEW s \in SUBSET (1..n), s # {}
        PROVE  Dashes[<<text[Max(s)], k[s \ {Max(s)}]>>] = Dashed(k[s \ {Max(s)}], text[Max(s)])
    <3>1. Max(s) \in 1..n
      BY <1>0, <2>2, MaxIn
    <3>2. text[Max(s)] \in STRING /\ k[s \ {Max(s)}] \in Clean
      BY <1>0, <2>1, <3>1
    <3>. QED  BY <3>2 DEF Dashes
  <2>. QED  BY <1>0, <1>3, <2>2 DEF FoldsUp
<1>4. up(h, DOMAIN text)
  <2>1. \E k : FoldsUp(k, Dashes, none, text, 1..n)
    BY <1>0, FoldsUpExist
  <2>2. \E k : up(k, DOMAIN text)
    <3>. HIDE DEF up
    <3>. QED  BY <1>3, <2>1
  <2>. QED  BY <2>2
<1>. HIDE DEF h
<1>5. \A s \in SUBSET (1..n) : h[s] \in Clean
  <2>. DEFINE P == {s \in SUBSET (1..n) : h[s] \in Clean}
  <2>0. \A s \in SUBSET (1..n) :
          h[s] = IF s = {} THEN none ELSE Dashed(h[s \ {Max(s)}], text[Max(s)])
    BY <1>0, <1>4
  <2>1. {} \in P
    BY <1>2, <2>0
  <2>2. ASSUME NEW s \in SUBSET (1..n), s # {}, s \ {Max(s)} \in P PROVE s \in P
    <3>1. h[s] = Dashed(h[s \ {Max(s)}], text[Max(s)])
      BY <2>0, <2>2
    <3>. QED  BY <2>2, <3>1, DashedClean
  <2>3. P \in SUBSET (SUBSET (1..n))
    OBVIOUS
  <2>. HIDE DEF P
  <2>4. \A s \in SUBSET (1..n) : s \in P
    BY <1>0, <2>1, <2>2, <2>3, PlacesInduction
  <2>. QED  BY <2>4 DEF P
<1>. QED  BY <1>0, <1>1, <1>5

\* A part of a clean text is clean.
LEMMA CleanPart ==
    ASSUME NEW n \in Clean, NEW i \in Nat \ {0}, NEW j \in Nat, j <= Len(n)
    PROVE  /\ SubSeq(n, i, j) \in Clean
           /\ Len(SubSeq(n, i, j)) = IF i <= j THEN j - i + 1 ELSE 0
           /\ i <= j => SubSeq(n, i, j)[1] = n[i] /\ SubSeq(n, i, j)[Len(SubSeq(n, i, j))] = n[j]
<1>. DEFINE m == SubSeq(n, i, j)
<1>0. n \in Seq(LowerChars) /\ Len(n) \in Nat
  BY DEF Clean
<1>1. /\ m \in Seq(LowerChars) /\ Len(m) = IF i <= j THEN j - i + 1 ELSE 0
      /\ \A k \in 1 .. j - i + 1 : m[k] = n[i + k - 1]
  <2>1. \A k \in i..j : n[k] \in LowerChars
    BY <1>0
  <2>. QED  BY <2>1, SubSeqProperties
<1>. HIDE DEF m
<1>2. ASSUME NEW k \in Pairs(m) PROVE FALSE
  <2>1. k \in 1..Len(m) - 1 /\ m[k] = "-" /\ m[k + 1] = "-"
    BY <1>2 DEF Pairs
  <2>2. k \in 1..j - i + 1 /\ k + 1 \in 1..j - i + 1 /\ i + k - 1 \in 1..Len(n) - 1
        /\ i + (k + 1) - 1 = (i + k - 1) + 1
    BY <1>0, <1>1, <2>1
  <2>3. n[i + k - 1] = "-" /\ n[(i + k - 1) + 1] = "-"
    BY <1>1, <2>1, <2>2
  <2>4. i + k - 1 \in Pairs(n)
    BY <2>2, <2>3 DEF Pairs
  <2>. QED  BY <2>4 DEF Clean
<1>3. i <= j => m[1] = n[i] /\ m[Len(m)] = n[j]
  <2>. SUFFICES ASSUME i <= j PROVE m[1] = n[i] /\ m[Len(m)] = n[j]
    OBVIOUS
  <2>1. Len(m) = j - i + 1 /\ 1 \in 1..j - i + 1 /\ j - i + 1 \in 1..j - i + 1
        /\ i + 1 - 1 = i /\ i + (j - i + 1) - 1 = j
    BY <1>1
  <2>. QED  BY <1>1, <2>1
<1>. QED  BY <1>1, <1>2, <1>3 DEF m, Clean

\* Trimming leaves a part of it that starts and ends with neither dash nor
\* underscore.
LEMMA TrimmedClean ==
    ASSUME NEW n \in Clean
    PROVE  /\ Trimmed(n) \in Clean /\ Len(Trimmed(n)) <= Len(n)
           /\ Trimmed(n) # <<>> => /\ Trimmed(n)[1] \in Lower
                                   /\ Trimmed(n)[Len(Trimmed(n))] \in Lower
<1>. DEFINE inner == {i \in DOMAIN n : n[i] \notin {"-", "_"}}
            i == Min(inner)
            j == Max(inner)
<1>0. n \in Seq(LowerChars) /\ Len(n) \in Nat /\ DOMAIN n = 1..Len(n)
  BY DEF Clean
<1>1. Trimmed(n) = IF inner = {} THEN <<>> ELSE SubSeq(n, i, j)
  BY DEF Trimmed
<1>a. inner \in SUBSET (1..Len(n))
  BY <1>0
<1>. HIDE DEF inner
<1>2. CASE inner = {}
  <2>1. Len(<<>>) = 0
    OBVIOUS
  <2>2. Trimmed(n) = <<>>
    BY <1>1, <1>2
  <2>. QED  BY <1>0, <2>1, <2>2, NoneClean
<1>3. CASE inner # {}
  <2>1. inner \in SUBSET (1..Len(n)) /\ inner \in SUBSET Nat
    BY <1>0, <1>a
  <2>2. i \in inner /\ j \in inner /\ j >= i
    BY <1>0, <1>3, <2>1, MinIn, MaxIn
  <2>3. i \in Nat \ {0} /\ j \in Nat /\ j <= Len(n) /\ i <= j
    <3>. HIDE DEF i, j
    <3>. QED  BY <1>0, <2>1, <2>2
  <2>4. n[i] \in Lower /\ n[j] \in Lower
    <3>1. i \in 1..Len(n) /\ j \in 1..Len(n)
      BY <2>1, <2>2
    <3>2. n[i] \in LowerChars /\ n[j] \in LowerChars
      BY <1>0, <3>1
    <3>3. n[i] \notin {"-", "_"} /\ n[j] \notin {"-", "_"}
      BY <2>2 DEF inner
    <3>. QED  BY <3>2, <3>3 DEF LowerChars
  <2>. HIDE DEF i, j
  <2>. DEFINE m == SubSeq(n, i, j)
  <2>5. m \in Clean /\ Len(m) = j - i + 1 /\ m[1] = n[i] /\ m[Len(m)] = n[j]
    BY <2>3, CleanPart
  <2>6. Trimmed(n) = m
    BY <1>1, <1>3
  <2>. HIDE DEF m
  <2>. QED  BY <1>0, <2>3, <2>4, <2>5, <2>6
<1>. QED  BY <1>2, <1>3

\* What is suggested instead of a refused name would be accepted.
LEMMA SuggestionsAccepted ==
    ASSUME NEW n \in Texts, NEW s \in Suggestions(n)
    PROVE  LowerNameAccepted(s) /\ ValidVolumeName(s)
<1>. DEFINE dashed == Trimmed(FoldLeft(Dashed, <<>>, n))
            k == Min({Len(dashed), NameMax})
            cut == SubSeq(dashed, 1, k)
<1>1. s = Trimmed(cut) /\ s # <<>>
  BY DEF Suggestions, SuggestLowerName
<1>2. dashed \in Clean
  BY DashedFold, TrimmedClean
<1>3. Len(dashed) \in Nat /\ NameMax \in Nat
  BY <1>2, NameMaxIsPositive DEF Clean
<1>. HIDE DEF dashed
<1>4. k \in Nat /\ k <= Len(dashed) /\ k <= NameMax
  <2>. DEFINE two == {Len(dashed), NameMax}
  <2>1. two \in SUBSET Nat /\ two # {} /\ Len(dashed) \in two /\ NameMax \in two
    BY <1>3
  <2>. HIDE DEF two
  <2>2. Min(two) \in two /\ \A y \in two : Min(two) <= y
    BY <2>1, MinIn
  <2>. QED  BY <2>1, <2>2 DEF two
<1>. HIDE DEF k
<1>5. cut \in Clean /\ Len(cut) = k
  <2>1. cut \in Clean /\ Len(cut) = IF 1 <= k THEN k - 1 + 1 ELSE 0
    BY <1>2, <1>4, CleanPart
  <2>. QED  BY <1>4, <2>1
<1>. HIDE DEF cut
<1>6. s \in Clean /\ Len(s) <= NameMax /\ s[1] \in Lower /\ s[Len(s)] \in Lower
  <2>1. s \in Clean /\ Len(s) <= Len(cut) /\ s[1] \in Lower /\ s[Len(s)] \in Lower
    BY <1>1, <1>5, TrimmedClean
  <2>2. Len(s) \in Nat
    BY <2>1 DEF Clean
  <2>. QED  BY <1>3, <1>4, <1>5, <2>1, <2>2
<1>7. ToSet(s) \subseteq LowerChars /\ Pairs(s) = {}
  BY <1>6 DEF Clean, ToSet
<1>8. Head(s) = s[1] /\ Last(s) = s[Len(s)]
  BY <1>1, <1>6 DEF Clean, Last
<1>9. s[Len(s)] # "-"
  BY <1>6 DEF Lower
<1>. QED  BY <1>1, <1>6, <1>7, <1>8, <1>9
          DEF LowerNameAccepted, ValidLowerName, ValidVolumeName, LowerChars

(***************************************************************************)
(* A key is decoded, stored and decoded again.  For every decoder: what is *)
(* known of the value a form decodes to, and that the form it is stored in *)
(* decodes to that value and nothing else.                                 *)
(***************************************************************************)

\* Rounding up keeps what is positive, and undoes a multiplication.
LEMMA CeilDivFacts ==
    ASSUME NEW b \in Nat \ {0}
    PROVE  /\ \A a \in Nat : CeilDiv(a, b) \in Nat /\ (a > 0 => CeilDiv(a, b) > 0)
           /\ \A v \in Nat : v * b \in Nat /\ CeilDiv(v * b, b) = v
<1>1. ASSUME NEW a \in Nat
      PROVE  CeilDiv(a, b) \in Nat /\ (a > 0 => CeilDiv(a, b) > 0)
  <2>. DEFINE n == a + b - 1
              q == n \div b
              r == n % b
  <2>1. n \in Nat
    OBVIOUS
  <2>. HIDE DEF n
  <2>2. q \in Nat /\ r \in 0..(b - 1) /\ n = q * b + r
    BY <2>1, DivMod
  <2>3. CeilDiv(a, b) = q
    BY DEF CeilDiv, n
  <2>. HIDE DEF q, r
  <2>4. a > 0 => q # 0
    <3>. SUFFICES ASSUME a > 0, q = 0 PROVE FALSE
      OBVIOUS
    <3>1. n = r
      BY <2>2
    <3>. QED  BY <2>2, <3>1 DEF n
  <2>. QED  BY <2>2, <2>3, <2>4
<1>2. ASSUME NEW v \in Nat PROVE v * b \in Nat /\ CeilDiv(v * b, b) = v
  <2>. DEFINE n == v * b + b - 1
              q == n \div b
              r == n % b
  <2>1. v * b \in Nat /\ n \in Nat /\ n = v * b + (b - 1) /\ b - 1 \in 0..(b - 1)
    OBVIOUS
  <2>2. q \in Nat /\ r \in 0..(b - 1) /\ n = q * b + r
    <3>. HIDE DEF n
    <3>. QED  BY <2>1, DivMod
  <2>. HIDE DEF n, q, r
  <2>3. q * b + r = v * b + (b - 1)
    BY <2>1, <2>2
  <2>4. q = v
    BY <2>1, <2>2, <2>3, DivModUnique
  <2>. QED  BY <2>1, <2>4 DEF CeilDiv, n, q
<1>. QED  BY <1>1, <1>2

\* A form of a key is left out or has the key's shape.
FormOf(key, f) == (key \in DOMAIN Defaults /\ f = <<"absent">>) \/ SpecFormed(key, f)

\* The bounds as numbers.
LEMMA BoundsAreNat ==
    /\ Kilo \in Nat \ {0} /\ Bytes \in Nat \ {0} /\ MaxDisk \in Nat
    /\ MaxDisk < MaxSizeMib /\ MaxSizeMib \in Nat /\ MaxCpus \in Nat \ {0}
<1>1. Kilo * Kilo \in Nat /\ Kilo * Kilo # 0
  BY SpecBounds
<1>. QED  BY <1>1, SpecBounds DEF Bytes, MaxDisk

\* What a key left out decodes to, and what a form does.
LEMMA DecodedIs ==
    ASSUME NEW f
    PROVE  /\ Decoded("cpus", f) = IF f = <<"absent">> THEN {1} ELSE DecodeCpus(f)
           /\ Decoded("mem_limit", f) = IF f = <<"absent">> THEN {1} ELSE DecodeSize(f)
           /\ Decoded("disk", f) = IF f = <<"absent">> THEN {Kilo} ELSE DecodeSize(f)
           /\ Decoded("interval", f) = IF f = <<"absent">> THEN {30} ELSE DecodeInterval(f)
           /\ Decoded("timeout", f) = IF f = <<"absent">> THEN {30} ELSE DecodeTimeout(f)
           /\ Decoded("start_period", f) = IF f = <<"absent">> THEN {0} ELSE DecodeDuration(f)
           /\ Decoded("expose", f) = IF f = <<"absent">> THEN {<<>>} ELSE DecodeExpose(f)
           /\ Decoded("environment", f) = IF f = <<"absent">> THEN {<<>>} ELSE DecodeEnv(f)
           /\ Decoded("command", f) = IF f = <<"absent">> THEN {<<>>} ELSE DecodeCommand(f)
           /\ Decoded("depends_on", f) = IF f = <<"absent">> THEN {<<>>} ELSE DecodeDependsOn(f)
           /\ Decoded("test", f) = IF f = <<"absent">> THEN {<<>>} ELSE DecodeTest(f)
           /\ Decoded("ssh", f) = IF f = <<"absent">> THEN {<<>>} ELSE DecodeSsh(f)
           /\ Decoded("ports", f) = DecodePort(f)
  BY DEF Decoded, Defaults

\* CPUs that were accepted are not clamped.
LEMMA CpusKept ==
    ASSUME NEW f, FormOf("cpus", f), NEW v \in Decoded("cpus", f)
    PROVE  /\ v \in Nat /\ Decoded("cpus", <<"int", v>>) = {v}
           /\ Valid("cpus", v) => CpusGiven(v) = v
<1>1. v \in Nat
  <2>1. CASE f = <<"absent">>
    BY <2>1, DecodedIs
  <2>2. CASE f # <<"absent">>
    <3>1. f[2] \in Int
      BY <2>2 DEF FormOf, SpecFormed
    <3>. QED  BY <2>2, <3>1, DecodedIs DEF DecodeCpus
  <2>. QED  BY <2>1, <2>2
<1>2. <<"int", v>> # <<"absent">>
  OBVIOUS
<1>3. DecodeCpus(<<"int", v>>) = {v}
  BY <1>1 DEF DecodeCpus
<1>4. Valid("cpus", v) => CpusGiven(v) = v
  BY <1>1, BoundsAreNat DEF Valid, CpusGiven, AtMost, AtLeast
<1>. QED  BY <1>1, <1>2, <1>3, <1>4, DecodedIs

\* Sizes are stored as bytes; none that was written positive becomes none.
LEMMA SizesKept ==
    ASSUME NEW key \in {"mem_limit", "disk"}, NEW f, FormOf(key, f), NEW v \in Decoded(key, f)
    PROVE  /\ v \in Nat /\ Decoded(key, <<"int", v * Bytes>>) = {v}
           /\ f # <<"absent">> => (f[2] > 0 => v > 0)
           /\ Valid("disk", v) => RootDiskGiven(v) = v
<1>1. v \in Nat /\ (f # <<"absent">> => (f[2] > 0 => v > 0))
  <2>1. CASE f = <<"absent">>
    BY <2>1, DecodedIs, BoundsAreNat
  <2>2. CASE f # <<"absent">>
    <3>1. f \in ({"int"} \X Int) \cup ({"text"} \X Int \X DOMAIN SizeUnits) /\ v \in DecodeSize(f)
      BY <2>2, DecodedIs DEF FormOf, SpecFormed
    <3>2. f[2] \in Nat
      BY <3>1 DEF DecodeSize
    <3>3. CASE f[1] = "int"
      <4>1. v = CeilDiv(f[2], Bytes)
        BY <3>1, <3>2, <3>3 DEF DecodeSize
      <4>. QED  BY <3>2, <4>1, CeilDivFacts, BoundsAreNat
    <3>4. CASE f[1] # "int"
      <4>. DEFINE u == SizeUnits[f[3]]
      <4>1. f[3] \in {"b", "k", "m", "g", "t"}
        BY <3>1, <3>4 DEF SizeUnits
      <4>2. u[1] \in Nat \ {0} /\ 2 * u[2] \in Nat \ {0}
        <5>1. /\ Kilo \in Nat \ {0} /\ Bytes \in Nat \ {0} /\ Kilo * Kilo \in Nat \ {0}
          BY BoundsAreNat DEF Bytes
        <5>. QED  BY <4>1, <5>1 DEF SizeUnits
      <4>3. v = CeilDiv(f[2] * u[1], 2 * u[2])
        BY <3>1, <3>2, <3>4 DEF DecodeSize
      <4>4. f[2] * u[1] \in Nat /\ (f[2] > 0 => f[2] * u[1] > 0)
        <5>. HIDE DEF u
        <5>. QED  BY <3>2, <4>2
      <4>. HIDE DEF u
      <4>. QED  BY <4>2, <4>3, <4>4, CeilDivFacts
    <3>. QED  BY <3>3, <3>4
  <2>. QED  BY <2>1, <2>2
<1>2. v * Bytes \in Nat /\ CeilDiv(v * Bytes, Bytes) = v
  BY <1>1, CeilDivFacts, BoundsAreNat
<1>3. DecodeSize(<<"int", v * Bytes>>) = {v}
  BY <1>2 DEF DecodeSize
<1>4. <<"int", v * Bytes>> # <<"absent">>
  OBVIOUS
<1>5. Valid("disk", v) => RootDiskGiven(v) = v
  BY <1>1, BoundsAreNat DEF Valid, ValidSize, RootDiskGiven, AtMost, AtLeast
<1>. QED  BY <1>1, <1>3, <1>4, <1>5, DecodedIs

\* No duration is rounded down to none.
LEMMA SecondsFacts ==
    ASSUME NEW a \in Nat, NEW unit \in {"ms", "s", "m", "h"}
    PROVE  Seconds(a, unit) \in Nat /\ (a > 0 => Seconds(a, unit) > 0)
<1>1. \A b \in Nat \ {0} : CeilDiv(a, b) \in Nat /\ (a > 0 => CeilDiv(a, b) > 0)
  BY CeilDivFacts
<1>2. /\ CeilDiv(a, 2000) \in Nat /\ (a > 0 => CeilDiv(a, 2000) > 0)
      /\ CeilDiv(a, 2) \in Nat /\ (a > 0 => CeilDiv(a, 2) > 0)
  BY <1>1
<1>3. a * 30 \in Nat /\ a * 1800 \in Nat /\ (a > 0 => a * 30 > 0 /\ a * 1800 > 0)
  OBVIOUS
<1>. QED  BY <1>2, <1>3 DEF Seconds

\* Intervals and timeouts are at least a second.
LEMMA DurationsKept ==
    ASSUME NEW key \in {"interval", "timeout", "start_period"}, NEW f, FormOf(key, f),
           NEW v \in Decoded(key, f)
    PROVE  /\ v \in Nat /\ Decoded(key, <<"int", v>>) = {v}
           /\ key # "start_period" => v >= 1
           /\ key = "start_period" /\ f # <<"absent">> => (f[2] > 0 => v > 0)
<1>1. /\ v \in Nat /\ (key # "start_period" => v >= 1)
      /\ (key = "start_period" /\ f # <<"absent">> => (f[2] > 0 => v > 0))
  <2>1. CASE f = <<"absent">>
    BY <2>1, DecodedIs
  <2>2. CASE f # <<"absent">>
    <3>1. f \in ({"int"} \X Int) \cup ({"text"} \X Int \X {"ms", "s", "m", "h"})
      BY <2>2 DEF FormOf, SpecFormed
    <3>2. f[2] \in Int
      BY <3>1
    <3>3. AtLeast(f[2], 0) \in Nat /\ (f[2] > 0 => AtLeast(f[2], 0) > 0)
      BY <3>2 DEF AtLeast
    <3>4. f[1] # "int" => f[3] \in {"ms", "s", "m", "h"}
      BY <3>1
    <3>. DEFINE s == Seconds(AtLeast(f[2], 0), f[3])
    <3>5. f[1] # "int" => s \in Nat /\ (f[2] > 0 => s > 0)
      BY <3>3, <3>4, SecondsFacts
    <3>. HIDE DEF s
    <3>6. CASE key = "interval"
      <4>1. v \in DecodeInterval(f)
        BY <2>2, <3>6, DecodedIs
      <4>. QED  BY <3>2, <3>5, <3>6, <4>1 DEF DecodeInterval, AtLeast, s
    <3>7. CASE key = "timeout"
      <4>1. v \in DecodeDuration(f) /\ v # 0
        BY <2>2, <3>7, DecodedIs DEF DecodeTimeout
      <4>. QED  BY <3>2, <3>5, <3>7, <4>1 DEF DecodeDuration, s
    <3>8. CASE key = "start_period"
      <4>1. v \in DecodeDuration(f)
        BY <2>2, <3>8, DecodedIs
      <4>. QED  BY <3>2, <3>5, <3>8, <4>1 DEF DecodeDuration, s
    <3>. QED  BY <3>6, <3>7, <3>8
  <2>. QED  BY <2>1, <2>2
<1>2. <<"int", v>> # <<"absent">>
  OBVIOUS
<1>3. DecodeDuration(<<"int", v>>) = {v}
  BY <1>1 DEF DecodeDuration
<1>4. key # "start_period" => DecodeInterval(<<"int", v>>) = {v} /\ DecodeTimeout(<<"int", v>>) = {v}
  BY <1>1, <1>3 DEF DecodeInterval, DecodeTimeout, AtLeast
<1>. QED  BY <1>1, <1>2, <1>3, <1>4, DecodedIs

-----------------------------------------------------------------------------
\* A port keeps its hostname, which is none or valid, and is decoded again from
\* the long form with every key.
LEMMA PortsKept ==
    ASSUME NEW f, NEW v \in Decoded("ports", f), NEW w \in Completed("ports", v)
    PROVE  Decoded("ports", Encoded("ports", w)) = {w}
<1>. DEFINE Port(w0) == /\ w0 = [published |-> w0.published, target |-> w0.target,
                                 protocol |-> w0.protocol, hostname |-> w0.hostname]
                        /\ w0.hostname = <<>> \/ ValidHostname(w0.hostname)
<1>1. Port(v)
  <2>1. CASE f[1] = "short"
    <3>. DEFINE parts == f[2]
    <3>1. v \in DecodeShortPort(parts, f[3])
      BY <2>1, DecodedIs DEF DecodePort
    <3>2. CASE Len(parts) = 1
      BY <3>1, <3>2 DEF DecodeShortPort
    <3>3. CASE Len(parts) = 2 /\ parts[1][1] = "number"
      BY <3>1, <3>3 DEF DecodeShortPort
    <3>4. CASE Len(parts) = 2 /\ parts[1][1] # "number"
      BY <3>1, <3>4 DEF DecodeShortPort
    <3>5. CASE Len(parts) = 3
      BY <3>1, <3>5 DEF DecodeShortPort
    <3>6. CASE Len(parts) \notin {1, 2, 3}
      BY <3>1, <3>6 DEF DecodeShortPort
    <3>. QED  BY <3>2, <3>3, <3>4, <3>5, <3>6
  <2>2. CASE f[1] # "short"
    <3>. DEFINE map == f[2]
    <3>1. v \in DecodeLongPort(map)
      BY <2>2, DecodedIs DEF DecodePort
    <3>. HIDE DEF map
    <3>. QED  BY <3>1 DEF DecodeLongPort
  <2>. QED  BY <2>1, <2>2
<1>2. Port(w) /\ w.published # 0
  <2>1. CASE v.published # 0
    BY <1>1, <2>1 DEF Completed, ResolvePort
  <2>2. CASE v.published = 0
    <3>1. PICK n \in {7, 8} : w = [v EXCEPT !.published = n]
      BY <2>2 DEF Completed, ResolvePort
    <3>2. w = [published |-> n, target |-> v.target, protocol |-> v.protocol, hostname |-> v.hostname]
      BY <1>1, <3>1
    <3>. QED  BY <1>1, <3>2
  <2>. QED  BY <2>1, <2>2
<1>3. Encoded("ports", w) = <<"long", w>>
  BY DEF Encoded
<1>4. DecodePort(<<"long", w>>) = DecodeLongPort(w)
  BY DEF DecodePort
<1>5. DOMAIN w = {"published", "target", "protocol", "hostname"}
  BY <1>2
<1>6. DecodeLongPort(w) = {w}
  BY <1>2, <1>5 DEF DecodeLongPort
<1>. QED  BY <1>3, <1>4, <1>6, DecodedIs

\* Exposed ports are stored as maps.
LEMMA ExposeKept ==
    ASSUME NEW f, NEW v \in Decoded("expose", f)
    PROVE  Decoded("expose", Encoded("expose", v)) = {v}
<1>1. v = [i \in DOMAIN v |-> [port |-> v[i].port, protocol |-> v[i].protocol]]
  <2>1. CASE f = <<"absent">>
    <3>1. v = <<>>
      BY <2>1, DecodedIs
    <3>. QED  BY <3>1
  <2>2. CASE f # <<"absent">>
    BY <2>2, DecodedIs DEF DecodeExpose
  <2>. QED  BY <2>1, <2>2
<1>. DEFINE e == [i \in DOMAIN v |-> <<"map", v[i].port, v[i].protocol>>]
            g == <<"list", e>>
<1>2. Encoded("expose", v) = g
  BY DEF Encoded
<1>3. g # <<"absent">> /\ g[2] = e
  OBVIOUS
<1>4. [i \in DOMAIN e |-> [port     |-> e[i][2],
                           protocol |-> IF Len(e[i]) = 3 THEN e[i][3] ELSE "tcp"]] = v
  BY <1>1
<1>. HIDE DEF e, g
<1>. QED  BY <1>2, <1>3, <1>4, DecodedIs DEF DecodeExpose

\* An environment is stored as a map, whatever it was written as.
LEMMA EnvironmentKept ==
    ASSUME NEW v
    PROVE  Decoded("environment", Encoded("environment", v)) = {v}
<1>. DEFINE g == <<"map", v>>
<1>1. Encoded("environment", v) = g
  BY DEF Encoded
<1>2. g # <<"absent">> /\ g[1] = "map" /\ g[2] = v
  OBVIOUS
<1>. HIDE DEF g
<1>3. Decoded("environment", g) = DecodeEnv(g)
  BY <1>2, DecodedIs
<1>4. DecodeEnv(g) = {v}
  BY <1>2 DEF DecodeEnv
<1>. QED  BY <1>1, <1>3, <1>4

\* A command is none or one list of words.
LEMMA CommandKept ==
    ASSUME NEW f, FormOf("command", f), NEW v \in Decoded("command", f)
    PROVE  /\ Decoded("command", Encoded("command", v)) = {v}
           /\ v = <<>> \/ v = <<v[1]>>
<1>1. v = <<>> \/ v = <<v[1]>>
  <2>1. CASE f = <<"absent">>
    BY <2>1, DecodedIs
  <2>2. CASE f # <<"absent">>
    <3>1. f \in {<<"null">>} \cup ({"list"} \X Seq(Texts)) \cup ({"text"} \X Texts) /\ v \in DecodeCommand(f)
      BY <2>2, DecodedIs DEF FormOf, SpecFormed
    <3>2. f[1] \in {"null", "list", "text"}
      BY <3>1
    <3>. QED  BY <3>1, <3>2 DEF DecodeCommand
  <2>. QED  BY <2>1, <2>2
<1>2. CASE v = <<>>
  <2>1. Encoded("command", v) = <<"null">>
    BY <1>2 DEF Encoded
  <2>. QED  BY <1>2, <2>1, DecodedIs DEF DecodeCommand
<1>3. CASE v # <<>>
  <2>1. Encoded("command", v) = <<"list", v[1]>>
    BY <1>3 DEF Encoded
  <2>2. DecodeCommand(<<"list", v[1]>>) = {<<v[1]>>} /\ <<"list", v[1]>> # <<"absent">>
    BY DEF DecodeCommand
  <2>. QED  BY <1>1, <1>3, <2>1, <2>2, DecodedIs
<1>. QED  BY <1>1, <1>2, <1>3

\* Dependencies are stored with their conditions.
LEMMA DependsOnKept ==
    ASSUME NEW f, FormOf("depends_on", f), NEW v \in Decoded("depends_on", f)
    PROVE  Decoded("depends_on", Encoded("depends_on", v)) = {v}
<1>1. v = [d \in DOMAIN v |-> v[d]]
  <2>1. CASE f = <<"absent">>
    <3>1. v = <<>>
      BY <2>1, DecodedIs
    <3>. QED  BY <3>1
  <2>2. CASE f # <<"absent">>
    <3>1. f[1] \in {"null", "list", "map"} /\ v \in DecodeDependsOn(f)
      BY <2>2, DecodedIs DEF FormOf, SpecFormed
    <3>2. CASE f[1] = "null"
      <4>1. v = <<>>
        BY <3>1, <3>2 DEF DecodeDependsOn
      <4>. QED  BY <4>1
    <3>3. CASE f[1] = "list"
      <4>1. v = [d \in ToSet(f[2]) |-> "service_started"]
        BY <3>1, <3>3 DEF DecodeDependsOn
      <4>. QED  BY <4>1
    <3>4. CASE f[1] = "map"
      <4>1. v = [d \in DOMAIN f[2] |->
                   IF f[2][d][1] = "text" THEN "service_started" ELSE f[2][d][2]]
        BY <3>1, <3>4 DEF DecodeDependsOn
      <4>. QED  BY <4>1
    <3>. QED  BY <3>1, <3>2, <3>3, <3>4
  <2>. QED  BY <2>1, <2>2
<1>. DEFINE e == [d \in DOMAIN v |-> <<"map", v[d]>>]
            g == <<"map", e>>
<1>2. Encoded("depends_on", v) = g /\ g # <<"absent">> /\ g[1] = "map" /\ g[2] = e
  BY DEF Encoded
<1>3. [d \in DOMAIN e |-> IF e[d][1] = "text" THEN "service_started" ELSE e[d][2]] = v
  BY <1>1
<1>. HIDE DEF e, g
<1>4. DecodeDependsOn(g) = {v}
  BY <1>2, <1>3 DEF DecodeDependsOn
<1>. QED  BY <1>2, <1>4, DecodedIs

\* A test that does not start with one of compose's words is read as it is; any
\* other is read too.
LEMMA TestKept ==
    ASSUME NEW f, NEW v \in Decoded("test", f)
    PROVE  /\ Decoded("test", Encoded("test", v)) # {}
           /\ Valid("test", v) /\ ~(v # <<>> /\ v[1][1] \in TestHeads) =>
                Decoded("test", Encoded("test", v)) = {v}
<1>1. v = <<>> \/ v = <<v[1]>>
  <2>1. CASE f = <<"absent">>
    BY <2>1, DecodedIs
  <2>2. CASE f # <<"absent">>
    <3>1. v \in DecodeTest(f)
      BY <2>2, DecodedIs
    <3>. QED  BY <3>1 DEF DecodeTest, ToShell
  <2>. QED  BY <2>1, <2>2
<1>2. CASE v = <<>>
  <2>. DEFINE g == <<"null">>
  <2>1. Encoded("test", v) = g
    BY <1>2 DEF Encoded
  <2>2. g # <<"absent">> /\ g[1] = "null"
    OBVIOUS
  <2>. HIDE DEF g
  <2>3. DecodeTest(g) = {<<>>}
    BY <2>2 DEF DecodeTest
  <2>. QED  BY <1>2, <2>1, <2>2, <2>3, DecodedIs
<1>3. CASE v # <<>>
  <2>. DEFINE g == <<"list", v[1]>>
  <2>1. Encoded("test", v) = g /\ g # <<"absent">> /\ g[1] = "list" /\ g[2] = v[1]
    BY <1>3 DEF Encoded
  <2>. HIDE DEF g
  <2>2. Decoded("test", g) # {}
    BY <2>1, DecodedIs DEF DecodeTest
  <2>3. Valid("test", v) /\ v[1][1] \notin TestHeads => DecodeTest(g) = {<<v[1]>>}
    BY <1>3, <2>1 DEF DecodeTest, Valid, TestHeads
  <2>. QED  BY <1>1, <1>3, <2>1, <2>2, <2>3, DecodedIs
<1>. QED  BY <1>2, <1>3

\* Defaults under a map that has all of their keys change nothing.
LEMMA DefaultsUnder ==
    ASSUME NEW r, r = [x \in DOMAIN r |-> r[x]], DOMAIN SshDefaults \subseteq DOMAIN r
    PROVE  WithSshDefaults(r) = r
<1>1. (DOMAIN r) \cup (DOMAIN SshDefaults) = DOMAIN r
  OBVIOUS
<1>. QED  BY <1>1 DEF WithSshDefaults

\* An ssh block is stored with all of its keys.
LEMMA SshKept ==
    ASSUME NEW f, FormOf("ssh", f), NEW v \in Decoded("ssh", f)
    PROVE  Decoded("ssh", Encoded("ssh", v)) = {v}
<1>1. v = <<>> \/ (v = <<v[1]>> /\ WithSshDefaults(v[1]) = v[1])
  <2>1. CASE f = <<"absent">>
    BY <2>1, DecodedIs
  <2>2. CASE f # <<"absent">>
    <3>1. f[1] \in {"null", "flag", "map"} /\ v \in DecodeSsh(f)
      BY <2>2, DecodedIs DEF FormOf, SpecFormed
    <3>2. CASE f[1] = "null"
      BY <3>1, <3>2 DEF DecodeSsh
    <3>3. CASE f[1] = "flag"
      <4>. DEFINE r == [enabled |-> f[2], port |-> 0, keys |-> {}]
      <4>1. v = <<r>>
        BY <3>1, <3>3 DEF DecodeSsh
      <4>2. r = [x \in DOMAIN r |-> r[x]] /\ DOMAIN SshDefaults \subseteq DOMAIN r
        BY DEF SshDefaults
      <4>. HIDE DEF r
      <4>3. WithSshDefaults(r) = r
        BY <4>2, DefaultsUnder
      <4>. QED  BY <4>1, <4>3
    <3>4. CASE f[1] = "map"
      <4>. DEFINE r == WithSshDefaults(f[2])
      <4>1. v = <<r>>
        BY <3>1, <3>4 DEF DecodeSsh
      <4>2. r = [x \in DOMAIN r |-> r[x]] /\ DOMAIN SshDefaults \subseteq DOMAIN r
        BY DEF WithSshDefaults
      <4>. HIDE DEF r
      <4>3. WithSshDefaults(r) = r
        BY <4>2, DefaultsUnder
      <4>. QED  BY <4>1, <4>3
    <3>. QED  BY <3>1, <3>2, <3>3, <3>4
  <2>. QED  BY <2>1, <2>2
<1>2. CASE v = <<>>
  <2>1. Encoded("ssh", v) = <<"null">>
    BY <1>2 DEF Encoded
  <2>. QED  BY <1>2, <2>1, DecodedIs DEF DecodeSsh
<1>3. CASE v # <<>>
  <2>1. Encoded("ssh", v) = <<"map", v[1]>>
    BY <1>3 DEF Encoded
  <2>2. DecodeSsh(<<"map", v[1]>>) = {<<WithSshDefaults(v[1])>>} /\ <<"map", v[1]>> # <<"absent">>
    BY DEF DecodeSsh
  <2>. QED  BY <1>1, <1>3, <2>1, <2>2, DecodedIs
<1>. QED  BY <1>2, <1>3

(***************************************************************************)
(* What the guest is given of a stored key.                                *)
(***************************************************************************)

\* The words of a command are strings the quoting and the splitting are about.
LEMMA CommandWords ==
    ASSUME NEW f, FormOf("command", f), NEW v \in Decoded("command", f), v # <<>>
    PROVE  v[1] \in Seq(Strings)
<1>1. STRING \subseteq Chars
  BY DEF Chars
<1>2. Texts \subseteq Strings
  BY <1>1, SeqMonotonic DEF Texts, Strings
<1>3. \A s \in Seq(Texts) : s \in Seq(Strings)
  BY <1>2, SeqMonotonic
<1>4. f # <<"absent">>
  <2>. SUFFICES ASSUME f = <<"absent">> PROVE FALSE
    OBVIOUS
  <2>1. v = <<>>
    BY DecodedIs
  <2>. QED  BY <2>1
<1>5. f \in {<<"null">>} \cup ({"list"} \X Seq(Texts)) \cup ({"text"} \X Texts) /\ v \in DecodeCommand(f)
  BY <1>4, DecodedIs DEF FormOf, SpecFormed
<1>6. CASE f[1] = "null"
  <2>1. v = <<>>
    BY <1>5, <1>6 DEF DecodeCommand
  <2>. QED  BY <2>1
<1>7. CASE f[1] = "list"
  <2>1. f[2] \in Seq(Texts)
    BY <1>5, <1>7
  <2>2. v = <<f[2]>>
    BY <1>5, <1>7 DEF DecodeCommand
  <2>. QED  BY <2>1, <2>2, <1>3
<1>8. CASE f[1] = "text"
  <2>1. f[2] \in Strings
    BY <1>2, <1>5, <1>8
  <2>. DEFINE words == SplitCommandString(f[2])
  <2>2. words \in Seq(Strings)
    BY <2>1, SplitType
  <2>. HIDE DEF words
  <2>3. v = IF words = <<>> THEN <<>> ELSE <<words>>
    BY <1>5, <1>8 DEF DecodeCommand, words
  <2>. QED  BY <2>2, <2>3
<1>9. f[1] \in {"null", "list", "text"}
  BY <1>5
<1>. QED  BY <1>6, <1>7, <1>8, <1>9

\* The profiles of an accepted list are the ones it names; whatever a list says,
\* it opens nothing it does not name.
LEMMA ProfilesKept ==
    ASSUME NEW f \in Texts
    PROVE  /\ Valid("profiles", f) =>
                ProfilesGiven(f) = IF f = <<>> THEN {"public"} ELSE ToSet(f) \ {"none"}
           /\ f # <<>> => ("public" \in ProfilesGiven(f) => "public" \in ToSet(f))
<1>1. f # <<>> => ("public" \in ProfilesGiven(f) => "public" \in ToSet(f))
  BY DEF ProfilesGiven
<1>2. ASSUME Valid("profiles", f)
      PROVE  ProfilesGiven(f) = IF f = <<>> THEN {"public"} ELSE ToSet(f) \ {"none"}
  <2>1. /\ ToSet(f) \subseteq {"public", "private", "host", "none"}
        /\ "none" \in ToSet(f) => Len(f) = 1
    BY <1>2 DEF Valid, ValidProfiles
  <2>2. CASE "none" \in ToSet(f)
    <3>1. ToSet(f) = {"none"}
      <4>1. DOMAIN f = {1}
        BY <2>1, <2>2 DEF Texts
      <4>. QED  BY <4>1, <2>2 DEF ToSet
    <3>2. f # <<>>
      BY <2>2 DEF ToSet
    <3>. QED  BY <3>1, <3>2 DEF ProfilesGiven
  <2>3. CASE "none" \notin ToSet(f) /\ f = <<>>
    BY <2>3 DEF ProfilesGiven
  <2>4. CASE "none" \notin ToSet(f) /\ f # <<>>
    BY <2>1, <2>4 DEF ProfilesGiven
  <2>. QED  BY <2>2, <2>3, <2>4
<1>. QED  BY <1>1, <1>2

\* A mount carries the size of its volume, and the volumes are what they were.
LEMMA MountsSized ==
    ASSUME NEW f, SpecFormed("mounts", f)
    PROVE  LET sizedDoc == WithVolumeSizes(f) IN
             \A i \in DOMAIN sizedDoc.mounts : sizedDoc.mounts[i].size = sizedDoc.volumes[sizedDoc.mounts[i].name]
<1>. DEFINE ms == f.mounts
            sized == [i \in DOMAIN ms |-> [ms[i] EXCEPT !.size = f.volumes[ms[i].name]]]
            sizedDoc == [f EXCEPT !.mounts = sized]
<1>1. WithVolumeSizes(f) = sizedDoc
  BY DEF WithVolumeSizes
<1>2. DOMAIN f = {"volumes", "mounts"} /\ \A i \in DOMAIN ms : DOMAIN ms[i] = {"name", "path", "size"}
  BY DEF SpecFormed
<1>3. sizedDoc.mounts = sized /\ sizedDoc.volumes = f.volumes
  BY <1>2
<1>4. ASSUME NEW i \in DOMAIN sized
      PROVE  sized[i].size = f.volumes[sized[i].name]
  <2>1. DOMAIN ms[i] = {"name", "path", "size"}
    BY <1>2, <1>4
  <2>2. sized[i] = [ms[i] EXCEPT !.size = f.volumes[ms[i].name]]
    BY <1>4
  <2>. QED  BY <2>1, <2>2
<1>. HIDE DEF sizedDoc, sized, ms
<1>. QED  BY <1>1, <1>3, <1>4

\* A sequence whose elements' keys differ has as many keys as elements.
LEMMA KeysCounted ==
    ASSUME NEW S, NEW ids \in Seq(S), KeysDistinct(ids)
    PROVE  Cardinality({RouteKeyOf(id) : id \in ToSet(ids)}) = Len(ids)
<1>. DEFINE n == Len(ids)
            RouteKeys == {RouteKeyOf(id) : id \in ToSet(ids)}
            key == [i \in 1..n |-> RouteKeyOf(ids[i])]
<1>1. n \in Nat /\ DOMAIN ids = 1..n
  OBVIOUS
<1>2. RouteKeys = {RouteKeyOf(ids[i]) : i \in 1..n}
  BY <1>1 DEF ToSet
<1>3. \A i, j \in 1..n : i # j => RouteKeyOf(ids[i]) # RouteKeyOf(ids[j])
  BY <1>1 DEF KeysDistinct
<1>4. key \in Bijection(1..n, RouteKeys)
  <2>1. key \in [1..n -> RouteKeys]
    BY <1>2
  <2>2. key \in Injection(1..n, RouteKeys)
    BY <2>1, <1>3 DEF Injection, IsInjective
  <2>3. key \in Surjection(1..n, RouteKeys)
    BY <2>1, <1>2 DEF Surjection
  <2>. QED  BY <2>2, <2>3 DEF Bijection
<1>5. ExistsBijection(1..n, RouteKeys)
  BY <1>4 DEF ExistsBijection
<1>6. IsFiniteSet(1..n) /\ Cardinality(1..n) = n
  BY <1>1, FS_Interval
<1>7. Cardinality(RouteKeys) = n
  BY <1>5, <1>6, FS_Bijection
<1>. QED  BY <1>7

\* The routes of an accepted document have a key each.
LEMMA RoutesCounted ==
    ASSUME NEW f, SpecFormed("routes", f), Valid("routes", f), f.ingress
    PROVE  Cardinality({RouteKeyOf(id) : id \in ToSet(RouteIds(f))}) = Len(RouteIds(f))
<1>. DEFINE a == [i \in DOMAIN f.tcp |-> TcpRouteId(f.stack, f.tcp[i])]
            b == [i \in DOMAIN f.rules |-> IngressRouteId(f.stack, f.rules[i])]
            c == [i \in DOMAIN f.sugar |-> IngressRouteId(f.stack, SugarRoute(f.sugar[i]))]
            Ids == Range(a) \cup Range(b) \cup Range(c)
<1>1. \A S : \A s \in Seq(S) : \E n \in Nat : DOMAIN s = 1..n
  OBVIOUS
<1>2. /\ \E n \in Nat : DOMAIN f.tcp = 1..n
      /\ \E n \in Nat : DOMAIN f.rules = 1..n
      /\ \E n \in Nat : DOMAIN f.sugar = 1..n
  BY <1>1 DEF SpecFormed
<1>3. /\ DOMAIN a = DOMAIN f.tcp /\ a = [i \in DOMAIN a |-> a[i]]
      /\ DOMAIN b = DOMAIN f.rules /\ b = [i \in DOMAIN b |-> b[i]]
      /\ DOMAIN c = DOMAIN f.sugar /\ c = [i \in DOMAIN c |-> c[i]]
  OBVIOUS
<1>4. RouteIds(f) = a \o b \o c
  BY DEF RouteIds
<1>. HIDE DEF a, b, c
<1>5. a \in Seq(Ids) /\ b \in Seq(Ids) /\ c \in Seq(Ids)
  <2>1. \A s, n \in Nat : TRUE
    OBVIOUS
  <2>2. ASSUME NEW s, NEW n \in Nat, DOMAIN s = 1..n, s = [i \in DOMAIN s |-> s[i]],
               Range(s) \subseteq Ids
        PROVE  s \in Seq(Ids)
    <3>1. s \in [1..n -> Ids]
      BY <2>2 DEF Range
    <3>. QED  BY <3>1, SeqDef
  <2>. QED  BY <1>2, <1>3, <2>2
<1>. HIDE DEF Ids
<1>6. RouteIds(f) \in Seq(Ids)
  BY <1>4, <1>5, ConcatProperties
<1>7. KeysDistinct(RouteIds(f))
  BY DEF Valid, ValidIngress
<1>. QED  BY <1>6, <1>7, KeysCounted

(***************************************************************************)
(* The stages of a key: the inductive invariant of SpecSpec.               *)
(***************************************************************************)

\* The keys whose forms are decoded; every other key's form is its value.
DecodedKeys == {"cpus", "mem_limit", "disk", "interval", "timeout", "start_period", "ports",
                "expose", "environment", "command", "depends_on", "test", "ssh"}

\* Such a value is stored as it was written.
LEMMA OthersAsWritten ==
    ASSUME NEW key, key \notin DecodedKeys, NEW f
    PROVE  Decoded(key, f) = {f} /\ Encoded(key, f) = f
<1>1. key \notin DOMAIN Defaults
  BY DEF Defaults, DecodedKeys
<1>2. Decoded(key, f) = {f}
  BY <1>1 DEF Decoded, DecodedKeys
<1>3. Encoded(key, f) = f
  BY DEF Encoded, DecodedKeys
<1>. QED  BY <1>2, <1>3

\* Only ports and mounts are completed.
LEMMA CompletedIs ==
    ASSUME NEW key, NEW v
    PROVE  /\ key \notin {"ports", "mounts"} => Completed(key, v) = {v}
           /\ key = "mounts" => Completed(key, v) = {WithVolumeSizes(v)}
  BY DEF Completed

\* An argv that starts with one of compose's own words.
HeadIsRead(key, w) == key = "test" /\ w # <<>> /\ w[1][1] \in TestHeads

\* What is stored of an accepted key is decoded again to itself.
LEMMA StoredDecodes ==
    ASSUME NEW key, NEW f, FormOf(key, f), NEW v \in Decoded(key, f), Valid(key, v),
           NEW w \in Completed(key, v)
    PROVE  /\ Decoded(key, Encoded(key, w)) # {}
           /\ ~HeadIsRead(key, w) => Decoded(key, Encoded(key, w)) = {w}
<1>1. CASE key = "ports"
  BY <1>1, PortsKept
<1>2. CASE key \notin DecodedKeys
  BY <1>2, OthersAsWritten
<1>3. CASE key \in DecodedKeys \ {"ports"}
  <2>1. w = v
    BY <1>3, CompletedIs DEF DecodedKeys
  <2>2. CASE key \in {"cpus", "interval", "timeout", "start_period"}
    <3>1. Encoded(key, v) = <<"int", v>>
      BY <2>2 DEF Encoded
    <3>2. Decoded(key, <<"int", v>>) = {v}
      BY <2>2, CpusKept, DurationsKept
    <3>. QED  BY <2>1, <3>1, <3>2
  <2>3. CASE key \in {"mem_limit", "disk"}
    <3>1. Encoded(key, v) = <<"int", v * Bytes>>
      BY <2>3 DEF Encoded
    <3>2. Decoded(key, <<"int", v * Bytes>>) = {v}
      BY <2>3, SizesKept
    <3>. QED  BY <2>1, <3>1, <3>2
  <2>4. CASE key = "expose"
    BY <2>1, <2>4, ExposeKept
  <2>5. CASE key = "environment"
    BY <2>1, <2>5, EnvironmentKept
  <2>6. CASE key = "command"
    BY <2>1, <2>6, CommandKept
  <2>7. CASE key = "depends_on"
    BY <2>1, <2>7, DependsOnKept
  <2>8. CASE key = "test"
    BY <2>1, <2>8, TestKept DEF HeadIsRead
  <2>9. CASE key = "ssh"
    BY <2>1, <2>9, SshKept
  <2>. QED  BY <1>3, <2>2, <2>3, <2>4, <2>5, <2>6, <2>7, <2>8, <2>9 DEF DecodedKeys
<1>. QED  BY <1>1, <1>2, <1>3

-----------------------------------------------------------------------------
\* Where a key stands: what its value is of, what is stored is its encoding, and
\* what was read back is what was stored.
Decodings == Decoded(specKey, specForm)
Accepts   == {v \in Decodings : Valid(specKey, v)}
Storable  == UNION {Completed(specKey, v) : v \in Accepts}

SpecInv ==
    /\ specKey \in SpecKeys /\ specForm \in SpecForms(specKey)
    /\ specStage \in {"yaml", "decoded", "valid", "stored", "read", "refused"}
    /\ specStage = "decoded" => \E v \in Decodings : specValue = <<v>>
    /\ specStage = "valid" => \E v \in Accepts : specValue = <<v>>
    /\ specStage \in {"stored", "read"} =>
          \E w \in Storable : specValue = <<w>> /\ specJson = <<Encoded(specKey, w)>>
    /\ specStage = "read" => HeadIsRead(specKey, Value) \/ specRead = specValue

\* Nothing has been decoded yet.
LEMMA SpecInitInv == SpecInit => SpecInv
  BY DEF SpecInit, SpecInv

\* The form has the shape FormsAreFormed says.
LEMMA FormsHaveForms == SpecInv => FormOf(specKey, specForm)
  BY FormsAreFormed DEF SpecInv, FormOf

\* A step of each stage; the last needs that what is stored decodes.
LEMMA SpecNextInv == SpecInv /\ [SpecNext]_specVars => SpecInv'
<1>. SUFFICES ASSUME SpecInv, [SpecNext]_specVars PROVE SpecInv'
  OBVIOUS
<1>1. CASE DecodeYaml
  <2>1. CASE Decoded(specKey, specForm) = {} /\ specStage' = "refused" /\ UNCHANGED specValue
    BY <1>1, <2>1 DEF DecodeYaml, SpecInv
  <2>2. ASSUME NEW v \in Decoded(specKey, specForm), specStage' = "decoded" /\ specValue' = <<v>>
        PROVE  SpecInv'
    <3>1. UNCHANGED <<specKey, specForm, specJson, specRead>>
      BY <1>1 DEF DecodeYaml
    <3>2. v \in Decodings'
      BY <3>1 DEF Decodings
    <3>. QED  BY <2>2, <3>1, <3>2 DEF SpecInv
  <2>. QED  BY <1>1, <2>1, <2>2 DEF DecodeYaml
<1>2. CASE ValidateStack
  <2>1. /\ specStage = "decoded" /\ UNCHANGED <<specKey, specForm, specValue, specJson, specRead>>
        /\ specStage' = IF Valid(specKey, specValue[1]) THEN "valid" ELSE "refused"
    BY <1>2 DEF ValidateStack
  <2>2. PICK v \in Decodings : specValue = <<v>>
    BY <2>1 DEF SpecInv
  <2>3. Valid(specKey, v) => v \in Accepts'
    BY <2>1, <2>2 DEF Accepts, Decodings
  <2>4. specValue[1] = v
    BY <2>2
  <2>. QED  BY <2>1, <2>2, <2>3, <2>4 DEF SpecInv
<1>3. CASE PlanSpec
  <2>1. specStage = "valid" /\ specStage' = "stored" /\ UNCHANGED <<specKey, specForm, specRead>>
    BY <1>3 DEF PlanSpec
  <2>2. PICK v \in Accepts : specValue = <<v>>
    BY <2>1 DEF SpecInv
  <2>3. specValue[1] = v
    BY <2>2
  <2>4. PICK w \in Completed(specKey, v) : specValue' = <<w>> /\ specJson' = <<Encoded(specKey, w)>>
    BY <1>3, <2>3 DEF PlanSpec
  <2>5. w \in Storable'
    BY <2>1, <2>2, <2>4 DEF Storable, Accepts, Decodings
  <2>6. specJson' = <<Encoded(specKey, w)>>' /\ specValue' = <<w>>
    BY <2>1, <2>4
  <2>. QED  BY <2>1, <2>5, <2>6 DEF SpecInv
<1>4. CASE ReadStored
  <2>1. specStage = "stored" /\ UNCHANGED <<specKey, specForm, specValue, specJson>>
    BY <1>4 DEF ReadStored
  <2>2. PICK w \in Storable : specValue = <<w>> /\ specJson = <<Encoded(specKey, w)>>
    BY <2>1 DEF SpecInv
  <2>3. PICK v \in Accepts : w \in Completed(specKey, v)
    BY <2>2 DEF Storable
  <2>. DEFINE again == Decoded(specKey, Encoded(specKey, w))
  <2>4. again # {} /\ (~HeadIsRead(specKey, w) => again = {w})
    BY <2>3, FormsHaveForms, StoredDecodes DEF Accepts, Decodings
  <2>5. specJson[1] = Encoded(specKey, w) /\ Value = w /\ specValue = <<w>>
    BY <2>2 DEF Value
  <2>. HIDE DEF again
  <2>6. PICK x \in again : specStage' = "read" /\ specRead' = <<x>>
    BY <1>4, <2>4, <2>5 DEF ReadStored, again
  <2>7. HeadIsRead(specKey, w) \/ specRead' = <<w>>
    BY <2>4, <2>6
  <2>8. (w \in Storable)' /\ Value' = w /\ specKey' = specKey
    BY <2>1, <2>2, <2>5 DEF Storable, Accepts, Decodings, Value
  <2>9. specValue' = <<w>> /\ specJson' = <<Encoded(specKey, w)>>'
    BY <2>1, <2>2
  <2>. QED  BY <2>1, <2>5, <2>6, <2>7, <2>8, <2>9 DEF SpecInv
<1>5. CASE UNCHANGED specVars
  BY <1>5 DEF specVars, SpecInv, Decodings, Accepts, Storable, Value
<1>. QED  BY <1>1, <1>2, <1>3, <1>4, <1>5 DEF SpecNext

-----------------------------------------------------------------------------
\* What stays of a value that was accepted, once it is stored.
LEMMA StoredFacts ==
    ASSUME SpecInv, specStage \in {"stored", "read"}
    PROVE  /\ Value \in Storable
           /\ specKey \notin {"ports", "mounts"} => Value \in Accepts
           /\ specKey = "mounts" => Value = WithVolumeSizes(specForm)
           /\ specKey \notin DecodedKeys \cup {"mounts"} => Value = specForm
<1>1. Value \in Storable
  BY DEF SpecInv, Value
<1>2. PICK v \in Accepts : Value \in Completed(specKey, v)
  BY <1>1 DEF Storable
<1>3. specKey \notin {"ports", "mounts"} => Value = v
  BY <1>2, CompletedIs
<1>4. specKey \notin DecodedKeys => v = specForm
  BY <1>2, OthersAsWritten DEF Accepts, Decodings
<1>5. specKey = "mounts" => Value = WithVolumeSizes(v) /\ specKey \notin DecodedKeys
  BY <1>2, CompletedIs DEF DecodedKeys
<1>6. "ports" \in DecodedKeys
  BY DEF DecodedKeys
<1>. QED  BY <1>1, <1>2, <1>3, <1>4, <1>5, <1>6

\* What the node reads is what was stored.
LEMMA ReadFacts ==
    ASSUME SpecInv, specStage = "read", specKey # "test"
    PROVE  specRead[1] = Value
  BY DEF SpecInv, HeadIsRead, Value

\* No stored spec is refused, or read differently.
LEMMA ReadsWhatIsStored == SpecInv => StoredSpecReads
<1>. SUFFICES ASSUME SpecInv PROVE StoredSpecReads
  OBVIOUS
<1>1. HeadIsRead(specKey, Value) <=> HeadTwice
  BY DEF HeadIsRead, HeadTwice
<1>. QED  BY <1>1 DEF SpecInv, StoredSpecReads

\* The guest is given what was declared.
LEMMA GuestGets == SpecInv => GuestGetsTheDeclared
<1>. SUFFICES ASSUME SpecInv PROVE GuestGetsTheDeclared
  OBVIOUS
<1>0. FormOf(specKey, specForm)
  BY FormsHaveForms
<1>1. At("cpus", "read") => CpusGiven(specRead[1]) = Value
  <2>. SUFFICES ASSUME At("cpus", "read") PROVE CpusGiven(specRead[1]) = Value
    OBVIOUS
  <2>1. specRead[1] = Value /\ Value \in Accepts
    BY ReadFacts, StoredFacts DEF At
  <2>2. Value \in Decoded("cpus", specForm) /\ Valid("cpus", Value)
    BY <2>1 DEF Accepts, Decodings, At
  <2>3. FormOf("cpus", specForm)
    BY <1>0 DEF At
  <2>. QED  BY <2>1, <2>2, <2>3, CpusKept
<1>2. At("disk", "read") => RootDiskGiven(specRead[1]) = Value
  <2>. SUFFICES ASSUME At("disk", "read") PROVE RootDiskGiven(specRead[1]) = Value
    OBVIOUS
  <2>1. specRead[1] = Value /\ Value \in Accepts
    BY ReadFacts, StoredFacts DEF At
  <2>2. Value \in Decoded("disk", specForm) /\ Valid("disk", Value)
    BY <2>1 DEF Accepts, Decodings, At
  <2>3. FormOf("disk", specForm)
    BY <1>0 DEF At
  <2>. QED  BY <2>1, <2>2, <2>3, SizesKept
<1>3. At("interval", "read") \/ At("timeout", "read") => specRead[1] >= 1
  <2>. SUFFICES ASSUME NEW key \in {"interval", "timeout"}, At(key, "read")
                PROVE  specRead[1] >= 1
    OBVIOUS
  <2>1. specRead[1] = Value /\ Value \in Accepts
    BY ReadFacts, StoredFacts DEF At
  <2>2. Value \in Decoded(key, specForm)
    BY <2>1 DEF Accepts, Decodings, At
  <2>3. FormOf(key, specForm)
    BY <1>0 DEF At
  <2>. QED  BY <2>1, <2>2, <2>3, DurationsKept
<1>4. specKey \in {"mem_limit", "disk", "start_period"} =>
         (specStage = "read" /\ specForm # <<"absent">> =>
            (specForm[2] > 0 => specRead[1] > 0))
  <2>. SUFFICES ASSUME specKey \in {"mem_limit", "disk", "start_period"}, specStage = "read"
                PROVE  specForm # <<"absent">> => (specForm[2] > 0 => specRead[1] > 0)
    OBVIOUS
  <2>1. specRead[1] = Value /\ Value \in Accepts
    BY ReadFacts, StoredFacts
  <2>2. Value \in Decoded(specKey, specForm)
    BY <2>1 DEF Accepts, Decodings
  <2>3. CASE specKey = "start_period"
    <3>1. specForm # <<"absent">> => (specForm[2] > 0 => Value > 0)
      BY <1>0, <2>2, <2>3, DurationsKept
    <3>. QED  BY <2>1, <3>1
  <2>4. CASE specKey \in {"mem_limit", "disk"}
    <3>1. specForm # <<"absent">> => (specForm[2] > 0 => Value > 0)
      BY <1>0, <2>2, <2>4, SizesKept
    <3>. QED  BY <2>1, <3>1
  <2>. QED  BY <2>3, <2>4
<1>5. At("command", "read") /\ Value # <<>> =>
         /\ SplitCommandString(Quoted(Value[1])) = Value[1]
         /\ Value[1] # <<>> => CommandGiven(specRead[1]) = Value[1]
  <2>. SUFFICES ASSUME At("command", "read"), Value # <<>>
                PROVE  /\ SplitCommandString(Quoted(Value[1])) = Value[1]
                       /\ Value[1] # <<>> => CommandGiven(specRead[1]) = Value[1]
    OBVIOUS
  <2>1. specRead[1] = Value /\ Value \in Accepts
    BY ReadFacts, StoredFacts DEF At
  <2>2. Value \in Decoded("command", specForm)
    BY <2>1 DEF Accepts, Decodings, At
  <2>3. FormOf("command", specForm)
    BY <1>0 DEF At
  <2>4. Value[1] \in Seq(Strings)
    BY <2>2, <2>3, CommandWords
  <2>5. SplitCommandString(Quoted(Value[1])) = Value[1]
    BY <2>4, SplitQuoted
  <2>6. ASSUME Value[1] # <<>> PROVE CommandGiven(Value) = Value[1]
    <3>. DEFINE none == <<>>
                void == <<none>>
    <3>1. Value # void
      <4>1. void[1] = none
        OBVIOUS
      <4>. QED  BY <2>6, <4>1
    <3>. QED  BY <3>1 DEF CommandGiven
  <2>. QED  BY <2>1, <2>5, <2>6
<1>6. At("mounts", "read") => \A i \in DOMAIN specRead[1].mounts :
         LET m == specRead[1].mounts[i] IN m.size = Value.volumes[m.name]
  <2>. SUFFICES ASSUME At("mounts", "read")
                PROVE  \A i \in DOMAIN specRead[1].mounts :
                          specRead[1].mounts[i].size = Value.volumes[specRead[1].mounts[i].name]
    OBVIOUS
  <2>1. specRead[1] = Value /\ Value = WithVolumeSizes(specForm)
    BY ReadFacts, StoredFacts DEF At
  <2>2. SpecFormed("mounts", specForm)
    BY <1>0 DEF At, FormOf, Defaults
  <2>. QED  BY <2>1, <2>2, MountsSized
<1>7. At("profiles", "read") =>
         ProfilesGiven(specRead[1]) = IF Value = <<>> THEN {"public"} ELSE ToSet(Value) \ {"none"}
  <2>. SUFFICES ASSUME At("profiles", "read")
                PROVE  ProfilesGiven(specRead[1]) =
                          IF Value = <<>> THEN {"public"} ELSE ToSet(Value) \ {"none"}
    OBVIOUS
  <2>1. specRead[1] = Value /\ Value = specForm /\ Value \in Accepts
    BY ReadFacts, StoredFacts DEF At, DecodedKeys
  <2>2. specForm \in Texts
    BY <1>0 DEF At, FormOf, Defaults, SpecFormed
  <2>3. Valid("profiles", specForm)
    BY <2>1 DEF At, Accepts
  <2>. QED  BY <2>1, <2>2, <2>3, ProfilesKept
<1>8. specKey = "profiles" /\ specForm # <<>> =>
         ("public" \in ProfilesGiven(specForm) => "public" \in ToSet(specForm))
  BY DEF ProfilesGiven
<1>. QED  BY <1>1, <1>2, <1>3, <1>4, <1>5, <1>6, <1>7, <1>8 DEF GuestGetsTheDeclared

\* Names are found again, and refused ones get a usable suggestion.
LEMMA NamesAreFound == SpecInv => NamesParseBack
<1>. SUFFICES ASSUME SpecInv PROVE NamesParseBack
  OBVIOUS
<1>1. specKey \in {"stack", "service", "volume"} => specForm \in Texts
  BY FormsHaveForms DEF FormOf, Defaults, SpecFormed
<1>2. ASSUME specKey \in {"stack", "service", "volume"}, specStage = "read"
      PROVE  Value = specForm /\ Valid(specKey, Value)
  BY <1>2, StoredFacts DEF DecodedKeys, Accepts
<1>3. ASSUME specKey \in {"stack", "service"}, specStage = "read"
      PROVE  Value \in Texts /\ ValidLowerName(Value)
  BY <1>1, <1>2, <1>3 DEF Valid, LowerNameAccepted
<1>4. ASSUME At("volume", "read") PROVE Value \in Texts /\ ValidVolumeName(Value)
  BY <1>1, <1>2, <1>4 DEF At, Valid
<1>5. At("stack", "read") => \A v \in {<<"b">>, <<"b", "-", "a">>, <<"b", ".">>} :
         /\ ParseVolumeName(VolumeName(Value, v)) = <<Value, v>>
         /\ ParseVolumeName(SandboxName(Value, <<"b">>, <<"1">>))[1] = Value
  <2>1. \A v \in {<<"b">>, <<"b", "-", "a">>, <<"b", ".">>} : v \in Seq(NameChars)
    <3>. DEFINE b == "b"
                one == <<b>>
                two == <<b, ".">>
                three == <<b, "-", "a">>
    <3>1. "a" \in NameChars /\ b \in NameChars /\ "-" \in NameChars /\ "." \in NameChars
      BY DEF NameChars, Lower
    <3>2. one \in Seq(NameChars) /\ two \in Seq(NameChars) /\ three \in Seq(NameChars)
      <4>. HIDE DEF b
      <4>. QED  BY <3>1
    <3>. QED  BY <3>2
  <2>. QED  BY <1>3, <2>1, StackParsesBack DEF At
<1>6. At("service", "read") =>
         /\ ParseVolumeName(SandboxName(<<"b">>, Value, <<"1">>)) = <<<<"b">>, Value \o <<"-", "-", "1">>>>
         /\ ParseVolumeName(Value \o <<"-", "-", "1">>) = <<Value, <<"1">>>>
  BY <1>3, ServiceParsesBack DEF At
<1>7. At("volume", "read") => ParseVolumeName(VolumeName(<<"b">>, Value)) = <<<<"b">>, Value>>
  BY <1>4, VolumeParsesBack
<1>8. specKey \in {"stack", "service", "volume"} /\ specStage = "refused" =>
         \A s \in Suggestions(specForm) : LowerNameAccepted(s) /\ ValidVolumeName(s)
  BY <1>1, SuggestionsAccepted
<1>. QED  BY <1>5, <1>6, <1>7, <1>8 DEF NamesParseBack

\* No two routes share a key.
LEMMA RoutesApart == SpecInv => RoutesKeepApart
<1>. SUFFICES ASSUME SpecInv, At("routes", "valid"), Value.ingress
              PROVE  Cardinality({RouteKeyOf(id) : id \in ToSet(RouteIds(Value))})
                       = Len(RouteIds(Value))
  BY DEF RoutesKeepApart
<1>1. Value \in Accepts
  BY DEF SpecInv, Value, At
<1>2. Value = specForm /\ Valid("routes", Value)
  BY <1>1, OthersAsWritten DEF At, Accepts, Decodings, DecodedKeys
<1>3. SpecFormed("routes", specForm)
  BY FormsHaveForms DEF At, FormOf, Defaults
<1>. QED  BY <1>2, <1>3, RoutesCounted

\* What validation accepts is stored in a form every later pass of the node
\* decodes to the same value, and reaches the guest as it was declared: no spec
\* is unreadable or clamped, no name loses its parts, no profile opens more than
\* it names, no two routes share a key (decode.rs and validate.rs against
\* desired_for_instance and create_detached).
THEOREM AcceptedKeysReachGuests == SpecSpec => []AcceptedReachesGuest
<1>1. SpecInv => AcceptedReachesGuest
  BY ReadsWhatIsStored, GuestGets, NamesAreFound, RoutesApart DEF AcceptedReachesGuest
<1>. QED  BY <1>1, SpecInitInv, SpecNextInv, PTL DEF SpecSpec

(***************************************************************************)
(* The five parts side by side.  Each is changed by its own steps only, so *)
(* that what is proved of a part holds of the composition.                 *)
(***************************************************************************)
pathVars == <<part, specVars, docVars, vars, storeVars, volVars>>

LEMMA SpecsTyped == SpecTypeOK /\ [SpecNext]_specVars => SpecTypeOK'
<1>. SUFFICES ASSUME SpecTypeOK, [SpecNext]_specVars PROVE SpecTypeOK'
  OBVIOUS
<1>0. \A v : Len(<<v>>) = 1
  OBVIOUS
<1>. USE <1>0 DEF SpecTypeOK
<1>1. CASE DecodeYaml
  <2>1. \/ specStage' = "refused" /\ specValue' = specValue
        \/ specStage' = "decoded" /\ Len(specValue') = 1
    BY <1>1 DEF DecodeYaml
  <2>2. UNCHANGED <<specKey, specJson, specRead>>
    BY <1>1 DEF DecodeYaml
  <2>3. CASE specValue' = specValue
    BY <2>1, <2>2, <2>3
  <2>4. CASE Len(specValue') = 1
    <3>1. Len(specValue') <= 1
      BY <2>4
    <3>2. specStage' \in {"refused", "decoded"}
      BY <2>1
    <3>. QED  BY <2>2, <3>1, <3>2
  <2>. QED  BY <2>1, <2>3, <2>4
<1>2. CASE ValidateStack
  BY <1>2 DEF ValidateStack
<1>3. CASE PlanSpec
  <2>1. Len(specValue') = 1 /\ Len(specJson') = 1
    BY <1>3 DEF PlanSpec
  <2>. QED  BY <1>3, <2>1 DEF PlanSpec
<1>4. CASE ReadStored
  <2>1. \/ specStage' = "unreadable" /\ specRead' = specRead
        \/ specStage' = "read" /\ Len(specRead') = 1
    BY <1>4 DEF ReadStored
  <2>2. UNCHANGED <<specKey, specValue, specJson>>
    BY <1>4 DEF ReadStored
  <2>3. CASE specRead' = specRead
    BY <2>1, <2>2, <2>3
  <2>4. CASE Len(specRead') = 1
    <3>1. Len(specRead') <= 1
      BY <2>4
    <3>2. specStage' \in {"unreadable", "read"}
      BY <2>1
    <3>. QED  BY <2>2, <3>1, <3>2
  <2>. QED  BY <2>1, <2>3, <2>4
<1>5. CASE UNCHANGED specVars
  BY <1>5 DEF specVars
<1>. QED  BY <1>1, <1>2, <1>3, <1>4, <1>5 DEF SpecNext

LEMMA DocIdleInv == DocIdle => DocInv
<1>. SUFFICES ASSUME DocIdle PROVE DocInv
  OBVIOUS
<1>1. DocTyped
  BY EmptySeq DEF DocIdle, DocTyped
<1>2. Len(docStack) = 0 /\ Done = {}
  BY EmptySeq DEF DocIdle, Done
<1>3. StackIsColored /\ StackIsPath /\ VerdictMatches
  BY <1>2 DEF DocIdle, StackIsColored, StackIsPath, VerdictMatches
<1>4. DoneInOrder
  <2>. DEFINE none == [s \in Done |-> 1]
  <2>1. none \in [Done -> 1 .. Cardinality(Done)]
    BY <1>2
  <2>. QED  BY <1>2, <2>1 DEF DoneInOrder
<1>. QED  BY <1>1, <1>3, <1>4 DEF DocInv

\* The stack is never longer than there are services, each being on it once.
LEMMA DocInvTypes == DocInv => DocTypeOK
<1>. SUFFICES ASSUME DocInv PROVE DocTypeOK
  OBVIOUS
<1>. DEFINE n == Len(docStack)
            f == [k \in 1 .. n |-> docStack[k].service]
<1>1. docStack \in Seq(DocFrames) /\ n \in Nat
  BY DEF DocInv, DocTyped
<1>2. f \in [1 .. n -> DocServices]
  <2>1. \A k \in 1 .. n : docStack[k] \in DocFrames
    BY <1>1
  <2>. QED  BY <2>1 DEF DocFrames
<1>3. \A j, k \in 1 .. n : f[j] = f[k] => j = k
  BY DEF DocInv, StackIsColored
<1>4. IsFiniteSet(DocServices)
  BY DocumentsAreNumbered, FS_Subset
<1>5. Cardinality(1 .. n) = n
  <2>1. Cardinality(1 .. n) = IF 1 > n THEN 0 ELSE n - 1 + 1
    BY <1>1, FS_Interval
  <2>. QED  BY <1>1, <2>1
<1>. HIDE DEF f, n
<1>6. f \in Injection(1 .. n, DocServices)
  BY <1>2, <1>3 DEF Injection, IsInjective
<1>7. n <= Cardinality(DocServices)
  BY <1>4, <1>5, <1>6, FS_Injection
<1>. QED  BY <1>7 DEF n, DocInv, DocTyped, DocTypeOK

\* A behaviour of the composition is one of the handler and one of the store,
\* and it keeps the invariants of the other parts.
LEMMA PathParts ==
    /\ PathInit => SpecTypeOK /\ DocInv /\ Init /\ StoreInit /\ VolInv
    /\ [PathNext]_pathVars =>
         /\ [SpecNext]_specVars /\ [DocNext]_docVars /\ [Next]_vars
         /\ [StoreNext]_storeVars /\ [VolNext]_volVars
<1>1. ASSUME PathInit PROVE SpecTypeOK /\ DocInv /\ Init /\ StoreInit /\ VolInv
  <2>1. SpecInit
    BY <1>1 DEF PathInit
  <2>2. SpecTypeOK
    BY <2>1 DEF SpecInit, SpecTypeOK
  <2>3. DocInv
    BY <1>1, DocInitInv, DocIdleInv DEF PathInit
  <2>. QED  BY <1>1, <2>2, <2>3, VolInitInv DEF PathInit
<1>2. ASSUME [PathNext]_pathVars
      PROVE  /\ [SpecNext]_specVars /\ [DocNext]_docVars /\ [Next]_vars
             /\ [StoreNext]_storeVars /\ [VolNext]_volVars
  BY <1>2 DEF PathNext, pathVars
<1>. QED  BY <1>1, <1>2

\* The five parts keep their types, for all sizes and inputs: rows, claims and
\* requests of the handler, tables and calls of the store, the search's stack,
\* the stages of a spec and the samples of a volume.
THEOREM PathTyped == PathSpec => []PathTypeOK
<1>1. PathSpec => PathInit /\ [][PathNext]_pathVars
  BY PTL DEF PathSpec, pathVars
<1>2. NoneIsNone
  BY NoneIsApart
<1>3. PathSpec => Spec /\ StoreSpec
  BY <1>1, PathParts, PTL DEF Spec, StoreSpec
<1>4. PathSpec => [](SpecTypeOK /\ DocInv /\ VolInv)
  BY <1>1, PathParts, SpecsTyped, DocNextInv, VolNextInv, PTL
<1>5. PathSpec => []TypeOK /\ []StoreInv
  BY <1>2, <1>3, StackApplyTyped, StoreInvAlways, PTL
<1>6. SpecTypeOK /\ DocInv /\ VolInv /\ TypeOK /\ StoreInv => PathTypeOK
  BY DocInvTypes DEF VolInv, StoreInv, PathTypeOK
<1>. QED  BY <1>4, <1>5, <1>6, PTL

\* Everything the apply path's parts are checked for holds of the composition:
\* of any documents the search, the claims and the capacity, of any callers and
\* crashes the store, of any keys what reaches the guest, of any writes the quota;
\* of documents with one target per port and one protocol, stability too.
THEOREM PathSafe ==
    PathSpec =>
      /\ [](AcceptedDocumentsStart /\ AcceptedReachesGuest)
      /\ [](ClaimsMatchRows /\ PortsExclusive /\ CapacityRespected)
      /\ []NodeKeepsItsPlacements
      /\ ImplementsMemoryStore /\ FreshQuotaCaps
      /\ OneTargetEach /\ OneProtocol => []ReapplyStable
<1>1. PathSpec => PathInit /\ [][PathNext]_pathVars
  BY PTL DEF PathSpec, pathVars
<1>2. NoneIsNone
  BY NoneIsApart
<1>3. PathSpec => Spec /\ StoreSpec
  BY <1>1, PathParts, PTL DEF Spec, StoreSpec
<1>4. PathInit => SpecInit
  BY DEF PathInit
<1>5. PathSpec => SpecSpec
  BY <1>1, <1>4, PathParts, PTL DEF SpecSpec
<1>6. PathSpec => [](AcceptedDocumentsStart /\ AcceptedReachesGuest)
  <2>1. PathSpec => []DocInv
    BY <1>1, PathParts, DocNextInv, PTL
  <2>. QED  BY <1>5, <2>1, VerdictsAreRight, AcceptedKeysReachGuests, PTL
<1>7. PathSpec => [](ClaimsMatchRows /\ PortsExclusive /\ CapacityRespected)
  BY <1>3, ClaimsMirrorRows, PortsAreExclusive, CapacityIsRespected, PTL
<1>8. PathSpec => ImplementsMemoryStore
  BY <1>2, <1>3, StatementsAreOperations, PTL
<1>9. PathSpec => FreshQuotaCaps
  BY <1>1, PathParts, VolNextInv, QuotaStep, PTL DEF FreshQuotaCaps
<1>10. PathSpec => []NodeKeepsItsPlacements
  BY <1>2, <1>3, PlacementsStay, PTL
<1>11. ASSUME OneTargetEach, OneProtocol PROVE PathSpec => []ReapplyStable
  BY <1>3, <1>11, ReapplyIsStable, PTL
<1>. QED  BY <1>6, <1>7, <1>8, <1>9, <1>10, <1>11
=============================================================================
