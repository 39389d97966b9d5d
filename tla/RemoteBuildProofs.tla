------------------------- MODULE RemoteBuildProofs -------------------------
(***************************************************************************)
(* Proofs about RemoteBuild, for every kind of provider, every timeout,    *)
(* every delay and every number of generations and faults.  RemoteInv is   *)
(* inductive by itself; NothingLeft is inductive relative to it.           *)
(***************************************************************************)
EXTENDS RemoteBuild, TLAPS

(* What the proofs need to know of a reconcile that is under way: it was   *)
(* started for the current attempt.                                        *)
ReconcileCurrent ==
  /\ pc \in {"answered", "cleaned"} => phase \in Active /\ started
  /\ pc \in {"idle", "finalize"} => answer = "none"
  /\ pc = "finalize" => deleting
  /\ phase = "Gone" => pc = "idle" /\ deleting
  /\ phase \in Active => obs \in {0, gen}
  /\ started => obs # 0

(* Nothing exists of an attempt before the status names it, and a kind of  *)
(* build without a builder never has one.                                  *)
Untouched ==
  /\ \A g \in Generations : g > obs => remote[g] = {}
  /\ kind \in Direct => \A g \in Generations : "builder" \notin remote[g]

(* What has been cleaned up is still gone when the status is written, and  *)
(* when the finalizer is removed.                                          *)
NothingLeft ==
  /\ pc = "cleaned" => \A r : r = AnswerRef => OnlyKnownLeft(r)
  /\ pc = "finalize" \/ phase = "Gone" =>
       /\ \A r : r = ref => OnlyKnownLeft(r)
       /\ ref # 0 /\ "builder" \in remote[ref] => kind = "vsphere"

(* Each retry in a row is due later than the one before.                   *)
RetriesApart ==
  /\ retries <= nextRetry
  /\ pc = "answered" => nextRetry <= Timeout /\ nextRetry <= elapsed

(* The inductive invariant of every provider.                              *)
RemoteInv ==
  /\ TypeOK
  /\ ReconcileCurrent
  /\ Untouched
  /\ RetriesApart
  /\ RetryWithinBudget

(* The delay of a retry is an integer between the least delay and the      *)
(* remaining time, whichever is more (retryRemoteBuild).                   *)
LEMMA RetryDelayBounds ==
  ASSUME TypeOK, NEW requested \in RetryAfters \cup {0}
  PROVE  /\ RetryDelay(requested) \in Nat
         /\ RetryDelay(requested) >= MinDelay
         /\ \/ RetryDelay(requested) = MinDelay
            \/ RetryDelay(requested) <= Timeout - elapsed
<1> DEFINE shift == AtMost(AtLeast(retries + 1, 1), 6)
<1>1. shift \in 1 .. 6
  BY TimeAssumption DEF TypeOK, AtMost, AtLeast
<1>2. Shifted[shift] \in Nat
  <2>1. \A i \in 1 .. 6 : Shifted[i] \in Nat
    BY DEF Shifted
  <2> QED BY <1>1, <2>1
<1> HIDE DEF shift
<1>3. RequeueAfter * Shifted[shift] \in Nat
  BY <1>2, TimeAssumption
<1>4. remoteRetryDelay(retries + 1) \in Nat
  BY <1>3, TimeAssumption DEF remoteRetryDelay, AtMost, shift
<1> QED
  BY <1>4, TimeAssumption DEF RetryDelay, AtMost, AtLeast, TypeOK

LEMMA RemoteInvInit == Init => RemoteInv
<1> SUFFICES ASSUME Init PROVE RemoteInv
  OBVIOUS
<1>1. TypeOK
  <2>1. gen \in Generations /\ obs \in 0 .. gen
    BY GenerationAssumption DEF Init, Generations
  <2>2. deleting \in BOOLEAN /\ started \in BOOLEAN /\ healthy \in BOOLEAN
        /\ named \in BOOLEAN
    BY DEF Init
  <2>3. remote \in [Generations -> SUBSET Things]
    BY DEF Init
  <2> QED
    BY <2>1, <2>2, <2>3, TimeAssumption, FaultAssumption
    DEF Init, TypeOK, Active, Answers
<1>2. ReconcileCurrent /\ RetriesApart /\ RetryWithinBudget
  BY TimeAssumption
  DEF Init, ReconcileCurrent, RetriesApart, RetryWithinBudget, Active
<1>3. Untouched
  BY DEF Init, Untouched
<1> QED
  BY <1>1, <1>2, <1>3 DEF RemoteInv

(* The conjuncts that a step leaves alone when it changes neither what the *)
(* provider holds nor which attempt the status names.                      *)
LEMMA UntouchedStays ==
  ASSUME Untouched, UNCHANGED <<kind, remote>>,
         obs \in Nat, obs' \in Nat, obs <= obs'
  PROVE  Untouched'
BY GenerationAssumption DEF Untouched, Generations

(* A write of the status keeps the invariant when the state of the retries *)
(* it leaves is consistent (EndReconcile).                                 *)
LEMMA EndReconcileKeepsInv ==
  ASSUME RemoteInv, NEW p \in Active \cup Terminal, EndReconcile(p),
         p \in Active => phase \in Active, phase \in Active,
         started' \in BOOLEAN, named' \in BOOLEAN,
         retries' \in 0 .. Timeout + 1,
         nextRetry' \in Nat, ref' \in {0, gen},
         retries' <= nextRetry', nextRetry' <= Timeout + 1 + MinDelay
  PROVE  RemoteInv'
<1> USE DEF RemoteInv
<1>1. gen \in Nat \ {0} /\ obs \in Nat /\ obs <= gen /\ obs' = gen /\ gen' = gen
  BY GenerationAssumption DEF TypeOK, Generations, EndReconcile, specVars
<1>2. TypeOK'
  BY <1>1 DEF EndReconcile, TypeOK, Active, Terminal, Answers, specVars
<1>3. ReconcileCurrent'
  BY <1>1 DEF EndReconcile, TypeOK, ReconcileCurrent, Active, Terminal, specVars
<1>4. Untouched'
  BY <1>1, UntouchedStays DEF EndReconcile
<1>5. RetriesApart' /\ RetryWithinBudget'
  BY DEF EndReconcile, RetriesApart, RetryWithinBudget
<1> QED
  BY <1>2, <1>3, <1>4, <1>5

(* In an active phase the reference is that of the current attempt.        *)
LEMMA ReferenceIsCurrent ==
  ASSUME RemoteInv, phase \in Active
  PROVE  ref \in {0, gen} /\ AnswerRef \in {0, gen}
BY DEF RemoteInv, TypeOK, ReconcileCurrent, AnswerRef

LEMMA RecordAnswerBounds ==
  ASSUME RemoteInv, RecordAnswer, phase \in Active
  PROVE  /\ started' \in BOOLEAN /\ retries' \in 0 .. Timeout + 1
         /\ named' \in BOOLEAN
         /\ nextRetry' \in Nat /\ ref' \in {0, gen}
         /\ retries' <= nextRetry' /\ nextRetry' <= Timeout + 1 + MinDelay
<1>1. named' \in BOOLEAN
  BY DEF RecordAnswer, AnswerNames
<1>2. ref' \in {0, gen}
  BY ReferenceIsCurrent DEF RecordAnswer
<1> QED
  BY <1>1, <1>2, TimeAssumption
  DEF RemoteInv, TypeOK, RecordAnswer, RetriesApart, RetryWithinBudget

(* A cleanup, complete or not, creates nothing but the snapshots of an AMI *)
(* that it deregisters.                                                    *)
LEMMA CleanupOnlyRemoves ==
  ASSUME RemoteInv, NEW r \in Generations \cup {0}, NEW names \in BOOLEAN,
         Cleaned(r, names) \/ PartlyCleaned(r, names), UNCHANGED <<kind, obs>>
  PROVE  remote' \in [Generations -> SUBSET Things] /\ Untouched'
<1> USE DEF RemoteInv
<1>1. Searched(r) \in Generations
  BY DEF Searched, TypeOK
<1>2. PICK gone, left :
        /\ left \in SUBSET {"snapshot"}
        /\ left # {} => "image" \in remote[Searched(r)]
        /\ remote' = [remote EXCEPT ![Searched(r)] = (@ \ gone) \cup left]
  <2>1. CASE Cleaned(r, names)
    <3>1. PICK gone : remote' = [remote EXCEPT ![Searched(r)] = @ \ gone]
      BY <2>1 DEF Cleaned
    <3>2. remote' = [remote EXCEPT ![Searched(r)] = (@ \ gone) \cup {}]
      BY <3>1
    <3> QED BY <3>2
  <2>2. CASE PartlyCleaned(r, names)
    BY <2>2 DEF PartlyCleaned
  <2> QED BY <2>1, <2>2
<1>3. remote' \in [Generations -> SUBSET Things]
  BY <1>1, <1>2 DEF TypeOK, Things
<1>4. \A g \in Generations : remote[g] = {} => remote'[g] = {}
  BY <1>1, <1>2 DEF TypeOK
<1>5. \A g \in Generations : "builder" \notin remote[g] => "builder" \notin remote'[g]
  BY <1>1, <1>2 DEF TypeOK
<1> QED
  BY <1>3, <1>4, <1>5 DEF Untouched

LEMMA RemoteInvStep == RemoteInv /\ [Next]_vars => RemoteInv'
<1> SUFFICES ASSUME RemoteInv, [Next]_vars PROVE RemoteInv'
  OBVIOUS
<1> USE DEF RemoteInv
<1>num. /\ gen \in Nat \ {0} /\ gen <= MaxGeneration /\ obs \in Nat /\ obs <= gen
        /\ gen \in Generations /\ ref \in Generations \cup {0}
  BY GenerationAssumption DEF TypeOK, Generations
<1>ref. AnswerRef \in Generations \cup {0} /\ AnswerNames \in BOOLEAN
  <2>1. AnswerNames \in BOOLEAN
    BY DEF AnswerNames
  <2> QED BY <2>1, <1>num DEF AnswerRef
<1>named. named \in BOOLEAN
  BY DEF TypeOK
<1>same. ASSUME UNCHANGED <<kind, remote, obs>> PROVE Untouched'
  BY <1>same DEF Untouched
<1>1. CASE ResetForRebuild
  <2>1. /\ started' = FALSE /\ named' = FALSE /\ obs' = gen' /\ gen' = gen
        /\ phase' = "Pending" /\ pc' = "idle" /\ pc = "idle"
        /\ retries' = 0 /\ nextRetry' = 0 /\ ref' = 0
    BY <1>1 DEF ResetForRebuild, specVars
  <2>2. started' \in BOOLEAN /\ named' \in BOOLEAN
    BY <2>1
  <2>3. TypeOK'
    BY <1>1, <2>1, <2>2, <1>num, TimeAssumption
    DEF ResetForRebuild, TypeOK, specVars, Active
  <2>4. ReconcileCurrent'
    BY <1>1, <2>1, <1>num DEF ResetForRebuild, ReconcileCurrent, specVars
  <2>5. Untouched'
    BY <1>1, <2>1, <1>num, UntouchedStays DEF ResetForRebuild
  <2> QED
    BY <2>1, <2>3, <2>4, <2>5, TimeAssumption DEF RetriesApart, RetryWithinBudget
<1>2. CASE RejectProvider \/ RejectConfig
  <2>1. Dispatch /\ EndReconcile("Failed") /\ UNCHANGED attemptVars
    BY <1>2 DEF RejectProvider, RejectConfig, Due
  <2>2. ref' \in {0, gen}
    BY <2>1, ReferenceIsCurrent DEF Dispatch, attemptVars
  <2> QED
    BY <2>1, <2>2, EndReconcileKeepsInv
    DEF Dispatch, attemptVars, TypeOK, RetriesApart, RetryWithinBudget, Active,
        Terminal
<1>3. CASE StartBuild
  <2>1. ref \in {0, gen} /\ obs' = gen /\ gen' = gen
    BY <1>3, ReferenceIsCurrent DEF StartBuild, Dispatch, specVars
  <2>2. TypeOK'
    BY <1>3, <2>1, <1>num, TimeAssumption
    DEF StartBuild, TypeOK, specVars, Active
  <2>3. Untouched'
    BY <1>3, <1>num, UntouchedStays DEF StartBuild
  <2> QED
    BY <1>3, <2>1, <2>2, <2>3, <1>num, TimeAssumption
    DEF StartBuild, Dispatch, ReconcileCurrent, RetriesApart,
        RetryWithinBudget, specVars, Active
<1>4. CASE TimeoutCleanup
  <2>1. remote' \in [Generations -> SUBSET Things] /\ Untouched'
    BY <1>4, <1>num, <1>named, CleanupOnlyRemoves DEF TimeoutCleanup
  <2> QED
    BY <1>4, <2>1
    DEF TimeoutCleanup, Dispatch, TypeOK, ReconcileCurrent, RetriesApart,
        RetryWithinBudget, specVars, attemptVars
<1>5. CASE InitUnavailable
  BY <1>5, <1>same, TimeAssumption
  DEF InitUnavailable, Due, Dispatch, TimedOut, TypeOK, ReconcileCurrent,
      RetriesApart, RetryWithinBudget, specVars, attemptVars, Answers
<1>6. CASE CallProvider
  <2>1. PICK now \in SUBSET Things, a \in Answers \ {"none"} :
          /\ ProviderMay(remote[gen], now, a)
          /\ remote' = [remote EXCEPT ![gen] = now]
          /\ answer' = a
    BY <1>6 DEF CallProvider
  <2>2. remote' \in [Generations -> SUBSET Things] /\ answer' \in Answers
    BY <2>1 DEF TypeOK
  <2>3. obs = gen /\ UNCHANGED <<kind, obs>>
    BY <1>6, <1>num DEF CallProvider, Due, Dispatch, ReconcileCurrent
  <2>4. kind \in Direct => "builder" \notin now
    BY <2>1 DEF ProviderMay
  <2>5. Untouched'
    BY <2>1, <2>3, <2>4, <1>num, GenerationAssumption
    DEF Untouched, TypeOK, Generations
  <2> QED
    BY <1>6, <2>2, <2>5, TimeAssumption
    DEF CallProvider, Due, Dispatch, TimedOut, TypeOK, ReconcileCurrent,
        RetriesApart, RetryWithinBudget, specVars, attemptVars
<1>7. CASE RecordProgress \/ FailCleaned \/ MarkReady
  <2>1. PICK p \in {phase, "Failed", "Ready"} : EndReconcile(p) /\ RecordAnswer
    BY <1>7 DEF RecordProgress, FailCleaned, MarkReady
  <2>2. phase \in Active
    BY <1>7 DEF RecordProgress, FailCleaned, MarkReady, ReconcileCurrent
  <2> QED
    BY <2>1, <2>2, RecordAnswerBounds, EndReconcileKeepsInv DEF Terminal
<1>8. CASE retryRemoteBuild
  <2>1. PICK requested \in RetryAfters \cup {0} :
          nextRetry' = elapsed + RetryDelay(requested)
    BY <1>8 DEF retryRemoteBuild
  <2>2. /\ RetryDelay(requested) \in Nat
        /\ RetryDelay(requested) >= MinDelay
        /\ \/ RetryDelay(requested) = MinDelay
           \/ RetryDelay(requested) <= Timeout - elapsed
    BY RetryDelayBounds
  <2>3. nextRetry' \in Nat /\ nextRetry' <= Timeout + 1 + MinDelay
    BY <2>1, <2>2, TimeAssumption DEF TypeOK
  <2>4. retries + 1 <= nextRetry'
    BY <1>8, <2>1, <2>2, TimeAssumption
    DEF retryRemoteBuild, RetriesApart, TypeOK
  <2>5. retries + 1 \in 0 .. Timeout + 1
    BY <1>8, TimeAssumption DEF retryRemoteBuild, RetriesApart, TypeOK
  <2>6. phase \in Active
    BY <1>8 DEF retryRemoteBuild, ReconcileCurrent
  <2>7. ref' \in {0, gen} /\ named' \in BOOLEAN
    BY <1>8, <2>6, <1>named, ReferenceIsCurrent DEF retryRemoteBuild
  <2> QED
    BY <1>8, <2>3, <2>4, <2>5, <2>6, <2>7, EndReconcileKeepsInv
    DEF retryRemoteBuild, TypeOK
<1>9. CASE FailUnfinished
  <2>1. phase \in Active
    BY <1>9 DEF FailUnfinished, ReconcileCurrent
  <2>2. /\ EndReconcile("Failed")
        /\ retries' = 0 /\ nextRetry' = 0 /\ started' = started
        /\ ref' \in {0, gen} /\ named' \in BOOLEAN
    BY <1>9, <2>1, <1>ref, <1>named, ReferenceIsCurrent DEF FailUnfinished
  <2> QED
    BY <2>1, <2>2, TimeAssumption, EndReconcileKeepsInv DEF Terminal, Active, TypeOK
<1>10. CASE FailureCleanup
  <2>1. remote' \in [Generations -> SUBSET Things] /\ Untouched'
    BY <1>10, <1>ref, CleanupOnlyRemoves DEF FailureCleanup
  <2> QED
    BY <1>10, <2>1
    DEF FailureCleanup, TypeOK, ReconcileCurrent, RetriesApart,
        RetryWithinBudget, specVars, attemptVars
<1>11. CASE CleanupFails
  <2>0. phase \in Active /\ started
    BY <1>11 DEF CleanupFails, Dispatch, ReconcileCurrent
  <2>1. /\ started' \in BOOLEAN /\ retries' \in 0 .. Timeout + 1
        /\ named' \in BOOLEAN /\ started' = started
        /\ nextRetry' \in Nat /\ ref' \in {0, gen}
        /\ retries' <= nextRetry' /\ nextRetry' <= Timeout + 1 + MinDelay
    <3>1. CASE RecordAnswer
      BY <3>1, <2>0, RecordAnswerBounds DEF RecordAnswer
    <3>2. CASE UNCHANGED attemptVars
      BY <3>2, <2>0, <1>named, ReferenceIsCurrent
      DEF attemptVars, TypeOK, RetriesApart, RetryWithinBudget
    <3> QED BY <1>11, <3>1, <3>2 DEF CleanupFails
  <2>2. remote' \in [Generations -> SUBSET Things] /\ Untouched'
    BY <1>11, <1>ref, CleanupOnlyRemoves DEF CleanupFails
  <2>3. phase # "Gone" /\ obs = gen
    BY <2>0 DEF ReconcileCurrent, Active
  <2> QED
    BY <1>11, <2>1, <2>2, <2>3
    DEF CleanupFails, TypeOK, ReconcileCurrent, RetriesApart,
        RetryWithinBudget, specVars, Answers
<1>12. CASE DeleteCleanup \/ DeleteCleanupFails
  <2>1. remote' \in [Generations -> SUBSET Things] /\ Untouched'
    BY <1>12, <1>num, <1>named, CleanupOnlyRemoves
    DEF DeleteCleanup, DeleteCleanupFails
  <2> QED
    BY <1>12, <2>1
    DEF DeleteCleanup, DeleteCleanupFails, TypeOK, ReconcileCurrent,
        RetriesApart, RetryWithinBudget, specVars, attemptVars
<1>14. CASE FinishDelete
  BY <1>14, <1>same
  DEF FinishDelete, TypeOK, ReconcileCurrent, RetriesApart,
      RetryWithinBudget, specVars, attemptVars, Active, Terminal
<1>15. CASE StatusConflict \/ Fault
  BY <1>15, <1>same, FaultAssumption
  DEF StatusConflict, Fault, TypeOK, ReconcileCurrent, RetriesApart,
      RetryWithinBudget, specVars, attemptVars, Answers
<1>16. CASE RequestDelete
  BY <1>16, <1>same
  DEF RequestDelete, TypeOK, ReconcileCurrent, RetriesApart,
      RetryWithinBudget, attemptVars
<1>17. CASE RequestRebuild
  <2>1. gen' \in Generations /\ obs \in 0 .. gen'
    BY <1>17, <1>num, GenerationAssumption DEF RequestRebuild, Generations
  <2>2. TypeOK'
    BY <1>17, <2>1 DEF RequestRebuild, TypeOK, attemptVars
  <2> QED
    BY <1>17, <1>same, <2>2
    DEF RequestRebuild, ReconcileCurrent, RetriesApart,
        RetryWithinBudget, attemptVars, Active, Terminal
<1>18. CASE Tick
  BY <1>18, <1>same, TimeAssumption
  DEF Tick, TypeOK, ReconcileCurrent, RetriesApart,
      RetryWithinBudget, attemptVars, specVars
<1>19. CASE LoseHealth \/ Recover
  <2>1. healthy' \in BOOLEAN
    BY <1>19 DEF LoseHealth, Recover
  <2> QED
    BY <1>19, <2>1, <1>same
    DEF LoseHealth, Recover, TypeOK, ReconcileCurrent, RetriesApart,
        RetryWithinBudget, attemptVars, specVars
<1>20. CASE UNCHANGED vars
  BY <1>20, <1>same
  DEF vars, TypeOK, ReconcileCurrent, RetriesApart,
      RetryWithinBudget, attemptVars, specVars
<1> QED
  BY <1>1, <1>2, <1>3, <1>4, <1>5, <1>6, <1>7, <1>8, <1>9, <1>10, <1>11, <1>12,
     <1>14, <1>15, <1>16, <1>17, <1>18, <1>19, <1>20
  DEF Next, Reconcile

(* What CleanupRemoteBuild leaves when it reports no error: by its         *)
(* provider, and by whether a reference was recorded.  Nothing of the      *)
(* current attempt exists when the reference is that of an older one.      *)
LEMMA CleanedLeavesKnown ==
  ASSUME RemoteInv, NEW r \in {0, obs, gen}, NEW names \in BOOLEAN,
         r # gen => r \in {0, obs}, Cleaned(r, names)
  PROVE  /\ "builder" \in remote'[gen] =>
              kind = "vsphere" \/ (kind = "openstack" /\ r # gen)
         /\ "image" \in remote'[gen] =>
              \/ kind \in {"azure", "openstack", "vsphere", "awsSnapshot"}
              \/ kind = "gcp" /\ r # gen
         /\ r # 0 /\ "builder" \in remote'[r] => kind = "vsphere"
<1> USE DEF RemoteInv
<1>1. /\ gen \in Generations /\ gen \in Nat \ {0} /\ obs \in Nat /\ obs <= gen
      /\ r # 0 => r \in Generations
  BY GenerationAssumption DEF TypeOK, Generations
<1>2. PICK gone \in {{}, Found(r, names)} :
        /\ gone = {} => kind = "vsphere" \/ Found(r, names) = {}
        /\ remote' = [remote EXCEPT ![Searched(r)] = @ \ gone]
  BY DEF Cleaned
<1>3. kind \in Direct => "builder" \notin remote[gen] /\ (r # 0 => "builder" \notin remote[r])
  BY <1>1 DEF Untouched
<1>4. Searched(r) \in Generations
  BY <1>1 DEF Searched
<1>5. kind # "vsphere" => gone = Found(r, names)
  BY <1>2
<1>6. kind \in {"aws", "awsSnapshot", "azure", "azureDirect", "gcp",
                "openstack", "vsphere"}
  BY KindAssumption DEF TypeOK
<1>7. r # 0 /\ "builder" \in remote'[r] => kind = "vsphere"
  <2> SUFFICES ASSUME r # 0, "builder" \in remote'[r], kind # "vsphere"
               PROVE  FALSE
    OBVIOUS
  <2>1. remote'[r] = remote[r] \ Found(r, names)
    BY <1>1, <1>2, <1>5 DEF Searched, TypeOK
  <2>2. kind \notin Direct
    BY <2>1, <1>3
  <2>3. "builder" \in Found(r, names)
    BY <2>2, <1>6 DEF Found, Direct
  <2> QED BY <2>1, <2>3
<1>8. CASE r \in {0, gen}
  <2>1. Searched(r) = gen
    BY <1>8 DEF Searched
  <2>2. kind # "vsphere" => remote'[gen] = remote[gen] \ Found(r, names)
    BY <1>1, <1>2, <1>5, <2>1 DEF TypeOK
  <2>3. "builder" \in remote'[gen] =>
          kind = "vsphere" \/ (kind = "openstack" /\ r # gen)
    <3>1. CASE kind \in Direct
      BY <3>1, <2>2, <1>3 DEF Direct
    <3>2. CASE kind \in {"aws", "azure"}
      BY <3>2, <2>2, <1>8 DEF Found
    <3>3. CASE kind = "openstack"
      BY <3>3, <2>2, <1>8, <1>1 DEF Found
    <3> QED BY <3>1, <3>2, <3>3, <1>6 DEF Direct
  <2>4. "image" \in remote'[gen] =>
          \/ kind \in {"azure", "openstack", "vsphere", "awsSnapshot"}
          \/ kind = "gcp" /\ r # gen
    <3>1. CASE kind \in {"aws", "azureDirect"}
      BY <3>1, <2>2, <1>8 DEF Found
    <3>2. CASE kind = "gcp"
      BY <3>2, <2>2, <1>8, <1>1 DEF Found
    <3> QED BY <3>1, <3>2, <1>6
  <2> QED BY <2>3, <2>4, <1>7
<1>9. CASE r \notin {0, gen}
  <2>1. r = obs /\ obs < gen
    BY <1>9, <1>1
  <2>2. remote[gen] = {}
    BY <2>1, <1>1 DEF Untouched
  <2>3. remote'[gen] = {}
    BY <2>2, <1>9, <1>1, <1>2 DEF Searched, TypeOK
  <2> QED BY <2>3, <1>7
<1> QED BY <1>8, <1>9

(* What a reconcile has cleaned stays clean until it ends: nothing but a   *)
(* reconcile asks the provider to build.                                   *)
LEMMA NothingLeftStep ==
  RemoteInv /\ NothingLeft /\ [Next]_vars => NothingLeft'
<1> SUFFICES ASSUME RemoteInv, NothingLeft, [Next]_vars PROVE NothingLeft'
  OBVIOUS
<1>ref. ref \in {0, obs}
  BY DEF RemoteInv, TypeOK
<1>names. named \in BOOLEAN /\ AnswerNames \in BOOLEAN
  <2>1. AnswerNames \in BOOLEAN
    BY DEF AnswerNames
  <2> QED BY <2>1 DEF RemoteInv, TypeOK
<1>1. CASE TimeoutCleanup
  <2>1. /\ phase \in Active /\ answer = "none" /\ answer' = answer /\ ref' = ref
        /\ gen' = gen /\ kind' = kind /\ pc' = "cleaned" /\ phase' = phase
        /\ Cleaned(ref, named)
    BY <1>1 DEF TimeoutCleanup, Dispatch, RemoteInv, ReconcileCurrent,
       attemptVars, specVars
  <2>2. AnswerRef' = ref
    BY <2>1 DEF AnswerRef, Results
  <2> QED
    BY <2>1, <2>2, <1>ref, <1>names, CleanedLeavesKnown
    DEF NothingLeft, OnlyKnownLeft, Active
<1>2. CASE FailureCleanup
  <2>1. /\ phase \in Active /\ answer' = answer /\ ref' = ref
        /\ gen' = gen /\ kind' = kind /\ pc' = "cleaned" /\ phase' = phase
        /\ Cleaned(AnswerRef, AnswerNames)
    BY <1>2 DEF FailureCleanup, RemoteInv, ReconcileCurrent, attemptVars,
       specVars
  <2>2. AnswerRef' = AnswerRef
    BY <2>1 DEF AnswerRef
  <2>3. AnswerRef \in {0, gen}
    BY <2>1, ReferenceIsCurrent
  <2>4. AnswerRef # gen => AnswerRef \in {0, obs}
    BY <2>3
  <2> QED
    BY <2>1, <2>2, <2>3, <2>4, <1>names, CleanedLeavesKnown
    DEF NothingLeft, OnlyKnownLeft, Active
<1>3. CASE DeleteCleanup
  <2>1. /\ ref' = ref /\ gen' = gen /\ kind' = kind /\ pc' = "finalize"
        /\ Cleaned(ref, named)
    BY <1>3 DEF DeleteCleanup, attemptVars, specVars
  <2> QED
    BY <2>1, <1>ref, <1>names, CleanedLeavesKnown
    DEF NothingLeft, OnlyKnownLeft
<1>4. CASE CleanupFails \/ DeleteCleanupFails
  BY <1>4
  DEF CleanupFails, DeleteCleanupFails, NothingLeft, RemoteInv,
      ReconcileCurrent, Dispatch, Active
<1>5. CASE FinishDelete
  <2>1. /\ pc = "finalize" /\ pc' = "idle" /\ ref' = ref
        /\ UNCHANGED <<gen, kind, remote>>
    BY <1>5 DEF FinishDelete, attemptVars, specVars
  <2> QED
    BY <2>1 DEF NothingLeft, OnlyKnownLeft
<1>6. CASE RequestRebuild
  BY <1>6
  DEF RequestRebuild, NothingLeft, RemoteInv, ReconcileCurrent, Active, Terminal
<1>7. CASE ResetForRebuild \/ StartBuild \/ InitUnavailable \/ CallProvider
  BY <1>7
  DEF ResetForRebuild, StartBuild, InitUnavailable, CallProvider, Due,
      Dispatch, NothingLeft, Active, Terminal
<1>8. CASE \/ RejectProvider \/ RejectConfig \/ RecordProgress
           \/ retryRemoteBuild \/ FailUnfinished \/ FailCleaned \/ MarkReady
  <2>1. PICK p \in {"Failed", "Ready", phase} : EndReconcile(p)
    BY <1>8 DEF RejectProvider, RejectConfig, RecordProgress,
       retryRemoteBuild, FailUnfinished, FailCleaned, MarkReady
  <2>2. phase \in Active
    BY <1>8 DEF RejectProvider, RejectConfig, RecordProgress, Due, Dispatch,
       retryRemoteBuild, FailUnfinished, FailCleaned, MarkReady, RemoteInv,
       ReconcileCurrent
  <2> QED
    BY <2>1, <2>2 DEF EndReconcile, NothingLeft, Active
<1>9. CASE StatusConflict \/ Fault
  BY <1>9
  DEF StatusConflict, Fault, NothingLeft, RemoteInv, ReconcileCurrent
<1>10. CASE RequestDelete \/ Tick \/ LoseHealth \/ Recover \/ UNCHANGED vars
  <2>1. UNCHANGED <<phase, pc, gen, ref, answer, kind, remote>>
    BY <1>10
    DEF RequestDelete, Tick, LoseHealth, Recover, vars, attemptVars, specVars
  <2>2. AnswerRef' = AnswerRef
    BY <2>1 DEF AnswerRef
  <2> QED
    BY <2>1, <2>2 DEF NothingLeft, OnlyKnownLeft
<1> QED
  BY <1>1, <1>2, <1>3, <1>4, <1>5, <1>6, <1>7, <1>8, <1>9, <1>10
  DEF Next, Reconcile

(* The controller's view of a user's requests: every step of a remote      *)
(* build is a step of the contract or leaves what the user sees unchanged. *)
LEMMA ContractStep ==
  RemoteInv /\ [Next]_vars => [Contract!Next]_(Contract!cvars)
<1> SUFFICES ASSUME RemoteInv, [Next]_vars
             PROVE  [Contract!Next]_(Contract!cvars)
  OBVIOUS
<1> USE DEF RemoteInv
<1>0. /\ gen \in Int /\ obs \in Int
      /\ phase \in Active \cup Terminal \cup {"Gone"}
  BY GenerationAssumption DEF TypeOK, Generations
<1>1. CASE RequestRebuild
  <2>1. Contract!Request
    BY <1>1, <1>0 DEF RequestRebuild, Contract!Request, Contract!Outcomes, Active, Terminal
  <2> QED BY <2>1 DEF Contract!Next
<1>2. CASE ResetForRebuild
  <2>1. Contract!TakeUp
    BY <1>2
    DEF ResetForRebuild, Contract!TakeUp, Contract!Outcomes, Active, Terminal, specVars
  <2> QED BY <2>1 DEF Contract!Next
<1>3. CASE FinishDelete
  <2>1. Contract!Remove
    BY <1>3 DEF FinishDelete, Contract!Remove, ReconcileCurrent, Active, specVars
  <2> QED BY <2>1 DEF Contract!Next
<1>4. CASE \/ RejectProvider \/ RejectConfig \/ RecordProgress
           \/ retryRemoteBuild \/ FailUnfinished \/ FailCleaned \/ MarkReady
  <2>1. PICK p \in {"Failed", "Ready", phase} : EndReconcile(p)
    BY <1>4 DEF RejectProvider, RejectConfig, RecordProgress,
       retryRemoteBuild, FailUnfinished, FailCleaned, MarkReady
  <2>2. phase \in Active
    BY <1>4 DEF RejectProvider, RejectConfig, RecordProgress, Due, Dispatch,
       retryRemoteBuild, FailUnfinished, FailCleaned, MarkReady, ReconcileCurrent
  <2>3. obs \in {0, gen} /\ obs' = gen /\ gen' = gen /\ phase' = p
    BY <2>1, <2>2 DEF EndReconcile, specVars, ReconcileCurrent
  <2>4. CASE p = phase /\ obs = gen
    BY <2>3, <2>4 DEF Contract!cvars
  <2>5. CASE p = phase /\ obs = 0
    <3>1. Contract!Adopt
      BY <2>3, <2>5 DEF Contract!Adopt
    <3> QED BY <3>1 DEF Contract!Next
  <2>6. CASE p # phase
    <3>1. Contract!Conclude
      BY <2>1, <2>2, <2>3, <2>6
      DEF Contract!Conclude, Contract!Outcomes, Active
    <3> QED BY <3>1 DEF Contract!Next
  <2> QED BY <2>3, <2>4, <2>5, <2>6
<1>5. CASE StartBuild
  <2>1. /\ phase \in Active /\ phase' = "Building" /\ obs \in {0, gen}
        /\ obs' = gen /\ gen' = gen
    BY <1>5 DEF StartBuild, Dispatch, specVars
  <2>2. CASE obs = gen
    BY <2>1, <2>2 DEF Active, Contract!cvars
  <2>3. CASE obs = 0
    <3>1. Contract!Adopt
      BY <2>1, <2>3 DEF Contract!Adopt, Active
    <3> QED BY <3>1 DEF Contract!Next
  <2> QED BY <2>1, <2>2, <2>3
<1>6. CASE UNCHANGED <<phase, gen, obs>>
  BY <1>6 DEF Contract!cvars
<1>7. CASE \/ TimeoutCleanup \/ InitUnavailable \/ CallProvider
           \/ FailureCleanup \/ CleanupFails \/ DeleteCleanup
           \/ DeleteCleanupFails \/ StatusConflict \/ Fault \/ RequestDelete
           \/ Tick \/ LoseHealth \/ Recover \/ UNCHANGED vars
  BY <1>6, <1>7
  DEF TimeoutCleanup, InitUnavailable, CallProvider, FailureCleanup,
      CleanupFails, DeleteCleanup, DeleteCleanupFails, StatusConflict, Fault,
      RequestDelete, Tick, LoseHealth, Recover, vars, specVars
<1> QED
  BY <1>1, <1>2, <1>3, <1>4, <1>5, <1>7 DEF Next, Reconcile

LEMMA RemoteInvHolds == Spec => []RemoteInv
BY RemoteInvInit, RemoteInvStep, PTL DEF Spec

(* TypeOK, the bound of the number of retries in a row included, holds for *)
(* every timeout and every delay (retryRemoteBuild).                       *)
THEOREM RemoteTypeCorrect == Spec => []TypeOK
BY RemoteInvHolds, PTL DEF RemoteInv

(* No retry is put off past the timeout by more than the least delay, for  *)
(* every timeout, every maximum and every delay a provider may ask for.    *)
THEOREM RetriesStayInBudget == Spec => []RetryWithinBudget
BY RemoteInvHolds, PTL DEF RemoteInv

LEMMA NothingLeftHolds == Spec => []NothingLeft
<1>1. Init => NothingLeft
  BY DEF Init, NothingLeft
<1> QED
  BY <1>1, NothingLeftStep, RemoteInvHolds, PTL DEF Spec

(* Whatever the provider, a VMImage whose finalizer is gone leaves of its  *)
(* current attempt only what cleanup does not look for, and a builder only *)
(* where Destroy was refused or no reference was ever recorded, for any    *)
(* number of faults and generations (reconcileDelete, cleanupRemoteBuild). *)
THEOREM DeletionIsClean == Spec => []DeletionRemovesBuild
<1>1. NothingLeft => DeletionRemovesBuild
  BY DEF NothingLeft, DeletionRemovesBuild
<1> QED
  BY <1>1, NothingLeftHolds, PTL

(* An attempt that timed out, failed or was rejected is Failed only when   *)
(* it was cleaned up with the reference that is then recorded, whatever    *)
(* the provider and wherever the controller stopped before.                *)
THEOREM FailureIsClean == Spec => CleanedBeforeFailed
<1>1. RemoteInv /\ NothingLeft /\ [Next]_vars
        => [phase' = "Failed" /\ phase # "Failed"
              /\ (pc = "cleaned" \/ answer \in {"terminal", "rejected"})
            => OnlyKnownLeft(ref')]_vars
  <2> SUFFICES ASSUME RemoteInv, NothingLeft, Next, phase' = "Failed",
                      phase # "Failed",
                      pc = "cleaned" \/ answer \in {"terminal", "rejected"}
               PROVE  OnlyKnownLeft(ref')
    OBVIOUS
  <2> USE DEF RemoteInv, ReconcileCurrent
  <2>1. CASE FailCleaned
    <3>1. pc = "cleaned" /\ ref' = AnswerRef
      BY <2>1 DEF FailCleaned, RecordAnswer
    <3> QED BY <3>1 DEF NothingLeft
  <2>2. CASE \/ RejectProvider \/ RejectConfig \/ RecordProgress
             \/ retryRemoteBuild \/ FailUnfinished \/ MarkReady
    BY <2>2 DEF RejectProvider, RejectConfig, RecordProgress, Due, Dispatch,
       retryRemoteBuild, FailUnfinished, MarkReady, EndReconcile
  <2>3. CASE \/ ResetForRebuild \/ StartBuild \/ TimeoutCleanup
             \/ InitUnavailable \/ CallProvider \/ FailureCleanup
             \/ CleanupFails \/ DeleteCleanup \/ FinishDelete
             \/ StatusConflict \/ DeleteCleanupFails \/ Fault
             \/ RequestDelete \/ RequestRebuild \/ Tick \/ LoseHealth
             \/ Recover
    BY <2>3 DEF ResetForRebuild, StartBuild, TimeoutCleanup, InitUnavailable,
       CallProvider, FailureCleanup, CleanupFails, DeleteCleanup, FinishDelete,
       StatusConflict, DeleteCleanupFails, Fault, RequestDelete,
       RequestRebuild, Tick, LoseHealth, Recover
  <2> QED
    BY <2>1, <2>2, <2>3 DEF Next, Reconcile
<1> QED
  BY <1>1, NothingLeftHolds, RemoteInvHolds, PTL DEF Spec, CleanedBeforeFailed

(* A remote build implements the contract of a VMImage: outcomes stand     *)
(* until a newer request is taken up, and removal is final.                *)
THEOREM RemoteMeetsContract == Spec => MeetsContract
<1>1. Init => Contract!Init
  BY DEF Init, Contract!Init, Active
<1> QED
  BY <1>1, ContractStep, RemoteInvHolds, PTL
  DEF Spec, MeetsContract, Contract!Spec
=============================================================================
