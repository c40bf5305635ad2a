------------------------- MODULE AtomicStepProofs -------------------------
(***************************************************************************)
(* What holds of the authenticated step for any parameters, any readers    *)
(* and any number of attempts and interrupts.                              *)
(*                                                                         *)
(* Leased says where the trainer holds the lock and the lease.  Live adds  *)
(* what the flags and the trainer's place say of provider and manifest;    *)
(* Undoing what an uninterrupted step still knows of the policy it started *)
(* from.  Watching is about the readers: a provider's guard is never ahead *)
(* of the counters, and where they agree so do the values, but for the one *)
(* parameter a kernel has written and not counted.                         *)
(***************************************************************************)
EXTENDS AtomicStep, TLAPS

\* Where the trainer holds the lock and the lease, where it may be in a kernel,
\* which is one, and where it has given up its session.
Leased ==
    /\ kernel # {} => step \in {"stepping", "restoring"}
    /\ \A p, q \in kernel : p = q
    /\ step \notin {"idle", "done", "failing"} => depth > 0
    /\ step \notin {"idle", "check", "release", "done", "failing"} => active
    /\ step = "failing" /\ session = "active" => depth > 0 /\ active
    /\ step \in {"inactive", "release", "done"} => session = "retired"

-----------------------------------------------------------------------------
\* The two kinds of threads.

\* A reader changes nothing of the trainer's.
LEMMA ReadersOnlyRead ==
    ASSUME NEW r \in Readers, ReaderStep(r)
    PROVE  UNCHANGED <<weights, grads, runtime, step, attemptV>>
<1>1. CASE Ask(r)
  BY <1>1 DEF Ask
<1>2. CASE Proceed(r)
  BY <1>2 DEF Proceed
<1>3. ASSUME NEW p \in Params, Look(r, p)
      PROVE  UNCHANGED <<weights, grads, runtime, step, attemptV>>
  BY <1>3 DEF Look, Examine
<1>4. ASSUME NEW p \in Params, Read(r, p)
      PROVE  UNCHANGED <<weights, grads, runtime, step, attemptV>>
  BY <1>4 DEF Read
<1>5. CASE Authenticate(r)
  BY <1>5 DEF Authenticate
<1>6. ASSUME NEW p \in Params, Hash(r, p)
      PROVE  UNCHANGED <<weights, grads, runtime, step, attemptV>>
  BY <1>6 DEF Hash, Examine
<1> QED
  BY <1>1, <1>2, <1>3, <1>4, <1>5, <1>6 DEF ReaderStep

-----------------------------------------------------------------------------
\* Types.

\* The initial values have their types.
LEMMA UntouchedIsPolicy ==
    /\ Untouched \in Policy
    /\ [policy |-> Untouched, guard |-> Untouched] \in Provider
BY DEF Untouched, Policy, Provider

\* A provider issued now is for the parameters and counters of now.
LEMMA FreshIsProvider ==
    ASSUME TypeOK
    PROVE  Fresh \in Provider /\ Fresh.policy = bytes /\ Fresh.guard = version
BY DEF TypeOK, Fresh, Provider

\* The initial state is well typed.
LEMMA InitType == Init => TypeOK
<1> SUFFICES ASSUME Init PROVE TypeOK
  OBVIOUS
<1>1. bytes \in Policy /\ version \in Policy /\ kernel \subseteq Params /\ provider \in Provider /\ manifest \in Policy
  BY UntouchedIsPolicy DEF Init
<1>2. before \in Policy /\ snapshots \in Policy /\ prepared \in Provider
  BY UntouchedIsPolicy DEF Init
<1>3. attempt \in 0..MaxAttempts /\ interrupts \in 0..MaxInterrupts
  BY AtomicStepAssumption DEF Init
<1>4. reader \in [Readers -> Phases] /\ unseen \in [Readers -> SUBSET Params]
  BY DEF Init, Phases
<1>5. handle \in [Readers -> Provider] /\ seen \in [Readers -> Policy]
  BY UntouchedIsPolicy DEF Init
<1>6. /\ grads \in BOOLEAN /\ active \in BOOLEAN /\ corrupt \in BOOLEAN /\ depth \in Nat
      /\ step \in Steps /\ session \in {"none", "active", "retired"} /\ mutation \in BOOLEAN
      /\ todo \subseteq Params /\ failed \in BOOLEAN
      /\ outcome \in {"none", "returned", "raised"}
  BY DEF Init, Steps
<1> QED
  BY <1>1, <1>2, <1>3, <1>4, <1>5, <1>6 DEF TypeOK

\* A kernel keeps values and counters natural.
LEMMA WriteType ==
    ASSUME TypeOK, NEW p \in Params, NEW value \in Nat, WriteBytes(p, value)
    PROVE  bytes' \in Policy /\ version' \in Policy /\ kernel' \subseteq Params
BY DEF TypeOK, WriteBytes, Policy

\* A new attempt keeps the types.
LEMMA BeginType == TypeOK /\ Begin => TypeOK'
<1> SUFFICES ASSUME TypeOK, Begin PROVE TypeOK'
  OBVIOUS
<1>1. attempt' \in 0..MaxAttempts /\ interrupts' \in 0..MaxInterrupts
  BY AtomicStepAssumption DEF TypeOK, Begin, weights, runtime, attemptV, readers
<1>2. /\ before' \in Policy /\ snapshots' \in Policy /\ prepared' \in Provider
      /\ session' \in {"none", "active", "retired"} /\ mutation' \in BOOLEAN
      /\ todo' \subseteq Params /\ failed' \in BOOLEAN
      /\ outcome' \in {"none", "returned", "raised"}
  BY DEF TypeOK, Begin, weights, runtime, attemptV, readers
<1>3. /\ bytes' \in Policy /\ version' \in Policy /\ kernel' \subseteq Params /\ grads' \in BOOLEAN
      /\ provider' \in Provider /\ manifest' \in Policy
      /\ active' \in BOOLEAN /\ corrupt' \in BOOLEAN /\ depth' \in Nat /\ step' \in Steps
  BY DEF TypeOK, Begin, Steps, weights, runtime, attemptV, readers
<1>4. /\ reader' \in [Readers -> Phases] /\ handle' \in [Readers -> Provider]
      /\ seen' \in [Readers -> Policy] /\ unseen' \in [Readers -> SUBSET Params]
  BY DEF TypeOK, Begin, weights, runtime, attemptV, readers
<1> QED
  BY <1>1, <1>2, <1>3, <1>4 DEF TypeOK

\* Every step keeps the types, given where the lock is held.
LEMMA TypeStep == TypeOK /\ Leased /\ [Next]_vars => TypeOK'
<1> SUFFICES ASSUME TypeOK, Leased, [Next]_vars PROVE TypeOK'
  OBVIOUS
<1> USE AtomicStepAssumption DEF TypeOK, Steps, weights, runtime, attemptV, readers
<1>1. CASE Check
  BY <1>1 DEF Check
<1>2. CASE Lease
  BY <1>2 DEF Lease
<1>3. CASE Backward
  BY <1>3 DEF Backward
<1>4. CASE Snapshot
  BY <1>4 DEF Snapshot
<1>5. CASE Mutate
  BY <1>5 DEF Mutate
<1>6. CASE ZeroGrad
  BY <1>6 DEF ZeroGrad
<1>7. CASE Prepare
  BY FreshIsProvider, <1>7 DEF Prepare
<1>8. CASE PublishProvider
  BY <1>8 DEF PublishProvider
<1>9. CASE PublishManifest
  BY <1>9 DEF PublishManifest, Provider
<1>10. CASE Retire
  BY <1>10 DEF Retire
<1>11. CASE Deactivate
  BY <1>11 DEF Deactivate
<1>12. CASE Release
  BY <1>12 DEF Release, Leased
<1>13. CASE Done
  BY <1>13 DEF Done
<1>14. CASE CheckFails
  BY <1>14 DEF CheckFails, Raise, Leased
<1>15. CASE Fail
  BY <1>15 DEF Fail
<1>16. CASE ClearGradients
  BY <1>16 DEF ClearGradients
<1>17. CASE NothingToRecover
  BY <1>17 DEF NothingToRecover, Raise
<1>18. CASE Recover
  BY <1>18 DEF Recover
<1>19. CASE Restored
  BY <1>19 DEF Restored
<1>20. CASE Verify
  BY FreshIsProvider, <1>20 DEF Verify
<1>21. CASE RecoveryFails
  BY <1>21 DEF RecoveryFails
<1>22. CASE MarkCorrupt
  BY <1>22 DEF MarkCorrupt
<1>23. CASE InterruptBegin
  BY <1>23 DEF InterruptBegin, Raise, Leased
<1>24. CASE InterruptStep
  BY <1>24 DEF InterruptStep
<1>25. CASE InterruptRecovery
  BY <1>25 DEF InterruptRecovery
<1>26. CASE InterruptHandler
  BY <1>26 DEF InterruptHandler, Raise
<1>27. ASSUME NEW p \in Params, StepParam(p)
      PROVE  TypeOK'
  <2>1. PICK value \in Nat : WriteBytes(p, value)
    BY <1>27 DEF StepParam, Policy
  <2>2. bytes' \in Policy /\ version' \in Policy /\ kernel' \subseteq Params
    BY <2>1, WriteType
  <2> QED
    BY <1>27, <2>2 DEF StepParam
<1>28. ASSUME NEW p \in Params, RestoreParam(p)
      PROVE  TypeOK'
  <2>1. snapshots[p] \in Nat /\ WriteBytes(p, snapshots[p])
    BY <1>28 DEF RestoreParam, Policy
  <2>2. bytes' \in Policy /\ version' \in Policy /\ kernel' \subseteq Params
    BY <2>1, WriteType
  <2> QED
    BY <1>28, <2>2 DEF RestoreParam
<1>29. ASSUME NEW r \in Readers, Ask(r)
      PROVE  TypeOK'
  BY <1>29, UntouchedIsPolicy DEF Ask, Fetch, Phases
<1>30. ASSUME NEW r \in Readers, Proceed(r)
      PROVE  TypeOK'
  BY <1>30 DEF Proceed, NextPhase, Phases
<1>31. ASSUME NEW r \in Readers, NEW p \in Params, Look(r, p)
      PROVE  TypeOK'
  BY <1>31 DEF Look, Examine, Phases
<1>32. ASSUME NEW r \in Readers, NEW p \in Params, Read(r, p)
      PROVE  TypeOK'
  BY <1>32 DEF Read, Policy
<1>33. CASE UNCHANGED vars
  BY <1>33 DEF vars
<1>34. CASE CountWrite
  BY <1>34 DEF CountWrite, Policy
<1>35. ASSUME NEW r \in Readers, Authenticate(r)
      PROVE  TypeOK'
  BY <1>35 DEF Authenticate, Phases
<1>36. ASSUME NEW r \in Readers, NEW p \in Params, Hash(r, p)
      PROVE  TypeOK'
  BY <1>36 DEF Hash, Examine, Phases
<1> HIDE DEF TypeOK, Steps, weights, runtime, attemptV, readers
<1>37. CASE Begin
  BY <1>37, BeginType
<1>38. CASE Transaction
  BY <1>38, <1>1, <1>2, <1>3, <1>4, <1>5, <1>6, <1>7, <1>8, <1>9, <1>10, <1>11, <1>12, <1>13, <1>27, <1>34 DEF Transaction
<1>39. CASE Handler
  BY <1>39, <1>14, <1>15, <1>16, <1>17, <1>18, <1>19, <1>20, <1>21, <1>22, <1>28 DEF Handler
<1>40. CASE Interrupt
  BY <1>40, <1>23, <1>24, <1>25, <1>26 DEF Interrupt
<1>41. ASSUME NEW r \in Readers, ReaderStep(r)
      PROVE  TypeOK'
  BY <1>41, <1>29, <1>30, <1>31, <1>32, <1>35, <1>36 DEF ReaderStep
<1> QED
  BY <1>33, <1>37, <1>38, <1>39, <1>40, <1>41 DEF Next

\* Every step keeps where lock and lease are held.
LEMMA LeasedStep == TypeOK /\ Leased /\ [Next]_vars => Leased'
<1> SUFFICES ASSUME TypeOK, Leased, [Next]_vars PROVE Leased'
  OBVIOUS
<1> USE DEF TypeOK, Steps, Leased, weights, runtime, attemptV, readers
<1>1. CASE Begin
  BY <1>1 DEF Begin
<1>2. CASE Check
  BY <1>2 DEF Check
<1>3. CASE Lease
  BY <1>3 DEF Lease
<1>4. CASE Backward
  BY <1>4 DEF Backward
<1>5. CASE Snapshot
  BY <1>5 DEF Snapshot
<1>6. CASE Mutate
  BY <1>6 DEF Mutate
<1>7. CASE ZeroGrad
  BY <1>7 DEF ZeroGrad
<1>8. CASE Prepare
  BY <1>8 DEF Prepare
<1>9. CASE PublishProvider
  BY <1>9 DEF PublishProvider
<1>10. CASE PublishManifest
  BY <1>10 DEF PublishManifest
<1>11. CASE Retire
  BY <1>11 DEF Retire
<1>12. CASE Deactivate
  BY <1>12 DEF Deactivate
<1>13. CASE Release
  BY <1>13 DEF Release
<1>14. CASE Done
  BY <1>14 DEF Done
<1>15. CASE CheckFails
  BY <1>15 DEF CheckFails, Raise
<1>16. CASE Fail
  BY <1>16 DEF Fail
<1>17. CASE ClearGradients
  BY <1>17 DEF ClearGradients
<1>18. CASE NothingToRecover
  BY <1>18 DEF NothingToRecover, Raise
<1>19. CASE Recover
  BY <1>19 DEF Recover
<1>20. CASE Restored
  BY <1>20 DEF Restored
<1>21. CASE Verify
  BY <1>21 DEF Verify
<1>22. CASE RecoveryFails
  BY <1>22 DEF RecoveryFails
<1>23. CASE MarkCorrupt
  BY <1>23 DEF MarkCorrupt
<1>24. CASE InterruptBegin
  BY <1>24 DEF InterruptBegin, Raise
<1>25. CASE InterruptStep
  BY <1>25 DEF InterruptStep
<1>26. CASE InterruptRecovery
  BY <1>26 DEF InterruptRecovery
<1>27. CASE InterruptHandler
  BY <1>27 DEF InterruptHandler, Raise
<1>28. ASSUME NEW p \in Params, StepParam(p)
      PROVE  Leased'
  BY <1>28 DEF StepParam, WriteBytes
<1>29. ASSUME NEW p \in Params, RestoreParam(p)
      PROVE  Leased'
  BY <1>29 DEF RestoreParam, WriteBytes
<1>30. CASE CountWrite
  BY <1>30 DEF CountWrite
<1>31. ASSUME NEW r \in Readers, ReaderStep(r)
      PROVE  Leased'
  BY <1>31, ReadersOnlyRead
<1>32. CASE UNCHANGED vars
  BY <1>32 DEF vars
<1> HIDE DEF TypeOK, Steps, Leased, weights, runtime, attemptV, readers
<1>33. CASE Transaction
  BY <1>33, <1>2, <1>3, <1>4, <1>5, <1>6, <1>7, <1>8, <1>9, <1>10, <1>11, <1>12, <1>13, <1>14, <1>28, <1>30 DEF Transaction
<1>34. CASE Handler
  BY <1>34, <1>15, <1>16, <1>17, <1>18, <1>19, <1>20, <1>21, <1>22, <1>23, <1>29 DEF Handler
<1>35. CASE Interrupt
  BY <1>35, <1>24, <1>25, <1>26, <1>27 DEF Interrupt
<1> QED
  BY <1>1, <1>31, <1>32, <1>33, <1>34, <1>35 DEF Next

\* Both hold throughout.
LEMMA LeasedAlways == Spec => [](TypeOK /\ Leased)
<1>1. Init => TypeOK /\ Leased
  BY InitType DEF Init, Leased
<1>2. TypeOK /\ Leased /\ [Next]_vars => (TypeOK /\ Leased)'
  BY TypeStep, LeasedStep
<1> QED
  BY <1>1, <1>2, PTL DEF Spec

\* Every variable keeps its type: the lock is never released more often than it
\* was taken, whatever interrupts, and the handler finds a session where it needs
\* one.
THEOREM TypeCorrect == Spec => []TypeOK
BY LeasedAlways, PTL

-----------------------------------------------------------------------------
\* What is served.

Consistent == Reauthenticated /\ ~grads

Live ==
    /\ Ready => Consistent
    /\ step \in {"retire", "inactive"} /\ ~corrupt => Consistent
    /\ step = "manifest" => provider = Fresh /\ prepared = Fresh
    /\ step \in {"prepare", "publish", "manifest", "recover", "restoring", "verify"} => ~grads

\* Every step keeps what provider and manifest are.
LEMMA LiveStep == TypeOK /\ Leased /\ Live /\ [Next]_vars => Live'
<1> SUFFICES ASSUME TypeOK, Leased, Live, [Next]_vars PROVE Live'
  OBVIOUS
<1> USE DEF TypeOK, Leased, Live, Ready, Consistent, Reauthenticated, Fresh, weights, runtime, attemptV, readers
<1>1. CASE Begin
  BY <1>1 DEF Begin
<1>2. CASE Check
  BY <1>2 DEF Check
<1>3. CASE Lease
  BY <1>3 DEF Lease
<1>4. CASE Backward
  BY <1>4 DEF Backward
<1>5. CASE Snapshot
  BY <1>5 DEF Snapshot
<1>6. CASE Mutate
  BY <1>6 DEF Mutate
<1>7. CASE ZeroGrad
  BY <1>7 DEF ZeroGrad
<1>8. CASE Prepare
  BY <1>8 DEF Prepare
<1>9. CASE PublishProvider
  BY <1>9 DEF PublishProvider
<1>10. CASE PublishManifest
  BY FreshIsProvider, <1>10 DEF PublishManifest
<1>11. CASE Retire
  BY <1>11 DEF Retire
<1>12. CASE Deactivate
  BY <1>12 DEF Deactivate
<1>13. CASE Release
  BY <1>13 DEF Release
<1>14. CASE Done
  BY <1>14 DEF Done
<1>15. CASE CheckFails
  BY <1>15 DEF CheckFails, Raise
<1>16. CASE Fail
  BY <1>16 DEF Fail
<1>17. CASE ClearGradients
  BY <1>17 DEF ClearGradients
<1>18. CASE NothingToRecover
  BY <1>18 DEF NothingToRecover, Raise
<1>19. CASE Recover
  BY <1>19 DEF Recover
<1>20. CASE Restored
  BY <1>20 DEF Restored
<1>21. CASE Verify
  BY <1>21 DEF Verify
<1>22. CASE RecoveryFails
  BY <1>22 DEF RecoveryFails
<1>23. CASE MarkCorrupt
  BY <1>23 DEF MarkCorrupt
<1>24. CASE InterruptBegin
  BY <1>24 DEF InterruptBegin, Raise
<1>25. CASE InterruptStep
  BY <1>25 DEF InterruptStep
<1>26. CASE InterruptRecovery
  BY <1>26 DEF InterruptRecovery
<1>27. CASE InterruptHandler
  BY <1>27 DEF InterruptHandler, Raise
<1>28. ASSUME NEW p \in Params, StepParam(p)
      PROVE  Live'
  BY <1>28 DEF StepParam, WriteBytes
<1>29. ASSUME NEW p \in Params, RestoreParam(p)
      PROVE  Live'
  BY <1>29 DEF RestoreParam, WriteBytes
<1>30. CASE CountWrite
  BY <1>30 DEF CountWrite
<1>31. ASSUME NEW r \in Readers, ReaderStep(r)
      PROVE  Live'
  BY <1>31, ReadersOnlyRead
<1>32. CASE UNCHANGED vars
  BY <1>32 DEF vars
<1> HIDE DEF TypeOK, Leased, Live, Ready, Consistent, Reauthenticated, Fresh, weights, runtime, attemptV, readers
<1>33. CASE Transaction
  BY <1>33, <1>2, <1>3, <1>4, <1>5, <1>6, <1>7, <1>8, <1>9, <1>10, <1>11, <1>12, <1>13, <1>14, <1>28, <1>30 DEF Transaction
<1>34. CASE Handler
  BY <1>34, <1>15, <1>16, <1>17, <1>18, <1>19, <1>20, <1>21, <1>22, <1>23, <1>29 DEF Handler
<1>35. CASE Interrupt
  BY <1>35, <1>24, <1>25, <1>26, <1>27 DEF Interrupt
<1> QED
  BY <1>1, <1>31, <1>32, <1>33, <1>34, <1>35 DEF Next

\* What the flags and the place of the trainer say of provider and manifest.
LEMMA LiveAlways == Spec => [](TypeOK /\ Leased /\ Live)
<1>1. Init => Live
  BY DEF Init, Live, Ready, Consistent, Reauthenticated, Fresh
<1>2. Live /\ TypeOK /\ Leased /\ [Next]_vars => Live'
  BY LiveStep
<1> QED
  BY <1>1, <1>2, LeasedAlways, PTL DEF Spec

\* For any parameters and however steps fail or are interrupted: who gets past the
\* lock and the flags finds a provider and a manifest of exactly the parameters in
\* the model, and no gradient.
THEOREM ServedPolicy == Spec => []ServedPolicyIsLive
<1>1. Live => ServedPolicyIsLive
  BY DEF Live, Consistent, Reauthenticated, ServedPolicyIsLive
<1> QED
  BY <1>1, LiveAlways, PTL

-----------------------------------------------------------------------------
\* What a failed step leaves.

\* While no interrupt has struck, the lock and the flag follow the trainer, and a
\* failed attempt that is being published again has its old bytes.
Undoing ==
    interrupts = 0 =>
      /\ step = "idle" => ~active /\ depth = 0
      /\ step = "check" => ~active /\ depth = 1 /\ before = manifest
      /\ step \notin {"idle", "check", "release", "done"} => active /\ depth = 1
      /\ step = "release" => ~active /\ depth = 1
      /\ step = "done" => ~active /\ depth = 0
      /\ step \in {"backward", "snapshot", "mutate", "stepping", "prepare", "publish",
                   "failing", "recover", "restoring", "verify"} => session = "active"
      /\ step \in {"check", "lease", "backward", "snapshot", "mutate", "stepping",
                   "prepare"} => ~failed
      /\ step # "idle" => outcome = "none"
      /\ failed /\ ~corrupt /\ step \in {"publish", "manifest", "retire", "inactive",
                                        "release", "done"} => bytes = before

\* Every step keeps what an uninterrupted attempt knows.
LEMMA UndoingStep == TypeOK /\ Live /\ Undoing /\ [Next]_vars => Undoing'
<1> SUFFICES ASSUME TypeOK, Live, Undoing, [Next]_vars PROVE Undoing'
  OBVIOUS
<1> USE DEF TypeOK, Undoing, weights, runtime, attemptV, readers
<1>1. CASE Begin
  BY <1>1 DEF Begin
<1>2. CASE Check
  BY <1>2 DEF Check
<1>3. CASE Lease
  BY <1>3 DEF Lease
<1>4. CASE Backward
  BY <1>4 DEF Backward
<1>5. CASE Snapshot
  BY <1>5 DEF Snapshot
<1>6. CASE Mutate
  BY <1>6 DEF Mutate
<1>7. CASE ZeroGrad
  BY <1>7 DEF ZeroGrad
<1>8. CASE Prepare
  BY <1>8 DEF Prepare
<1>9. CASE PublishProvider
  BY <1>9 DEF PublishProvider
<1>10. CASE PublishManifest
  BY <1>10 DEF PublishManifest
<1>11. CASE Retire
  BY <1>11 DEF Retire
<1>12. CASE Deactivate
  BY <1>12 DEF Deactivate
<1>13. CASE Release
  BY <1>13 DEF Release
<1>14. CASE Done
  BY <1>14 DEF Done
<1>15. CASE CheckFails
  BY <1>15 DEF CheckFails, Raise
<1>16. CASE Fail
  BY <1>16 DEF Fail
<1>17. CASE ClearGradients
  BY <1>17 DEF ClearGradients
<1>18. CASE NothingToRecover
  BY <1>18 DEF NothingToRecover, Raise
<1>19. CASE Recover
  BY <1>19 DEF Recover
<1>20. CASE Restored
  BY <1>20 DEF Restored
<1>21. CASE Verify
  BY <1>21 DEF Verify
<1>22. CASE RecoveryFails
  BY <1>22 DEF RecoveryFails
<1>23. CASE MarkCorrupt
  BY <1>23 DEF MarkCorrupt
<1>24. CASE InterruptBegin
  BY <1>24 DEF InterruptBegin, Raise
<1>25. CASE InterruptStep
  BY <1>25 DEF InterruptStep
<1>26. CASE InterruptRecovery
  BY <1>26 DEF InterruptRecovery
<1>27. CASE InterruptHandler
  BY <1>27 DEF InterruptHandler, Raise
<1>28. ASSUME NEW p \in Params, StepParam(p)
      PROVE  Undoing'
  BY <1>28 DEF StepParam, WriteBytes
<1>29. ASSUME NEW p \in Params, RestoreParam(p)
      PROVE  Undoing'
  BY <1>29 DEF RestoreParam, WriteBytes
<1>30. CASE CountWrite
  BY <1>30 DEF CountWrite
<1>31. ASSUME NEW r \in Readers, ReaderStep(r)
      PROVE  Undoing'
  BY <1>31, ReadersOnlyRead
<1>32. CASE UNCHANGED vars
  BY <1>32 DEF vars
<1> HIDE DEF TypeOK, Undoing, weights, runtime, attemptV, readers
<1>33. CASE Transaction
  BY <1>33, <1>2, <1>3, <1>4, <1>5, <1>6, <1>7, <1>8, <1>9, <1>10, <1>11, <1>12, <1>13, <1>14, <1>28, <1>30 DEF Transaction
<1>34. CASE Handler
  BY <1>34, <1>15, <1>16, <1>17, <1>18, <1>19, <1>20, <1>21, <1>22, <1>23, <1>29 DEF Handler
<1>35. CASE Interrupt
  BY <1>35, <1>24, <1>25, <1>26, <1>27 DEF Interrupt
<1> QED
  BY <1>1, <1>31, <1>32, <1>33, <1>34, <1>35 DEF Next

\* Every step keeps that a raised step is undone.
LEMMA UndoneStep == TypeOK /\ Live /\ Undoing /\ RaisedStepIsUndone /\ [Next]_vars => RaisedStepIsUndone'
<1> SUFFICES ASSUME TypeOK, Live, Undoing, RaisedStepIsUndone, [Next]_vars PROVE RaisedStepIsUndone'
  OBVIOUS
<1> USE DEF TypeOK, Undoing, Live, Ready, Consistent, Reauthenticated, RaisedStepIsUndone, weights, runtime, attemptV, readers
<1>1. CASE Begin
  BY <1>1 DEF Begin
<1>2. CASE Check
  BY <1>2 DEF Check
<1>3. CASE Lease
  BY <1>3 DEF Lease
<1>4. CASE Backward
  BY <1>4 DEF Backward
<1>5. CASE Snapshot
  BY <1>5 DEF Snapshot
<1>6. CASE Mutate
  BY <1>6 DEF Mutate
<1>7. CASE ZeroGrad
  BY <1>7 DEF ZeroGrad
<1>8. CASE Prepare
  BY <1>8 DEF Prepare
<1>9. CASE PublishProvider
  BY <1>9 DEF PublishProvider
<1>10. CASE PublishManifest
  BY <1>10 DEF PublishManifest
<1>11. CASE Retire
  BY <1>11 DEF Retire
<1>12. CASE Deactivate
  BY <1>12 DEF Deactivate
<1>13. CASE Release
  BY <1>13 DEF Release
<1>14. CASE Done
  BY <1>14 DEF Done
<1>15. CASE CheckFails
  BY <1>15 DEF CheckFails, Raise
<1>16. CASE Fail
  BY <1>16 DEF Fail
<1>17. CASE ClearGradients
  BY <1>17 DEF ClearGradients
<1>18. CASE NothingToRecover
  BY <1>18 DEF NothingToRecover, Raise
<1>19. CASE Recover
  BY <1>19 DEF Recover
<1>20. CASE Restored
  BY <1>20 DEF Restored
<1>21. CASE Verify
  BY <1>21 DEF Verify
<1>22. CASE RecoveryFails
  BY <1>22 DEF RecoveryFails
<1>23. CASE MarkCorrupt
  BY <1>23 DEF MarkCorrupt
<1>24. CASE InterruptBegin
  BY <1>24 DEF InterruptBegin, Raise
<1>25. CASE InterruptStep
  BY <1>25 DEF InterruptStep
<1>26. CASE InterruptRecovery
  BY <1>26 DEF InterruptRecovery
<1>27. CASE InterruptHandler
  BY <1>27 DEF InterruptHandler, Raise
<1>28. ASSUME NEW p \in Params, StepParam(p)
      PROVE  RaisedStepIsUndone'
  BY <1>28 DEF StepParam, WriteBytes
<1>29. ASSUME NEW p \in Params, RestoreParam(p)
      PROVE  RaisedStepIsUndone'
  BY <1>29 DEF RestoreParam, WriteBytes
<1>30. CASE CountWrite
  BY <1>30 DEF CountWrite
<1>31. ASSUME NEW r \in Readers, ReaderStep(r)
      PROVE  RaisedStepIsUndone'
  BY <1>31, ReadersOnlyRead
<1>32. CASE UNCHANGED vars
  BY <1>32 DEF vars
<1> HIDE DEF TypeOK, Undoing, Live, Ready, Consistent, Reauthenticated, RaisedStepIsUndone, weights, runtime, attemptV, readers
<1>33. CASE Transaction
  BY <1>33, <1>2, <1>3, <1>4, <1>5, <1>6, <1>7, <1>8, <1>9, <1>10, <1>11, <1>12, <1>13, <1>14, <1>28, <1>30 DEF Transaction
<1>34. CASE Handler
  BY <1>34, <1>15, <1>16, <1>17, <1>18, <1>19, <1>20, <1>21, <1>22, <1>23, <1>29 DEF Handler
<1>35. CASE Interrupt
  BY <1>35, <1>24, <1>25, <1>26, <1>27 DEF Interrupt
<1> QED
  BY <1>1, <1>31, <1>32, <1>33, <1>34, <1>35 DEF Next

\* For any parameters: a step that raised, and that no interrupt has struck, has
\* put the old policy back into the model and into service, or marked the runtime
\* corrupt, and has given the lease back.
THEOREM RaisedStep == Spec => []RaisedStepIsUndone
<1>1. Init => Undoing /\ RaisedStepIsUndone
  BY DEF Init, Undoing, RaisedStepIsUndone
<1>2. /\ TypeOK /\ Live /\ Undoing /\ [Next]_vars => Undoing'
      /\ TypeOK /\ Live /\ Undoing /\ RaisedStepIsUndone /\ [Next]_vars => RaisedStepIsUndone'
  BY UndoingStep, UndoneStep
<1> QED
  BY <1>1, <1>2, LiveAlways, PTL DEF Spec

-----------------------------------------------------------------------------
\* What the readers answer.

\* A provider's guard is not ahead of the counters; where they agree, and no kernel
\* is at the parameter, it is as the provider's policy has it.
Guarded(h) ==
    \A p \in Params :
      /\ h.guard[p] <= version[p]
      /\ h.guard[p] = version[p] /\ p \notin kernel => h.policy[p] = bytes[p]

\* r has seen p as its provider's policy has it.
SeenRight(r, p) == seen[r][p] = handle[r].policy[p]

\* So it has, if no write of p has been counted since the provider was issued.
Vouched(r, p) == handle[r].guard[p] = version[p] => SeenRight(r, p)

\* So it has, or it has seen what the kernel has written that is at p.
SeenTrue(r, p) ==
    handle[r].guard[p] = version[p] =>
        SeenRight(r, p) \/ (p \in kernel /\ seen[r][p] = bytes[p])

\* r has seen p wrong and the look after the forward pass has let it pass, or will.
Open(r, p) ==
    ~SeenRight(r, p) /\ (p \notin unseen[r] \/ handle[r].guard[p] = version[p])

Reading(r) ==
    /\ reader[r] = "forward" => \A p \in Params \ unseen[r] : SeenTrue(r, p)
    /\ reader[r] \in {"after", "answered", "guard", "hash"} => \A p \in Params : SeenTrue(r, p)
    /\ reader[r] \in {"after", "answered"} =>
         \A p, q \in Params : Open(r, p) /\ Open(r, q) => p = q
    /\ reader[r] = "answered" => unseen[r] = {}
    /\ reader[r] = "hash" => \A p \in Params \ unseen[r] : Vouched(r, p)
    /\ reader[r] = "again" =>
         \A p \in Params : Vouched(r, p) /\ (p \notin unseen[r] => SeenRight(r, p))
    /\ reader[r] = "accepted" => \A p \in Params : SeenRight(r, p)

Watching ==
    /\ Guarded(provider) /\ Guarded(prepared)
    /\ \A r \in Readers : Guarded(handle[r]) /\ Reading(r)

\* All that the trainer does to the readers: its kernel writes one parameter, what
\* was written is counted, or another provider is prepared or published.
Rewrites == /\ UNCHANGED <<provider, prepared, readers>>
            /\ \E p \in Params, value \in Nat : WriteBytes(p, value)

Reissues == /\ UNCHANGED <<weights, readers>>
            /\ provider' \in {provider, prepared}
            /\ prepared' \in {prepared, Fresh}

\* Every step of the trainer is one of the three.
LEMMA TrainerSteps ==
    ASSUME TypeOK, Begin \/ Transaction \/ Handler \/ Interrupt
    PROVE  Rewrites \/ CountWrite \/ Reissues
<1> USE DEF runtime, attemptV
<1>1. CASE Begin
  BY <1>1 DEF Begin, Reissues
<1>2. CASE Check
  BY <1>2 DEF Check, Reissues
<1>3. CASE Lease
  BY <1>3 DEF Lease, Reissues
<1>4. CASE Backward
  BY <1>4 DEF Backward, Reissues
<1>5. CASE Snapshot
  BY <1>5 DEF Snapshot, Reissues
<1>6. CASE Mutate
  BY <1>6 DEF Mutate, Reissues
<1>7. CASE ZeroGrad
  BY <1>7 DEF ZeroGrad, Reissues
<1>8. CASE Prepare
  BY <1>8 DEF Prepare, Reissues
<1>9. CASE PublishProvider
  BY <1>9 DEF PublishProvider, Reissues
<1>10. CASE PublishManifest
  BY <1>10 DEF PublishManifest, Reissues
<1>11. CASE Retire
  BY <1>11 DEF Retire, Reissues
<1>12. CASE Deactivate
  BY <1>12 DEF Deactivate, Reissues
<1>13. CASE Release
  BY <1>13 DEF Release, Reissues
<1>14. CASE Done
  BY <1>14 DEF Done, Reissues
<1>15. CASE CheckFails
  BY <1>15 DEF CheckFails, Raise, Reissues
<1>16. CASE Fail
  BY <1>16 DEF Fail, Reissues
<1>17. CASE ClearGradients
  BY <1>17 DEF ClearGradients, Reissues
<1>18. CASE NothingToRecover
  BY <1>18 DEF NothingToRecover, Raise, Reissues
<1>19. CASE Recover
  BY <1>19 DEF Recover, Reissues
<1>20. CASE Restored
  BY <1>20 DEF Restored, Reissues
<1>21. CASE Verify
  BY <1>21 DEF Verify, Reissues
<1>22. CASE RecoveryFails
  BY <1>22 DEF RecoveryFails, Reissues
<1>23. CASE MarkCorrupt
  BY <1>23 DEF MarkCorrupt, Reissues
<1>24. CASE InterruptBegin
  BY <1>24 DEF InterruptBegin, Raise, Reissues
<1>25. CASE InterruptStep
  BY <1>25 DEF InterruptStep, Reissues
<1>26. CASE InterruptRecovery
  BY <1>26 DEF InterruptRecovery, Reissues
<1>27. CASE InterruptHandler
  BY <1>27 DEF InterruptHandler, Raise, Reissues
<1>28. ASSUME NEW p \in Params, StepParam(p)
      PROVE  Rewrites
  <2>1. \E value \in Nat : WriteBytes(p, value)
    BY <1>28 DEF StepParam, TypeOK, Policy
  <2> QED
    BY <1>28, <2>1 DEF StepParam, Rewrites
<1>29. ASSUME NEW p \in Params, RestoreParam(p)
      PROVE  Rewrites
  BY <1>29 DEF RestoreParam, Rewrites, TypeOK, Policy
<1>30. CASE Transaction
  BY <1>30, <1>2, <1>3, <1>4, <1>5, <1>6, <1>7, <1>8, <1>9, <1>10, <1>11, <1>12, <1>13, <1>14, <1>28 DEF Transaction
<1>31. CASE Handler
  BY <1>31, <1>15, <1>16, <1>17, <1>18, <1>19, <1>20, <1>21, <1>22, <1>23, <1>29 DEF Handler
<1>32. CASE Interrupt
  BY <1>32, <1>24, <1>25, <1>26, <1>27 DEF Interrupt
<1> QED
  BY <1>1, <1>30, <1>31, <1>32

\* For the provers.
LEMMA ReflexiveOrder == \A n \in Nat : n <= n
<1> TAKE n \in Nat
<1>1. n = n + 0
  OBVIOUS
<1> QED
  BY <1>1

\* Where a reader's guard is true it was true before; what the reader has seen and
\* what is known of it then stays.
LEMMA ReadingSurvives ==
    ASSUME NEW r \in Readers, Reading(r), UNCHANGED readers,
           \A p \in Params : handle[r].guard[p] = version'[p] => handle[r].guard[p] = version[p],
           \A p \in Params : SeenTrue(r, p) => SeenTrue(r, p)'
    PROVE  Reading(r)'
<1>1. UNCHANGED <<reader, handle, seen, unseen>>
  BY DEF readers
<1>2. \A p \in Params : /\ SeenRight(r, p)' <=> SeenRight(r, p)
                        /\ Open(r, p)' => Open(r, p)
                        /\ Vouched(r, p) => Vouched(r, p)'
  BY <1>1 DEF SeenRight, Open, Vouched
<1> QED
  BY <1>1, <1>2 DEF Reading

\* A kernel writes where no kernel is, and the guards do not see it.
LEMMA RewritesKeepWatching == TypeOK /\ Watching /\ Rewrites => Watching'
<1> SUFFICES ASSUME TypeOK, Watching, Rewrites PROVE Watching'
  OBVIOUS
<1>1. PICK q \in Params, value \in Nat : WriteBytes(q, value)
  BY DEF Rewrites
<1>2. UNCHANGED <<provider, prepared, reader, handle, seen, unseen>> /\ version' = version
  BY <1>1 DEF Rewrites, readers, WriteBytes
<1>3. kernel = {} /\ kernel' = {q} /\ \A p \in Params : p # q => bytes'[p] = bytes[p]
  BY <1>1 DEF WriteBytes, TypeOK, Policy
<1>4. \A p \in Params : p \notin kernel' => p \notin kernel /\ bytes'[p] = bytes[p]
  BY <1>3
<1>5. Guarded(provider)' /\ Guarded(prepared)'
  BY <1>2, <1>4 DEF Watching, Guarded
<1>6. ASSUME NEW r \in Readers
      PROVE  Guarded(handle[r])' /\ Reading(r)'
  <2>1. Guarded(handle[r]) /\ Reading(r)
    BY DEF Watching
  <2>2. Guarded(handle[r])'
    BY <1>2, <1>4, <2>1 DEF Guarded
  <2>3. \A p \in Params : SeenTrue(r, p) => SeenTrue(r, p)'
    BY <1>2, <1>3 DEF SeenTrue, SeenRight
  <2>4. Reading(r)'
    BY <1>2, <2>1, <2>3, ReadingSurvives DEF readers
  <2> QED
    BY <2>2, <2>4
<1> QED
  BY <1>5, <1>6 DEF Watching

\* Counting a write spends the guards there are of that parameter: no guard is
\* ahead of the counter.
LEMMA GuardedAfterCount ==
    ASSUME TypeOK, Leased, CountWrite, NEW h \in Provider, Guarded(h), NEW p \in Params
    PROVE  /\ h.guard[p] <= version'[p]
           /\ h.guard[p] = version'[p] =>
                 h.guard[p] = version[p] /\ p \notin kernel /\ h.policy[p] = bytes[p]
<1>1. h.guard[p] \in Nat /\ version[p] \in Nat /\ h.guard[p] <= version[p]
  BY DEF TypeOK, Policy, Provider, Guarded
<1>2. PICK q \in kernel : version' = [version EXCEPT ![q] = @ + 1]
  BY DEF CountWrite
<1>3. CASE p = q
  BY <1>1, <1>2, <1>3 DEF TypeOK, Policy
<1>4. CASE p # q
  <2>1. p \notin kernel
    BY <1>2, <1>4 DEF Leased
  <2>2. version'[p] = version[p]
    BY <1>2, <1>4 DEF TypeOK, Policy
  <2> QED
    BY <1>1, <2>1, <2>2 DEF Guarded
<1> QED
  BY <1>3, <1>4

\* What a reader has seen of the kernel's work is no longer vouched for.
LEMMA CountsKeepWatching == TypeOK /\ Leased /\ Watching /\ CountWrite => Watching'
<1> SUFFICES ASSUME TypeOK, Leased, Watching, CountWrite PROVE Watching'
  OBVIOUS
<1>1. UNCHANGED <<bytes, provider, prepared, reader, handle, seen, unseen>>
  BY DEF CountWrite, runtime, attemptV, readers
<1>2. \A h \in Provider : Guarded(h) => \A p \in Params :
          /\ h.guard[p] <= version'[p]
          /\ h.guard[p] = version'[p] =>
                h.guard[p] = version[p] /\ p \notin kernel /\ h.policy[p] = bytes[p]
  BY GuardedAfterCount
<1>3. Guarded(provider)' /\ Guarded(prepared)'
  BY <1>1, <1>2 DEF TypeOK, Watching, Guarded
<1>4. ASSUME NEW r \in Readers
      PROVE  Guarded(handle[r])' /\ Reading(r)'
  <2>1. handle[r] \in Provider /\ Guarded(handle[r]) /\ Reading(r)
    BY DEF TypeOK, Watching
  <2>2. Guarded(handle[r])'
    BY <1>1, <1>2, <2>1 DEF Guarded
  <2>3. \A p \in Params : handle[r].guard[p] = version'[p] =>
                              handle[r].guard[p] = version[p] /\ p \notin kernel
    BY <1>2, <2>1
  <2>4. \A p \in Params : SeenTrue(r, p) => SeenTrue(r, p)'
    BY <1>1, <2>3 DEF SeenTrue, SeenRight
  <2>5. Reading(r)'
    BY <1>1, <2>1, <2>3, <2>4, ReadingSurvives DEF readers
  <2> QED
    BY <2>2, <2>5
<1> QED
  BY <1>3, <1>4 DEF Watching

\* A fresh provider is guarded.
LEMMA ReissuesKeepWatching == TypeOK /\ Watching /\ Reissues => Watching'
<1> SUFFICES ASSUME TypeOK, Watching, Reissues PROVE Watching'
  OBVIOUS
<1>1. UNCHANGED <<bytes, version, kernel, reader, handle, seen, unseen>>
  BY DEF Reissues, weights, readers
<1>2. Guarded(Fresh)
  <2>1. \A p \in Params : version[p] \in Nat
    BY DEF TypeOK, Policy
  <2>2. Fresh.policy = bytes /\ Fresh.guard = version
    BY FreshIsProvider
  <2>3. \A p \in Params : version[p] <= version[p]
    BY <2>1, ReflexiveOrder, Zenon
  <2> QED
    BY <2>2, <2>3, Zenon DEF Guarded
<1>3. Guarded(provider)' /\ Guarded(prepared)'
  <2>1. Guarded(provider) /\ Guarded(prepared)
    BY DEF Watching
  <2> QED
    BY <1>1, <1>2, <2>1 DEF Reissues, Guarded
<1>4. ASSUME NEW r \in Readers
      PROVE  Guarded(handle[r])' /\ Reading(r)'
  <2>1. Guarded(handle[r]) /\ Reading(r)
    BY DEF Watching
  <2> QED
    BY <1>1, <2>1 DEF Guarded, Reading, SeenTrue, Vouched, SeenRight, Open
<1> QED
  BY <1>3, <1>4 DEF Watching

\* A reader's own step; what it does to the other readers is nothing.
LEMMA ReadersKeepWatching ==
    ASSUME TypeOK, Leased, Watching, NEW r \in Readers, ReaderStep(r)
    PROVE  Watching'
<1>1. UNCHANGED <<bytes, version, kernel, provider, prepared>>
  BY ReadersOnlyRead DEF weights, runtime, attemptV
<1>2. Guarded(provider)' /\ Guarded(prepared)'
  BY <1>1 DEF Watching, Guarded
<1>3. ASSUME NEW q \in Readers, q # r
      PROVE  Guarded(handle[q])' /\ Reading(q)'
  <2>1. Guarded(handle[q]) /\ Reading(q)
    BY DEF Watching
  <2>2. /\ reader'[q] = reader[q] /\ handle'[q] = handle[q]
        /\ seen'[q] = seen[q] /\ unseen'[q] = unseen[q]
    BY <1>3 DEF TypeOK, ReaderStep, Ask, Fetch, Authenticate, Proceed, Look, Hash, Examine, Read
  <2> QED
    BY <1>1, <2>1, <2>2 DEF Guarded, Reading, SeenTrue, Vouched, SeenRight, Open
<1>4. Guarded(handle[r]) /\ Reading(r) /\ Guarded(provider)
  BY DEF Watching
<1>5. ASSUME Ask(r)
      PROVE  Guarded(handle[r])' /\ Reading(r)'
  <2>1. handle'[r] \in {handle[r], provider} /\ reader'[r] = "before"
    BY <1>5 DEF Ask, Fetch, TypeOK
  <2> QED
    BY <1>1, <1>4, <2>1 DEF Guarded, Reading
<1>6. ASSUME Proceed(r)
      PROVE  Guarded(handle[r])' /\ Reading(r)'
  <2>1. /\ handle' = handle /\ seen' = seen /\ unseen[r] = {}
        /\ reader'[r] = NextPhase(reader[r])
        /\ reader[r] \in {"before", "forward", "after", "guard", "hash", "again"}
        /\ unseen'[r] = IF NextPhase(reader[r]) \in {"answered", "accepted"} THEN {} ELSE Params
    BY <1>6 DEF Proceed, TypeOK
  <2>2. Guarded(handle[r])'
    BY <1>1, <1>4, <2>1 DEF Guarded
  <2>3. \A p \in Params : /\ SeenTrue(r, p)' <=> SeenTrue(r, p)
                          /\ SeenRight(r, p)' <=> SeenRight(r, p)
                          /\ Vouched(r, p)' <=> Vouched(r, p)
    BY <1>1, <2>1 DEF SeenTrue, SeenRight, Vouched
  <2>4. CASE reader[r] \in {"before", "guard"}
    BY <1>4, <2>1, <2>2, <2>3, <2>4 DEF Reading, NextPhase
  <2>5. CASE reader[r] = "forward"
    <3>1. reader'[r] = "after" /\ unseen'[r] = Params /\ \A p \in Params : SeenTrue(r, p)
      BY <1>4, <2>1, <2>5 DEF Reading, NextPhase
    <3>2. \A p \in Params : Open(r, p)' => p \in kernel
      BY <1>1, <2>1, <3>1 DEF Open, SeenTrue, SeenRight
    <3>3. \A p, q \in Params : Open(r, p)' /\ Open(r, q)' => p = q
      BY <3>2 DEF Leased
    <3> QED
      BY <2>2, <2>3, <3>1, <3>3 DEF Reading
  <2>6. CASE reader[r] = "after"
    <3>1. reader'[r] = "answered" /\ unseen'[r] = unseen[r]
      BY <2>1, <2>6 DEF NextPhase
    <3>2. \A p \in Params : Open(r, p)' <=> Open(r, p)
      BY <1>1, <2>1, <3>1 DEF Open, SeenRight
    <3> QED
      BY <1>4, <2>1, <2>2, <2>3, <2>6, <3>1, <3>2 DEF Reading
  <2>7. CASE reader[r] \in {"hash", "again"}
    BY <1>4, <2>1, <2>2, <2>3, <2>7 DEF Reading, NextPhase
  <2> QED
    BY <2>1, <2>2, <2>4, <2>5, <2>6, <2>7
<1>7. ASSUME NEW p \in Params, Look(r, p)
      PROVE  Guarded(handle[r])' /\ Reading(r)'
  <2>1. handle' = handle /\ seen' = seen /\ reader[r] \in {"before", "after", "guard", "again"}
    BY <1>7 DEF Look, Examine
  <2>2. \/ /\ version[p] = handle[r].guard[p] /\ reader' = reader
           /\ unseen'[r] = unseen[r] \ {p}
        \/ reader'[r] = "idle"
    BY <1>7 DEF Look, Examine, TypeOK
  <2> QED
    BY <1>1, <1>4, <2>1, <2>2 DEF Guarded, Reading, SeenTrue, Vouched, SeenRight, Open
<1>8. ASSUME NEW p \in Params, Read(r, p)
      PROVE  Guarded(handle[r])' /\ Reading(r)'
  <2>1. /\ handle' = handle /\ reader' = reader /\ reader[r] = "forward"
        /\ unseen'[r] = unseen[r] \ {p} /\ seen'[r][p] = bytes[p]
        /\ \A q \in Params : q # p => seen'[r][q] = seen[r][q]
    BY <1>8 DEF Read, TypeOK, Policy
  <2> QED
    BY <1>1, <1>4, <2>1 DEF Guarded, Reading, SeenTrue, SeenRight
<1>9. ASSUME Authenticate(r)
      PROVE  Guarded(handle[r])' /\ Reading(r)'
  <2>1. handle' = handle /\ seen' = seen /\ reader[r] = "answered" /\ reader'[r] = "guard"
    BY <1>9 DEF Authenticate, TypeOK
  <2> QED
    BY <1>1, <1>4, <2>1 DEF Guarded, Reading, SeenTrue, SeenRight
<1>10. ASSUME NEW p \in Params, Hash(r, p)
       PROVE  Guarded(handle[r])' /\ Reading(r)'
  <2>1. handle' = handle /\ seen' = seen /\ reader[r] = "hash"
    BY <1>10 DEF Hash, Examine
  <2>2. \/ /\ bytes[p] = handle[r].policy[p] /\ reader' = reader
           /\ unseen'[r] = unseen[r] \ {p}
        \/ reader'[r] = "idle"
    BY <1>10 DEF Hash, Examine, TypeOK
  <2> QED
    BY <1>1, <1>4, <2>1, <2>2 DEF Guarded, Reading, SeenTrue, Vouched, SeenRight
<1>11. Guarded(handle[r])' /\ Reading(r)'
  BY <1>5, <1>6, <1>7, <1>8, <1>9, <1>10 DEF ReaderStep
<1> QED
  BY <1>2, <1>3, <1>11 DEF Watching

\* Every step keeps what is known of the readers.
LEMMA WatchingStep == TypeOK /\ Leased /\ Watching /\ [Next]_vars => Watching'
<1> SUFFICES ASSUME TypeOK, Leased, Watching, [Next]_vars PROVE Watching'
  OBVIOUS
<1>1. CASE Begin \/ Transaction \/ Handler \/ Interrupt
  BY <1>1, TrainerSteps, RewritesKeepWatching, CountsKeepWatching, ReissuesKeepWatching
<1>2. ASSUME NEW r \in Readers, ReaderStep(r)
      PROVE  Watching'
  BY <1>2, ReadersKeepWatching
<1>3. CASE UNCHANGED vars
  BY <1>3 DEF vars, weights, runtime, attemptV, readers, Watching, Guarded, Reading, SeenTrue,
              Vouched, SeenRight, Open
<1> QED
  BY <1>1, <1>2, <1>3 DEF Next

\* It holds initially.
LEMMA InitWatching == Init => Watching
<1> SUFFICES ASSUME Init PROVE Watching
  OBVIOUS
<1>1. \A p \in Params : Untouched[p] = 0
  BY DEF Untouched
<1> DEFINE h == [policy |-> Untouched, guard |-> Untouched]
<1>2. h.policy = bytes /\ h.guard = version /\ \A p \in Params : version[p] \in Nat
  BY <1>1 DEF Init
<1> HIDE DEF h
<1>5. \A p \in Params : version[p] <= version[p]
  BY <1>2, ReflexiveOrder, Zenon
<1>4. Guarded(h)
  BY <1>2, <1>5, Zenon DEF Guarded
<1> USE DEF h
<1>3. ASSUME NEW r \in Readers
      PROVE  Guarded(handle[r]) /\ Reading(r)
  BY <1>4 DEF Init, Reading
<1> QED
  BY <1>3, <1>4 DEF Watching, Init

\* For any parameters, any number of readers and any interleaving with steps and
\* roll-backs, and with the kernels in them, whose writes the counters show late: an
\* answer that gets past both looks has at most one parameter that is not of the
\* policy its provider was issued for, and one that is fully authenticated
\* afterwards has none.
THEOREM OnePolicy == Spec => []AnswersAreOnePolicy
<1>1. ASSUME TypeOK, Watching, NEW r \in Readers
      PROVE  /\ reader[r] = "answered" =>
                  \A p, q \in Params : seen[r][p] # handle[r].policy[p]
                                       /\ seen[r][q] # handle[r].policy[q] => p = q
             /\ reader[r] = "accepted" => seen[r] = handle[r].policy
  <2>1. Reading(r) /\ seen[r] \in Policy /\ handle[r].policy \in Policy
    BY <1>1 DEF Watching, TypeOK, Provider
  <2>2. reader[r] = "accepted" => seen[r] = handle[r].policy
    BY <2>1 DEF Reading, SeenRight, Policy
  <2> QED
    BY <2>1, <2>2 DEF Reading, Open, SeenRight
<1>2. TypeOK /\ Watching => AnswersAreOnePolicy
  BY <1>1 DEF AnswersAreOnePolicy
<1>3. Spec => []Watching
  BY InitWatching, WatchingStep, LeasedAlways, PTL DEF Spec
<1> QED
  BY <1>2, <1>3, TypeCorrect, PTL
=============================================================================
