----------------------------- MODULE AtomicStep -----------------------------
(***************************************************************************)
(* The authenticated optimizer step on a sealed runtime, while other       *)
(* threads ask the model for answers.                                      *)
(*                                                                         *)
(* A trainer takes the runtime's lease, lets the gradients accumulate,     *)
(* steps the parameters one after the other, issues a fresh provider and   *)
(* publishes it.  Whatever raises on the way is rolled back, and what      *)
(* cannot be rolled back marks the runtime corrupt.  KeyboardInterrupt may *)
(* strike between any two operations, in the recovery too.                 *)
(*                                                                         *)
(* A reader fetches the provider under the runtime's lock and uses it      *)
(* without it: a provider guards itself by the parameters' version         *)
(* counters, looked at before and after the forward pass.  A write changes *)
(* a parameter first and its counter afterwards, and a look that falls in  *)
(* between sees nothing of it; so a reader that needs more has the         *)
(* provider hash the parameters once it has read, and looks again.         *)
(***************************************************************************)
EXTENDS Integers

CONSTANTS
    Params,       \* the trainable parameters
    Readers,      \* the threads that ask for logits
    MaxAttempts,  \* bound: how many steps the trainer attempts
    MaxInterrupts \* bound: how often KeyboardInterrupt strikes

ASSUME AtomicStepAssumption == MaxAttempts \in Nat /\ MaxInterrupts \in Nat

VARIABLES
    bytes,        \* the parameters' values; a step's new values bear its number
    version,      \* their in-place mutation counters
    kernel,       \* the parameter whose write the counter does not show yet, if any
    grads,        \* whether any parameter has a gradient
    provider,     \* the published provider: the policy it was issued for, its guard
    manifest,     \* the policy the published manifest binds
    active,       \* _update_active
    corrupt,      \* _update_corrupt
    depth,        \* how often the trainer holds the reentrant lock
    step,         \* where the trainer is
    session,      \* its session: "none", "active" or "retired"
    before,       \* the policy the session started from
    mutation,     \* mutation_possible
    snapshots,    \* the recovery copy of the parameters
    prepared,     \* the provider prepared for publication
    todo,         \* parameters still to be stepped or restored
    failed,       \* the trainer is in the exception handler
    outcome,      \* of the last attempt: "none", "returned" or "raised"
    attempt,      \* its number
    interrupts,   \* how often KeyboardInterrupt has struck
    reader,       \* [Readers -> where the reader is]
    handle,       \* the provider it has fetched
    seen,         \* the values its forward pass has read
    unseen        \* the parameters still to be looked at in its present phase

runtime  == <<provider, manifest, active, corrupt, depth>>
weights  == <<bytes, version, kernel>>
attemptV == <<session, before, mutation, snapshots, prepared, todo, failed, outcome,
              attempt, interrupts>>
readers  == <<reader, handle, seen, unseen>>
vars     == <<weights, grads, runtime, step, attemptV, readers>>

Policy   == [Params -> Nat]
Provider == [policy : Policy, guard : Policy]

Steps == {"idle", "check", "lease", "backward", "snapshot", "mutate", "stepping",
          "prepare", "publish", "manifest", "retire", "inactive", "release", "done",
          "failing", "recover", "restoring", "verify", "corrupting"}

Phases == {"idle", "before", "forward", "after", "answered",
           "guard", "hash", "again", "accepted"}

TypeOK ==
    /\ bytes \in Policy /\ version \in Policy /\ kernel \subseteq Params /\ grads \in BOOLEAN
    /\ provider \in Provider /\ manifest \in Policy
    /\ active \in BOOLEAN /\ corrupt \in BOOLEAN /\ depth \in Nat
    /\ step \in Steps
    /\ session \in {"none", "active", "retired"} /\ before \in Policy
    /\ mutation \in BOOLEAN /\ snapshots \in Policy /\ prepared \in Provider
    /\ todo \subseteq Params /\ failed \in BOOLEAN
    /\ outcome \in {"none", "returned", "raised"}
    /\ attempt \in 0..MaxAttempts /\ interrupts \in 0..MaxInterrupts
    /\ reader \in [Readers -> Phases] /\ handle \in [Readers -> Provider]
    /\ seen \in [Readers -> Policy] /\ unseen \in [Readers -> SUBSET Params]

Untouched == [p \in Params |-> 0]
Fresh     == [policy |-> bytes, guard |-> version]

Init ==
    /\ bytes = Untouched /\ version = Untouched /\ kernel = {} /\ grads = FALSE
    /\ provider = [policy |-> Untouched, guard |-> Untouched]
    /\ manifest = Untouched
    /\ active = FALSE /\ corrupt = FALSE /\ depth = 0
    /\ step = "idle" /\ session = "none" /\ before = Untouched
    /\ mutation = FALSE /\ snapshots = Untouched
    /\ prepared = [policy |-> Untouched, guard |-> Untouched]
    /\ todo = {} /\ failed = FALSE /\ outcome = "none" /\ attempt = 0
    /\ interrupts = 0
    /\ reader = [r \in Readers |-> "idle"]
    /\ handle = [r \in Readers |-> provider]
    /\ seen = [r \in Readers |-> Untouched]
    /\ unseen = [r \in Readers |-> {}]

Ready == ~active /\ ~corrupt

-----------------------------------------------------------------------------
\* The trainer: _begin_authenticated_update.

Begin ==
    /\ step = "idle"
    /\ attempt < MaxAttempts
    /\ depth' = depth + 1
    /\ attempt' = attempt + 1
    /\ before' = manifest
    /\ session' = "none" /\ mutation' = FALSE /\ failed' = FALSE /\ outcome' = "none"
    /\ step' = "check"
    /\ UNCHANGED <<weights, grads, provider, manifest, active, corrupt, snapshots,
                   prepared, todo, interrupts, readers>>

\* The live model is what provider and manifest say it is.
Reauthenticated == provider = Fresh /\ manifest = bytes

Check ==
    /\ step = "check"
    /\ Ready
    /\ Reauthenticated
    /\ active' = TRUE
    /\ step' = "lease"
    /\ UNCHANGED <<weights, grads, provider, manifest, corrupt, depth, attemptV, readers>>

\* The attempt ends with an exception that reaches its caller.
Raise ==
    /\ step' = "idle"
    /\ outcome' = "raised"
    /\ UNCHANGED <<session, before, mutation, snapshots, prepared, todo, failed, attempt>>

\* Refused as corrupt or active, or an artifact or the tokenizer has changed.
CheckFails ==
    /\ step = "check"
    /\ depth' = depth - 1
    /\ Raise
    /\ UNCHANGED <<weights, grads, provider, manifest, active, corrupt, interrupts, readers>>

Lease ==
    /\ step = "lease"
    /\ session' = "active"
    /\ step' = "backward"
    /\ UNCHANGED <<weights, grads, runtime, before, mutation, snapshots, prepared, todo,
                   failed, outcome, attempt, interrupts, readers>>

-----------------------------------------------------------------------------
\* The trainer: the transaction.

Backward ==
    /\ step = "backward"
    /\ ~grads
    /\ grads' = TRUE
    /\ step' = "snapshot"
    /\ UNCHANGED <<weights, runtime, attemptV, readers>>

Snapshot ==
    /\ step = "snapshot"
    /\ snapshots' = bytes
    /\ step' = "mutate"
    /\ UNCHANGED <<weights, grads, runtime, session, before, mutation, prepared, todo,
                   failed, outcome, attempt, interrupts, readers>>

Mutate ==
    /\ step = "mutate"
    /\ mutation' = TRUE
    /\ todo' = Params
    /\ step' = "stepping"
    /\ UNCHANGED <<weights, grads, runtime, session, before, snapshots, prepared,
                   failed, outcome, attempt, interrupts, readers>>

\* An in-place kernel writes the parameter's bytes without the interpreter's lock
\* and without any lock of the runtime or of a provider.  Half-written bytes count
\* as the new ones.
WriteBytes(p, value) ==
    /\ kernel = {}
    /\ bytes' = [bytes EXCEPT ![p] = value]
    /\ kernel' = {p}
    /\ UNCHANGED version

\* When the kernel has returned, the counter of what it wrote is advanced.
CountWrite ==
    /\ \E p \in kernel : version' = [version EXCEPT ![p] = @ + 1]
    /\ kernel' = {}
    /\ UNCHANGED <<bytes, grads, runtime, step, attemptV, readers>>

\* AdamW, one parameter after the other (foreach and fused are off): it updates
\* this one; rounding may leave its bytes as they were.
StepParam(p) ==
    /\ step = "stepping"
    /\ p \in todo
    /\ \E value \in {bytes[p], attempt} : WriteBytes(p, value)
    /\ todo' = todo \ {p}
    /\ UNCHANGED <<grads, runtime, step, session, before, mutation, snapshots, prepared,
                   failed, outcome, attempt, interrupts, readers>>

ZeroGrad ==
    /\ step = "stepping"
    /\ todo = {} /\ kernel = {}
    /\ grads' = FALSE
    /\ step' = "prepare"
    /\ UNCHANGED <<weights, runtime, attemptV, readers>>

\* At least one parameter has changed; a fresh provider is issued, record and
\* bundle are built and validated.
Prepare ==
    /\ step = "prepare"
    /\ bytes # before
    /\ prepared' = Fresh
    /\ step' = "publish"
    /\ UNCHANGED <<weights, grads, runtime, session, before, mutation, snapshots, todo,
                   failed, outcome, attempt, interrupts, readers>>

\* The prepared provider is reauthenticated, then published.
PublishProvider ==
    /\ step = "publish"
    /\ prepared = Fresh
    /\ provider' = prepared
    /\ step' = "manifest"
    /\ UNCHANGED <<weights, grads, manifest, active, corrupt, depth, attemptV, readers>>

PublishManifest ==
    /\ step = "manifest"
    /\ manifest' = prepared.policy
    /\ step' = "retire"
    /\ UNCHANGED <<weights, grads, provider, active, corrupt, depth, attemptV, readers>>

\* _finish_update_session.
Retire ==
    /\ step = "retire"
    /\ session' = "retired"
    /\ step' = "inactive"
    /\ UNCHANGED <<weights, grads, runtime, before, mutation, snapshots, prepared, todo,
                   failed, outcome, attempt, interrupts, readers>>

Deactivate ==
    /\ step = "inactive"
    /\ active' = FALSE
    /\ step' = "release"
    /\ UNCHANGED <<weights, grads, provider, manifest, corrupt, depth, attemptV, readers>>

\* Mutant: the caller's clean-up releases the lock once more.
ReleaseTwice ==
    /\ step = "release"
    /\ depth' = depth - 2
    /\ step' = "done"
    /\ UNCHANGED <<weights, grads, provider, manifest, active, corrupt, attemptV, readers>>

Release ==
    /\ step = "release"
    /\ depth' = depth - 1
    /\ step' = "done"
    /\ UNCHANGED <<weights, grads, provider, manifest, active, corrupt, attemptV, readers>>

Done ==
    /\ step = "done"
    /\ step' = "idle"
    /\ outcome' = IF failed THEN "raised" ELSE "returned"
    /\ UNCHANGED <<weights, grads, runtime, session, before, mutation, snapshots, prepared,
                   todo, failed, attempt, interrupts, readers>>

-----------------------------------------------------------------------------
\* The trainer: the exception handler.

\* Anything the transaction does may raise, once its kernel has returned; the
\* backward pass half-way.
Fail ==
    /\ ~failed /\ kernel = {}
    /\ step \in {"backward", "snapshot", "mutate", "stepping", "prepare", "publish"}
    /\ failed' = TRUE
    /\ step' = "failing"
    /\ grads' \in IF step = "backward" THEN BOOLEAN ELSE {grads}
    /\ UNCHANGED <<weights, runtime, session, before, mutation, snapshots, prepared, todo,
                   outcome, attempt, interrupts, readers>>

ClearGradients ==
    /\ step = "failing"
    /\ session = "active"
    /\ grads' = FALSE
    /\ step' = "recover"
    /\ UNCHANGED <<weights, runtime, attemptV, readers>>

\* The session was retired before the exception: nothing is rolled back.
NothingToRecover ==
    /\ step = "failing"
    /\ session # "active"
    /\ grads' = FALSE
    /\ Raise
    /\ UNCHANGED <<weights, runtime, interrupts, readers>>

\* mutation_possible is never set without snapshots.
Recover ==
    /\ step = "recover"
    /\ step' = IF mutation THEN "restoring" ELSE "verify"
    /\ todo' = IF mutation THEN Params ELSE {}
    /\ UNCHANGED <<weights, grads, runtime, session, before, mutation, snapshots, prepared,
                   failed, outcome, attempt, interrupts, readers>>

RestoreParam(p) ==
    /\ step = "restoring"
    /\ p \in todo
    /\ WriteBytes(p, snapshots[p])
    /\ todo' = todo \ {p}
    /\ UNCHANGED <<grads, runtime, step, session, before, mutation, snapshots, prepared,
                   failed, outcome, attempt, interrupts, readers>>

Restored ==
    /\ step = "restoring"
    /\ todo = {} /\ kernel = {}
    /\ step' = "verify"
    /\ UNCHANGED <<weights, grads, runtime, attemptV, readers>>

\* Mutant: the bytes are the old ones, so the old provider is published again.
KeepProvider ==
    /\ step = "verify"
    /\ bytes = before
    /\ prepared' = provider
    /\ step' = "manifest"
    /\ UNCHANGED <<weights, grads, runtime, session, before, mutation, snapshots, todo,
                   failed, outcome, attempt, interrupts, readers>>

\* _rollback_authenticated_update: the old provider's guard is spent, even over
\* restored bytes, so a fresh one is issued and must bind the policy of before.
Verify ==
    /\ step = "verify"
    /\ bytes = before
    /\ prepared' = Fresh
    /\ step' = "publish"
    /\ UNCHANGED <<weights, grads, runtime, session, before, mutation, snapshots, todo,
                   failed, outcome, attempt, interrupts, readers>>

RecoveryFails ==
    /\ failed /\ kernel = {}
    /\ step \in {"restoring", "verify", "publish"}
    /\ step' = "corrupting"
    /\ UNCHANGED <<weights, grads, runtime, attemptV, readers>>

\* Mutant: the session is finished without the runtime being marked.
FinishUnmarked ==
    /\ step = "corrupting"
    /\ step' = "retire"
    /\ UNCHANGED <<weights, grads, runtime, attemptV, readers>>

\* Mutant: the runtime is marked, its session is left as it is.
MarkOnly ==
    /\ step = "corrupting"
    /\ corrupt' = TRUE
    /\ step' = "done"
    /\ UNCHANGED <<weights, grads, provider, manifest, active, depth, attemptV, readers>>

MarkCorrupt ==
    /\ step = "corrupting"
    /\ corrupt' = TRUE
    /\ step' = "retire"
    /\ UNCHANGED <<weights, grads, provider, manifest, active, depth, attemptV, readers>>

-----------------------------------------------------------------------------
\* KeyboardInterrupt in the trainer's thread: raised between two of its bytecodes,
\* hence not in a kernel.

\* While the lease is taken: inside the try block, which releases the lock, or
\* around it.  No session is stored yet and the handler has nothing to finish.
InterruptBegin ==
    /\ step \in {"check", "lease"}
    /\ interrupts < MaxInterrupts
    /\ interrupts' = interrupts + 1
    /\ depth' \in {depth, depth - 1}
    /\ Raise
    /\ UNCHANGED <<weights, grads, provider, manifest, active, corrupt, readers>>

InterruptStep ==
    /\ ~failed /\ kernel = {}
    /\ step \notin {"idle", "check", "lease"}
    /\ interrupts < MaxInterrupts
    /\ interrupts' = interrupts + 1
    /\ failed' = TRUE
    /\ step' = "failing"
    /\ UNCHANGED <<weights, grads, runtime, session, before, mutation, snapshots, prepared,
                   todo, outcome, attempt, readers>>

\* Inside the recovery: as long as the session is active it is marked corrupt.
InterruptRecovery ==
    /\ failed /\ kernel = {}
    /\ \/ step \in {"recover", "restoring", "verify", "publish", "manifest", "corrupting"}
       \/ step = "retire" /\ ~corrupt
    /\ interrupts < MaxInterrupts
    /\ interrupts' = interrupts + 1
    /\ step' = "corrupting"
    /\ UNCHANGED <<weights, grads, runtime, session, before, mutation, snapshots, prepared,
                   todo, failed, outcome, attempt, readers>>

\* Before the recovery, in the last attempt to mark, or after the session: the
\* attempt ends where it is.
InterruptHandler ==
    /\ failed
    /\ \/ step \in {"failing", "corrupting", "inactive", "release", "done"}
       \/ step = "retire" /\ corrupt
    /\ interrupts < MaxInterrupts
    /\ interrupts' = interrupts + 1
    /\ Raise
    /\ UNCHANGED <<weights, grads, runtime, readers>>

Interrupt == InterruptBegin \/ InterruptStep \/ InterruptRecovery \/ InterruptHandler

-----------------------------------------------------------------------------
\* The readers.

\* The public properties take the lock and refuse unless the runtime is ready.
Fetch(r) ==
    /\ depth = 0
    /\ Ready
    /\ handle' = [handle EXCEPT ![r] = provider]

\* A call of next_token_logits or full_forward_logits, on a provider fetched now or
\* earlier.
Ask(r) ==
    /\ reader[r] \in {"idle", "answered", "accepted"}
    /\ Fetch(r) \/ UNCHANGED handle
    /\ reader' = [reader EXCEPT ![r] = "before"]
    /\ unseen' = [unseen EXCEPT ![r] = Params]
    /\ seen' = [seen EXCEPT ![r] = Untouched]
    /\ UNCHANGED <<weights, grads, runtime, step, attemptV>>

\* What was looked at is as the provider has it, or the call raises.
Examine(r, p, asAuthenticated) ==
    /\ p \in unseen[r]
    /\ IF asAuthenticated
       THEN /\ unseen' = [unseen EXCEPT ![r] = @ \ {p}]
            /\ UNCHANGED reader
       ELSE /\ unseen' = [unseen EXCEPT ![r] = {}]
            /\ reader' = [reader EXCEPT ![r] = "idle"]
    /\ UNCHANGED <<weights, grads, runtime, step, attemptV, handle, seen>>

\* _assert_lightweight_guard looks at one counter after the other.
Look(r, p) ==
    /\ reader[r] \in {"before", "after", "guard", "again"}
    /\ Examine(r, p, version[p] = handle[r].guard[p])

\* The forward pass reads the parameters in any order.
Read(r, p) ==
    /\ reader[r] = "forward"
    /\ p \in unseen[r]
    /\ seen' = [seen EXCEPT ![r][p] = bytes[p]]
    /\ unseen' = [unseen EXCEPT ![r] = @ \ {p}]
    /\ UNCHANGED <<weights, grads, runtime, step, attemptV, reader, handle>>

\* A group of answers is closed by the full authentication: the provider looks at
\* the counters and hashes the parameters, then its caller looks at them again.
Authenticate(r) ==
    /\ reader[r] = "answered"
    /\ reader' = [reader EXCEPT ![r] = "guard"]
    /\ unseen' = [unseen EXCEPT ![r] = Params]
    /\ UNCHANGED <<weights, grads, runtime, step, attemptV, handle, seen>>

\* build_tensor_state_manifest reads one parameter after the other.
Hash(r, p) ==
    /\ reader[r] = "hash"
    /\ Examine(r, p, bytes[p] = handle[r].policy[p])

\* Mutant: once the parameters are hashed the counters are not looked at again.
AcceptHashed(phase) ==
    CASE phase = "before" -> "forward" [] phase = "forward" -> "after"
      [] phase = "after" -> "answered" [] phase = "guard" -> "hash" [] OTHER -> "accepted"

\* Look, read, look; authenticated: look, hash, and look once more.
NextPhase(phase) ==
    CASE phase = "before" -> "forward" [] phase = "forward" -> "after"
      [] phase = "after" -> "answered" [] phase = "guard" -> "hash"
      [] phase = "hash" -> "again" [] OTHER -> "accepted"

Proceed(r) ==
    /\ reader[r] \in {"before", "forward", "after", "guard", "hash", "again"}
    /\ unseen[r] = {}
    /\ LET next == NextPhase(reader[r]) IN
        /\ reader' = [reader EXCEPT ![r] = next]
        /\ unseen' = [unseen EXCEPT ![r] = IF next \in {"answered", "accepted"} THEN {} ELSE Params]
    /\ UNCHANGED <<weights, grads, runtime, step, attemptV, handle, seen>>

-----------------------------------------------------------------------------
Transaction ==
    \/ Check \/ Lease \/ Backward \/ Snapshot \/ Mutate \/ ZeroGrad \/ Prepare
    \/ PublishProvider \/ PublishManifest \/ Retire \/ Deactivate \/ Release \/ Done
    \/ CountWrite \/ \E p \in Params : StepParam(p)

Handler ==
    \/ CheckFails \/ Fail \/ ClearGradients \/ NothingToRecover \/ Recover \/ Restored
    \/ Verify \/ RecoveryFails \/ MarkCorrupt
    \/ \E p \in Params : RestoreParam(p)

ReaderStep(r) ==
    \/ Ask(r) \/ Authenticate(r) \/ Proceed(r)
    \/ \E p \in Params : Look(r, p) \/ Read(r, p) \/ Hash(r, p)

Next == Begin \/ Transaction \/ Handler \/ Interrupt \/ \E r \in Readers : ReaderStep(r)

Spec == Init /\ [][Next]_vars

\* The thread that took the lease runs on.
FairSpec == Spec /\ WF_vars(Transaction \/ Handler)

-----------------------------------------------------------------------------
\* Whoever gets past the lock and the flags finds one policy: the provider was
\* issued for exactly the parameters that are in the model and still trusts them,
\* the manifest binds the same ones, and no gradient is left behind.  However a
\* step ended, by an interrupt or not.
ServedPolicyIsLive ==
    depth = 0 /\ Ready => provider = Fresh /\ manifest = bytes /\ ~grads

\* Steps and roll-backs rewrite the parameters while readers read them.  An answer
\* that got past both looks has at most one parameter that is not of the policy its
\* provider was issued for: the one a kernel had written and not counted.  What the
\* full authentication has accepted afterwards was read from that policy, from all
\* of it and nothing else.
AnswersAreOnePolicy ==
    \A r \in Readers :
      /\ reader[r] = "answered" =>
           \A p, q \in Params :
             seen[r][p] # handle[r].policy[p] /\ seen[r][q] # handle[r].policy[q] => p = q
      /\ reader[r] = "accepted" => seen[r] = handle[r].policy

\* "byte-exact rollback or permanently corrupt sealed runtime": after a step that
\* raised, the policy of before is in the model and served, or nothing is.  An interrupt is
\* another matter: it may leave the lease taken, or a published step raised.
RaisedStepIsUndone ==
    outcome = "raised" /\ interrupts = 0 /\ ~corrupt =>
        bytes = before /\ manifest = before /\ Ready /\ depth = 0

\* Every step ends and gives the lock back, whatever fails in it; unless an
\* interrupt has struck, the runtime is then in service or marked corrupt.
LeaseIsReturned ==
    step # "idle" ~> step = "idle" /\ (interrupts > 0 \/ (depth = 0 /\ ~active))
=============================================================================
