---------------------------- MODULE ZendoGameProofs ----------------------------
(***************************************************************************)
(* Theorems about ZendoGame: for every catalog, episode, test budget and   *)
(* policy.                                                                 *)
(***************************************************************************)
EXTENDS ZendoGame, ZendoQueryProofs

-------------------------------------------------------------------------------
(* Sequences of events.                                                    *)

IsSeq(s) == \E S : s \in Seq(S)

\* What Append does, for a sequence of any kind of element.
LEMMA AppendFacts ==
    ASSUME NEW s, IsSeq(s), NEW x
    PROVE  /\ IsSeq(Append(s, x))
           /\ Len(s) \in Nat /\ DOMAIN s = 1 .. Len(s)
           /\ Len(Append(s, x)) = Len(s) + 1
           /\ DOMAIN Append(s, x) = 1 .. Len(s) + 1
           /\ Append(s, x)[Len(s) + 1] = x
           /\ \A i \in 1 .. Len(s) : Append(s, x)[i] = s[i]
<1>1. PICK S : s \in Seq(S)
  BY DEF IsSeq
<1>2. s \in Seq(S \cup {x}) /\ x \in S \cup {x}
  BY <1>1
<1>3. Append(s, x) \in Seq(S \cup {x})
  BY <1>2
<1> QED
  BY <1>2, <1>3 DEF IsSeq

\* The tests of a transcript that grew by one event.
LEMMA TestsAppend ==
    ASSUME NEW s, IsSeq(s), NEW x
    PROVE  /\ x.type = "test" =>
                /\ Tests(Append(s, x)) = Tests(s) \cup {Len(s) + 1}
                /\ Tested(Append(s, x)) = Tested(s) \cup {x.action.koan}
           /\ x.type # "test" =>
                /\ Tests(Append(s, x)) = Tests(s)
                /\ Tested(Append(s, x)) = Tested(s)
<1> DEFINE t == Append(s, x)
           n == Len(s)
<1>1. n \in Nat /\ DOMAIN s = 1 .. n /\ DOMAIN t = 1 .. n + 1 /\ t[n + 1] = x
      /\ \A i \in 1 .. n : t[i] = s[i]
  BY AppendFacts
<1> HIDE DEF t, n
<1>2. x.type = "test" => Tests(t) = Tests(s) \cup {n + 1}
  BY <1>1 DEF Tests
<1>3. x.type # "test" => Tests(t) = Tests(s)
  BY <1>1 DEF Tests
<1>4. \A i \in Tests(s) : t[i] = s[i]
  BY <1>1 DEF Tests
<1>5. x.type = "test" => Tested(t) = Tested(s) \cup {x.action.koan}
  BY <1>1, <1>2, <1>4 DEF Tested
<1>6. x.type # "test" => Tested(t) = Tested(s)
  BY <1>3, <1>4 DEF Tested
<1> QED
  BY <1>2, <1>3, <1>5, <1>6 DEF t, n

-------------------------------------------------------------------------------
(* The invariant of an environment.                                        *)

States == {"inquiry", "awaiting_answer", "complete", "invalid", "aborted"}
EventTypes == {"test", "ready", "answer", "invalid", "abort"}

\* During inquiry every event is a test and one more fits the budget; the
\* space is what the evidence leaves.
Sound(e, v) ==
    /\ IsSeq(v.events)
    /\ v.state \in States
    /\ \A i \in DOMAIN v.events : v.events[i].type \in EventTypes
    /\ v.space = ObserveMany(Catalog, e.opening \cup Tested(v.events), e.target)
    /\ v.state = "inquiry" =>
        /\ Tests(v.events) = DOMAIN v.events
        /\ Len(v.events) < MaxTests
        /\ ~TerminalShown(v.events)
    /\ v.state = "awaiting_answer" => Len(v.events) <= MaxTests

\* The environments v and w record the same tests.
SameTests(v, w) ==
    /\ Tests(w.events) = Tests(v.events)
    /\ \A i \in Tests(v.events) : w.events[i] = v.events[i]

\* The same tests are tests of the same scenes.
LEMMA SameTested ==
    ASSUME NEW v, NEW w, SameTests(v, w)
    PROVE  Tested(w.events) = Tested(v.events)
BY DEF SameTests, Tested

\* An event other than a test keeps the environment sound.
LEMMA RecordedIsSound ==
    ASSUME NEW e, NEW v, Sound(e, v), NEW event, event.type \in EventTypes \ {"test"},
           NEW state \in States \ {"inquiry"},
           state = "awaiting_answer" => v.state = "inquiry"
    PROVE  /\ Sound(e, Recorded(v, event, state))
           /\ Recorded(v, event, state).events = Append(v.events, event)
           /\ Recorded(v, event, state).state = state
           /\ SameTests(v, Recorded(v, event, state))
<1> DEFINE w == Recorded(v, event, state)
<1>1. w = [events |-> Append(v.events, event), state |-> state, space |-> v.space]
  BY DEF Recorded, Narrowed
<1>2. IsSeq(v.events)
  BY DEF Sound
<1>3. IsSeq(w.events) /\ Len(w.events) = Len(v.events) + 1 /\ Len(v.events) \in Nat
  BY <1>1, <1>2, AppendFacts
<1>4. Tested(w.events) = Tested(v.events) /\ Tests(w.events) = Tests(v.events)
  BY <1>1, <1>2, TestsAppend
<1>5. /\ DOMAIN v.events = 1 .. Len(v.events) /\ DOMAIN w.events = 1 .. Len(v.events) + 1
      /\ \A i \in 1 .. Len(v.events) : w.events[i] = v.events[i]
      /\ w.events[Len(v.events) + 1] = event
  BY <1>1, <1>2, AppendFacts
<1>6. SameTests(v, w)
  BY <1>4, <1>5 DEF SameTests, Tests
<1>7. \A i \in DOMAIN w.events : w.events[i].type \in EventTypes
  BY <1>3, <1>5 DEF Sound
<1>8. w.space = ObserveMany(Catalog, e.opening \cup Tested(w.events), e.target)
  <2>1. w.space = v.space
    BY <1>1
  <2> QED
    BY <1>4, <2>1 DEF Sound
<1>9. state = "awaiting_answer" => Len(w.events) <= MaxTests
  BY <1>3, GameConstants DEF Sound
<1> QED
  BY <1>1, <1>3, <1>4, <1>8, <1>9, <1>6, <1>7 DEF Sound, States

\* A test during inquiry keeps it sound, and exhausts the budget in time.
LEMMA TestIsSound ==
    ASSUME NEW e, NEW v, Sound(e, v), v.state = "inquiry", NEW a
    PROVE  /\ Sound(e, ConsumeTest(e, v, a))
           /\ Len(ConsumeTest(e, v, a).events) = Len(v.events) + 1
           /\ \A i \in Tests(ConsumeTest(e, v, a).events) : i \in Tests(v.events) \/ i = Len(v.events) + 1
           /\ \A i \in Tests(v.events) : ConsumeTest(e, v, a).events[i] = v.events[i]
           /\ ConsumeTest(e, v, a).events[Len(v.events) + 1].metrics = Metrics(e, v, a.koan)
<1> DEFINE spent == BudgetSpent(QueryCount(v) + 1)
           event == [type |-> "test", action |-> a, accepted |-> a.koan \in e.target,
                     metrics |-> Metrics(e, v, a.koan), exhausted |-> spent]
           w == ConsumeTest(e, v, a)
           n == Len(v.events)
<1>1. w = [events |-> Append(v.events, event),
           state |-> IF spent THEN "awaiting_answer" ELSE "inquiry",
           space |-> SpaceAfter(e, v, a.koan)]
  BY DEF ConsumeTest, Narrowed
<1>2. event.type = "test" /\ event.exhausted = spent /\ event.action = a
      /\ event.metrics = Metrics(e, v, a.koan)
  OBVIOUS
<1> HIDE DEF event
<1>3. IsSeq(v.events) /\ Tests(v.events) = DOMAIN v.events /\ n < MaxTests
      /\ ~TerminalShown(v.events)
  BY DEF Sound
<1>4. /\ IsSeq(w.events) /\ n \in Nat /\ DOMAIN v.events = 1 .. n
      /\ Len(w.events) = n + 1 /\ DOMAIN w.events = 1 .. n + 1
      /\ w.events[n + 1] = event /\ \A i \in 1 .. n : w.events[i] = v.events[i]
  BY <1>1, <1>3, AppendFacts
<1>5. QueryCount(v) = n
  <2>1. Cardinality(1 .. n) = n
    BY <1>4, FS_Interval
  <2> QED
    BY <1>3, <1>4, <2>1 DEF QueryCount
<1>6. spent <=> n + 1 = MaxTests
  BY <1>5 DEF BudgetSpent
<1>7. Tests(w.events) = DOMAIN w.events /\ Tests(w.events) = Tests(v.events) \cup {n + 1}
  <2>1. Tests(w.events) = Tests(v.events) \cup {n + 1}
    BY <1>1, <1>2, <1>3, TestsAppend
  <2> QED
    BY <1>3, <1>4, <2>1
<1>8. Tested(w.events) = Tested(v.events) \cup {a.koan}
  BY <1>1, <1>2, <1>3, TestsAppend
<1>9. w.space = ObserveMany(Catalog, e.opening \cup Tested(w.events), e.target)
  <2>1. w.space = Observe(v.space, a.koan, a.koan \in e.target)
    BY <1>1 DEF SpaceAfter
  <2>2. v.space = ObserveMany(Catalog, e.opening \cup Tested(v.events), e.target)
    BY DEF Sound
  <2> QED
    BY <1>8, <2>1, <2>2 DEF Observe, ObserveMany
<1>10. ~spent => ~TerminalShown(w.events)
  BY <1>2, <1>3, <1>4, <1>7 DEF TerminalShown
<1>11. \A i \in DOMAIN w.events : w.events[i].type \in EventTypes
  BY <1>2, <1>4 DEF Sound, EventTypes
<1> HIDE DEF w, spent, n
<1> QED
  <2>1. w.state = IF spent THEN "awaiting_answer" ELSE "inquiry"
    BY <1>1
  <2>3. spent => Len(w.events) <= MaxTests
    BY <1>4, <1>6, GameConstants
  <2>4. ~spent => Len(w.events) < MaxTests
    BY <1>3, <1>4, <1>6, GameConstants
  <2>5. Sound(e, w)
    BY <1>4, <1>7, <1>9, <1>10, <1>11, <2>1, <2>3, <2>4 DEF Sound, States
  <2> QED
    BY <1>2, <1>3, <1>4, <1>7, <2>5 DEF w, n

Moves == {"garbled", "test", "ready", "answer"}

\* Whatever text is consumed, the environment stays sound, one event is
\* recorded, and after inquiry it is not a test.
LEMMA ConsumeIsSound ==
    ASSUME NEW e, NEW v, Sound(e, v), ~Over(v), NEW a, a.move \in Moves
    PROVE  /\ Sound(e, Consume(e, v, a))
           /\ Len(Consume(e, v, a).events) = Len(v.events) + 1
           /\ v.state # "inquiry" \/ a.move # "test" => SameTests(v, Consume(e, v, a))
<1> DEFINE w == Consume(e, v, a)
<1>1. v.state \in {"inquiry", "awaiting_answer"}
  BY DEF Sound, States, Over
<1>2. ASSUME NEW event, event.type \in EventTypes \ {"test"}, NEW state \in States \ {"inquiry"},
             state = "awaiting_answer" => v.state = "inquiry",
             w = Recorded(v, event, state)
      PROVE  Sound(e, w) /\ Len(w.events) = Len(v.events) + 1 /\ SameTests(v, w)
  <2>1. IsSeq(v.events)
    BY DEF Sound
  <2> HIDE DEF w
  <2> QED
    BY <1>2, <2>1, RecordedIsSound, AppendFacts
<1>3. ASSUME NEW code, w = Invalidate(v, a, code)
      PROVE  Sound(e, w) /\ Len(w.events) = Len(v.events) + 1 /\ SameTests(v, w)
  <2> DEFINE event == [type |-> "invalid", action |-> a, code |-> code]
  <2>1. w = Recorded(v, event, "invalid")
    BY <1>3 DEF Invalidate
  <2>2. event.type \in EventTypes \ {"test"}
    BY DEF EventTypes
  <2> QED
    BY <1>2, <2>1, <2>2 DEF States
<1>4. CASE a.move = "garbled"
  <2>1. w = Invalidate(v, a, "invalid_json")
    BY <1>1, <1>4 DEF Consume, Over
  <2> QED
    BY <1>3, <2>1
<1>5. CASE a.move = "test" /\ v.state = "inquiry"
  <2>1. w = ConsumeTest(e, v, a)
    BY <1>5 DEF Consume, Over
  <2> QED
    BY <1>5, <2>1, TestIsSound
<1>6. CASE a.move = "ready" /\ v.state = "inquiry"
  <2> DEFINE event == [type |-> "ready", action |-> a, premature |-> Cardinality(v.space) > 1]
  <2>1. w = Recorded(v, event, "awaiting_answer")
    BY <1>6 DEF Consume, Over
  <2>2. event.type \in EventTypes \ {"test"}
    BY DEF EventTypes
  <2> QED
    BY <1>2, <1>6, <2>1, <2>2 DEF States
<1>7. CASE a.move = "answer" /\ v.state = "inquiry"
  <2>1. w = Invalidate(v, a, "unexpected_answer")
    BY <1>7 DEF Consume, Over
  <2> QED
    BY <1>3, <2>1
<1>8. CASE a.move \in {"test", "ready"} /\ v.state = "awaiting_answer"
  <2>1. w = Invalidate(v, a, "expected_answer")
    BY <1>8 DEF Consume, Over
  <2> QED
    BY <1>3, <2>1
<1>9. CASE a.move = "answer" /\ v.state = "awaiting_answer"
  <2>1. w = IF a.labels = Cardinality(e.terminal) THEN ConsumeAnswer(e, v, a)
            ELSE Invalidate(v, a, "wrong_classification_count")
    BY <1>9 DEF Consume, Over
  <2>2. CASE a.labels = Cardinality(e.terminal)
    <3> DEFINE event == [type |-> "answer", action |-> a,
                 correct |-> Cardinality({s \in e.terminal : (s \in a.fits) = (s \in e.target)}),
                 equivalent |-> a.rule = e.target, queries |-> QueryCount(v)]
    <3>1. w = Recorded(v, event, "complete")
      BY <2>1, <2>2 DEF ConsumeAnswer
    <3>2. event.type \in EventTypes \ {"test"}
      BY DEF EventTypes
    <3> QED
      BY <1>2, <3>1, <3>2 DEF States
  <2>3. CASE a.labels # Cardinality(e.terminal)
    BY <1>3, <2>1, <2>3
  <2> QED
    BY <2>2, <2>3
<1> QED
  BY <1>1, <1>4, <1>5, <1>6, <1>7, <1>8, <1>9 DEF Moves

\* So does an abort, which ends the game.
LEMMA AbortIsSound ==
    ASSUME NEW e, NEW v, Sound(e, v), NEW reason
    PROVE  /\ Sound(e, Abort(v, reason)) /\ Over(Abort(v, reason))
           /\ SameTests(v, Abort(v, reason))
<1>1. CASE Over(v)
  BY <1>1 DEF Abort, SameTests
<1>2. CASE ~Over(v)
  <2> DEFINE event == [type |-> "abort", action |-> [move |-> "abort", reason |-> reason]]
  <2>1. Abort(v, reason) = Recorded(v, event, "aborted")
    BY <1>2 DEF Abort
  <2>2. event.type \in EventTypes \ {"test"}
    BY DEF EventTypes
  <2> QED
    BY <2>1, <2>2, RecordedIsSound DEF States, Over
<1> QED
  BY <1>1, <1>2

-------------------------------------------------------------------------------
(* The invariant of the whole game.                                        *)

\* Every turn is an event: the loop cannot outrun an open game.
GameInv ==
    /\ episode \in Episodes /\ controller \in Controllers
    /\ episode.target \in Catalog
    /\ Sound(episode, env)
    /\ IsSeq(turns) /\ \A i \in DOMAIN turns : turns[i].move \in Moves
    /\ ~Over(env) => Len(turns) <= Len(env.events)
    /\ pc \in {"play", "kept", "raised"}

\* HiddenLawEnvironment.__init__ starts with an empty transcript and the space
\* of the opening.
LEMMA NewEnvIsSound ==
    ASSUME NEW e
    PROVE  Sound(e, NewEnv(e)) /\ NewEnv(e).events = << >>
<1> DEFINE v == NewEnv(e)
<1>1. v.events = << >> /\ v.state = "inquiry" /\ v.space = OpeningSpace(e)
  BY DEF NewEnv
<1>2. IsSeq(<< >>) /\ Len(<< >>) = 0 /\ DOMAIN << >> = {}
  <2>1. << >> \in Seq({})
    OBVIOUS
  <2> QED
    BY <2>1 DEF IsSeq
<1>3. Tests(<< >>) = {} /\ Tested(<< >>) = {}
  BY <1>2 DEF Tests, Tested
<1>4. v.space = ObserveMany(Catalog, e.opening \cup Tested(v.events), e.target)
  BY <1>1, <1>3 DEF OpeningSpace
<1>5. ~TerminalShown(<< >>)
  BY <1>2 DEF TerminalShown
<1> HIDE DEF v
<1>6. Sound(e, v)
  BY <1>1, <1>2, <1>3, <1>4, <1>5, GameConstants DEF Sound, States
<1> QED
  BY <1>1, <1>6 DEF v

\* The three ways in which a step of a controller changes the environment.
LEMMA GameStep ==
    ASSUME GameInv, Next
    PROVE  \/ /\ ~Over(env)
              /\ \E a : a.move \in Moves /\ env' = Consume(episode, env, a)
              /\ \/ controller = "policy" /\ \E a : a.move \in Moves /\ turns' = Append(turns, a)
                 \/ turns' = turns
           \/ (\E reason : env' = Abort(env, reason)) /\ turns' = turns
           \/ env' = env /\ turns' = turns
<1>1. CASE Sample
  <2>1. PICK text \in Texts : env' = Consume(episode, env, text) /\ turns' = Append(turns, text)
    BY <1>1 DEF Sample
  <2>2. text.move \in Moves
    BY DEF Texts, Moves
  <2>3. ~Over(env) /\ controller = "policy"
    BY <1>1 DEF Sample, Continues, Plays
  <2> QED
    BY <2>1, <2>2, <2>3
<1>2. CASE PolicyAborts
  BY <1>2 DEF PolicyAborts
<1>3. CASE Record
  BY <1>3 DEF Record
<1>4. CASE ReferenceTests
  <2>1. PICK s \in Unobserved : env' = Consume(episode, env, [move |-> "test", koan |-> s])
    BY <1>4 DEF ReferenceTests, OptimalQueries
  <2>2. [move |-> "test", koan |-> s].move \in Moves
    BY DEF Moves
  <2>3. ~Over(env) /\ turns' = turns
    BY <1>4 DEF ReferenceTests, Inquiring, Over
  <2> QED
    BY <2>1, <2>2, <2>3
<1>5. CASE ReferenceReady
  <2>1. [move |-> "ready"].move \in Moves
    BY DEF Moves
  <2>2. ~Over(env) /\ turns' = turns /\ env' = Consume(episode, env, [move |-> "ready"])
    BY <1>5 DEF ReferenceReady, Over
  <2> QED
    BY <2>1, <2>2
<1>6. CASE ReferenceAnswers
  <2> DEFINE a == [move |-> "answer", rule |-> episode.target,
                   fits |-> episode.target \cap episode.terminal,
                   labels |-> Cardinality(episode.terminal)]
  <2>1. a.move \in Moves
    BY DEF Moves
  <2>2. ~Over(env) /\ turns' = turns /\ env' = Consume(episode, env, a)
    BY <1>6 DEF ReferenceAnswers
  <2> HIDE DEF a
  <2> QED
    BY <2>1, <2>2
<1>7. CASE RecordReference
  BY <1>7 DEF RecordReference
<1>8. CASE Returned
  BY <1>8 DEF Returned, vars
<1> QED
  BY <1>1, <1>2, <1>3, <1>4, <1>5, <1>6, <1>7, <1>8 DEF Next

\* No step changes the episode or the controller, and pc stays typed.
LEMMA Frame ==
    ASSUME GameInv, Next
    PROVE  episode' = episode /\ controller' = controller /\ pc' \in {"play", "kept", "raised"}
BY DEF GameInv, Next, Sample, PolicyAborts, Record, ReferenceTests, ReferenceReady,
       ReferenceAnswers, RecordReference, Returned, vars

\* Every step of a controller keeps the invariant.
LEMMA GameInvStep ==
    ASSUME GameInv, [Next]_vars
    PROVE  GameInv'
<1>1. CASE UNCHANGED vars
  BY <1>1 DEF vars, GameInv, Sound, Over, States, Tests, Tested, TerminalShown
<1>2. CASE Next
  <2>1. episode' = episode /\ controller' = controller /\ pc' \in {"play", "kept", "raised"}
    BY <1>2, Frame
  <2>2. /\ Sound(episode, env) /\ IsSeq(turns) /\ \A i \in DOMAIN turns : turns[i].move \in Moves
        /\ ~Over(env) => Len(turns) <= Len(env.events)
    BY DEF GameInv
  <2>3. Len(turns) \in Nat
    BY <2>2, AppendFacts
  <2>4. Len(env.events) \in Nat
    BY <2>2, AppendFacts DEF Sound
  <2>5. ASSUME NEW a, a.move \in Moves, turns' = Append(turns, a)
        PROVE  /\ IsSeq(turns') /\ Len(turns') = Len(turns) + 1
               /\ \A i \in DOMAIN turns' : turns'[i].move \in Moves
    BY <2>2, <2>5, AppendFacts
  <2>6. ASSUME NEW a, a.move \in Moves, ~Over(env), env' = Consume(episode, env, a)
        PROVE  Sound(episode, env') /\ Len(env'.events) = Len(env.events) + 1
    BY <2>2, <2>6, ConsumeIsSound
  <2>7. ASSUME NEW reason, env' = Abort(env, reason)
        PROVE  Sound(episode, env') /\ Over(env')
    BY <2>2, <2>7, AbortIsSound
  <2>8. Sound(episode, env')
    BY <1>2, <2>2, <2>6, <2>7, GameStep
  <2>9. IsSeq(turns') /\ \A i \in DOMAIN turns' : turns'[i].move \in Moves
    BY <1>2, <2>2, <2>5, GameStep
  <2>10. ~Over(env') => Len(turns') <= Len(env'.events)
    <3>1. CASE /\ ~Over(env)
               /\ \E a : a.move \in Moves /\ env' = Consume(episode, env, a)
               /\ \/ \E a : a.move \in Moves /\ turns' = Append(turns, a)
                  \/ turns' = turns
      <4>1. Len(env'.events) = Len(env.events) + 1
        BY <3>1, <2>6
      <4>2. Len(turns') = Len(turns) + 1 \/ Len(turns') = Len(turns)
        BY <3>1, <2>5
      <4> QED
        BY <3>1, <4>1, <4>2, <2>2, <2>3, <2>4
    <3>2. CASE \E reason : env' = Abort(env, reason)
      BY <3>2, <2>7
    <3>3. CASE env' = env /\ turns' = turns
      BY <3>3, <2>2
    <3> QED
      BY <1>2, <3>1, <3>2, <3>3, GameStep
  <2>11. episode' \in Episodes /\ controller' \in Controllers /\ episode'.target \in Catalog
    BY <2>1 DEF GameInv
  <2> QED
    BY <2>1, <2>8, <2>9, <2>10, <2>11 DEF GameInv, Sound, Over, States, Tests, Tested, TerminalShown
<1> QED
  BY <1>1, <1>2

\* A game of a retained episode starts in the invariant.
LEMMA GameInvInit ==
    ASSUME Init
    PROVE  GameInv
<1>1. episode \in Episodes /\ episode.target \in Catalog
  BY DEF Init, Retained, ValidEpisode
<1>2. Sound(episode, env) /\ env.events = << >>
  BY NewEnvIsSound DEF Init
<1>3. IsSeq(turns) /\ DOMAIN turns = {} /\ Len(turns) <= Len(env.events)
  <2>1. turns = << >> /\ << >> \in Seq({})
    BY DEF Init
  <2> QED
    BY <1>2, <2>1 DEF IsSeq
<1>4. controller \in Controllers /\ pc = "play"
  BY DEF Init
<1> QED
  BY <1>1, <1>2, <1>3, <1>4 DEF GameInv

\* Every reachable state of a game satisfies the invariant (collect_rollout and
\* play_reference_episode over HiddenLawEnvironment).
THEOREM GameInvariance == Spec => []GameInv
<1>1. Init => GameInv
  BY GameInvInit
<1>2. GameInv /\ [Next]_vars => GameInv'
  BY GameInvStep
<1> QED
  BY <1>1, <1>2, PTL DEF Spec

\* The types of TypeOK hold in every game: in particular the version space
\* never leaves the catalog (environment.py).
THEOREM GameTypeCorrect == Spec => []TypeOK
<1>1. GameInv => TypeOK
  BY DEF GameInv, Sound, States, EventTypes, Moves, ObserveMany, TypeOK
<1> QED
  BY <1>1, GameInvariance, PTL

\* For every catalog, episode, budget and policy, the version space that is
\* kept beside the transcript is what the evidence in it leaves, and the law is
\* among its rules (_consume_test).
THEOREM SpaceIsWhatTheEvidenceLeaves == Spec => []VersionSpaceIsExact
<1>1. GameInv => VersionSpaceIsExact
  BY DEF GameInv, Sound, VersionSpaceIsExact, ObserveMany, Evidence
<1> QED
  BY <1>1, GameInvariance, PTL

\* A policy that answers every time ends its game within two turns more than
\* there are tests, whatever the budget (collect_rollout's range(8)).
THEOREM EightTurnsSuffice == Spec => []LoopNeverRunsOut
<1>1. ASSUME GameInv
      PROVE  LoopNeverRunsOut
  <2>1. Len(turns) \in Nat /\ Len(env.events) \in Nat
    BY <1>1, AppendFacts DEF GameInv, Sound
  <2>2. CASE Over(env)
    BY <2>2 DEF LoopNeverRunsOut
  <2>3. CASE ~Over(env)
    <3>1. Len(turns) <= Len(env.events)
      BY <1>1, <2>3 DEF GameInv
    <3>2. Len(env.events) <= MaxTests
      BY <1>1, <2>1, <2>3, GameConstants DEF GameInv, Sound, States, Over
    <3> QED
      BY <2>1, <3>1, <3>2, GameConstants DEF LoopNeverRunsOut, Loop
  <2> QED
    BY <2>2, <2>3
<1> QED
  BY <1>1, GameInvariance, PTL

\* After inquiry no step of the game records a test.
LEMMA NoTestAfterInquiry ==
    ASSUME GameInv, Next, env.state # "inquiry"
    PROVE  Tested(env'.events) = Tested(env.events)
<1>1. Sound(episode, env)
  BY DEF GameInv
<1>2. ASSUME NEW a, a.move \in Moves, ~Over(env), env' = Consume(episode, env, a)
      PROVE  SameTests(env, env')
  BY <1>1, <1>2, ConsumeIsSound
<1>3. ASSUME NEW reason, env' = Abort(env, reason)
      PROVE  SameTests(env, env')
  BY <1>1, <1>3, AbortIsSound
<1>4. SameTests(env, env') \/ env' = env
  BY <1>2, <1>3, GameStep
<1> QED
  BY <1>4, SameTested

\* Once the terminal koans are rendered nothing more is tested, whoever plays
\* (render_dialogue against consume).
THEOREM KoansAreShownLast == Spec => TerminalKoansComeLast
<1>1. GameInv /\ [Next]_vars => [TerminalShown(env.events) => Tested(env'.events) = Tested(env.events)]_vars
  <2> SUFFICES ASSUME GameInv, Next, TerminalShown(env.events)
               PROVE  Tested(env'.events) = Tested(env.events)
    OBVIOUS
  <2>1. env.state # "inquiry"
    BY DEF GameInv, Sound
  <2> QED
    BY <2>1, NoTestAfterInquiry
<1> QED
  BY <1>1, GameInvariance, PTL DEF Spec, TerminalKoansComeLast

-------------------------------------------------------------------------------
(* The reference player.                                                   *)

WellSpent(m) == m.after < m.before /\ ~m.duplicate /\ Smaller(m.accepted, m.rejected) = m.best

\* Two scenes that are best among the same ones split equally evenly.
LEMMA BestIsUnique ==
    ASSUME NEW space \in SUBSET Catalog, NEW legal,
           NEW s \in OptimalQueries(space, legal), NEW t \in OptimalQueries(space, legal)
    PROVE  Balance(space, s) = Balance(space, t)
<1>1. Balance(space, s) <= Balance(space, t) /\ Balance(space, t) <= Balance(space, s)
  BY DEF OptimalQueries
<1>2. Balance(space, s) \in Nat /\ Balance(space, t) \in Nat
  BY BalanceIsBounded
<1> QED
  BY <1>1, <1>2

\* The metrics of what the reference player asks of several rules.
LEMMA BestUnseenIsWellSpent ==
    ASSUME GameInv, Cardinality(env.space) > 1, NEW s \in OptimalQueries(env.space, Unobserved)
    PROVE  WellSpent(Metrics(episode, env, s))
<1> DEFINE m == Metrics(episode, env, s)
           best == CHOOSE t \in OptimalQueries(env.space, Scenes) : TRUE
           seen == episode.opening \cup Tested(env.events)
<1>1. env.space = ObserveMany(Catalog, seen, episode.target)
  BY DEF GameInv, Sound
<1>2. env.space \in SUBSET Catalog
  BY <1>1 DEF ObserveMany
<1>3. \A u \in Scenes \ Unobserved : Balance(env.space, u) = 0
  <2> SUFFICES ASSUME NEW u \in Scenes \ Unobserved
               PROVE  Balance(env.space, u) = 0
    OBVIOUS
  <2>1. u \in seen
    BY DEF Unobserved
  <2>2. \A r, q \in env.space : (u \in r) = (u \in q)
    BY <1>1, <2>1 DEF ObserveMany
  <2> QED
    BY <1>2, <2>2, AgreementHasNoBalance
<1>4. Unobserved \in SUBSET Scenes
  BY DEF Unobserved
<1>5. s \in OptimalQueries(env.space, Scenes) /\ Balance(env.space, s) >= 1
  BY <1>2, <1>3, <1>4, BestOfTheUnseen
<1>6. best \in OptimalQueries(env.space, Scenes)
  BY <1>5
<1>7. Balance(env.space, best) = Balance(env.space, s)
  BY <1>2, <1>5, <1>6, BestIsUnique
<1>8. s \notin seen
  BY DEF OptimalQueries, Unobserved
<1>9. Cardinality(Observe(env.space, s, s \in episode.target)) < Cardinality(env.space)
  <2>1. (s \in episode.target) \in BOOLEAN
    OBVIOUS
  <2> QED
    BY <1>2, <1>5, <2>1, BalancedQuestionNarrows
<1>10. /\ m.before = Cardinality(env.space) /\ m.duplicate = (s \in seen)
       /\ m.accepted = Accepted(env.space, s) /\ m.rejected = Rejected(env.space, s)
       /\ m.best = Balance(env.space, best)
  BY DEF Metrics
<1>11. m.after = Cardinality(Observe(env.space, s, s \in episode.target))
  BY DEF Metrics
<1>12. Smaller(m.accepted, m.rejected) = Balance(env.space, s)
  <2>1. Accepted(env.space, s) \in Nat /\ Rejected(env.space, s) \in Nat
    BY <1>2, LabelCounts
  <2> HIDE DEF m
  <2> QED
    BY <1>10, <2>1 DEF Balance, Smaller
<1> HIDE DEF m, best
<1>13. m.after < m.before
  BY <1>9, <1>10, <1>11
<1>14. Smaller(m.accepted, m.rejected) = m.best
  BY <1>7, <1>10, <1>12
<1>15. ~m.duplicate
  BY <1>8, <1>10
<1> QED
  BY <1>13, <1>14, <1>15 DEF WellSpent, m

\* Every test in the transcript was well spent.
AllWellSpent(v) == \A i \in Tests(v.events) : WellSpent(v.events[i].metrics)

ReferenceInv == controller = "reference" => AllWellSpent(env)

\* No step adds a test to a reference game but the ones just described.
LEMMA ReferenceInvStep ==
    ASSUME GameInv, ReferenceInv, [Next]_vars
    PROVE  ReferenceInv'
<1>1. CASE UNCHANGED vars
  BY <1>1 DEF vars, ReferenceInv, AllWellSpent, Tests, WellSpent
<1>2. CASE Next
  <2> SUFFICES ASSUME controller = "reference"
               PROVE  AllWellSpent(env')
    BY <1>2, Frame DEF ReferenceInv, AllWellSpent, Tests, WellSpent
  <2>1. AllWellSpent(env) /\ Sound(episode, env)
    BY DEF ReferenceInv, GameInv
  <2>2. ASSUME SameTests(env, env')
        PROVE  AllWellSpent(env')
    BY <2>1, <2>2 DEF AllWellSpent, SameTests
  <2>3. CASE ReferenceTests
    <3>1. PICK s \in OptimalQueries(env.space, Unobserved) :
            env' = Consume(episode, env, [move |-> "test", koan |-> s])
      BY <2>3 DEF ReferenceTests
    <3>2. env.state = "inquiry" /\ Cardinality(env.space) > 1
      BY <2>3 DEF ReferenceTests, Inquiring
    <3> DEFINE a == [move |-> "test", koan |-> s]
    <3>3. a.koan = s /\ a.move = "test"
      OBVIOUS
    <3>4. env' = ConsumeTest(episode, env, a)
      BY <3>1, <3>2, <3>3 DEF Consume, Over
    <3> HIDE DEF a
    <3> DEFINE w == ConsumeTest(episode, env, a)
               n == Len(env.events) + 1
    <3>5. \A i \in Tests(w.events) : i \in Tests(env.events) \/ i = n
      BY <2>1, <3>2, TestIsSound
    <3>6. \A i \in Tests(env.events) : w.events[i] = env.events[i]
      BY <2>1, <3>2, TestIsSound
    <3>7. w.events[n].metrics = Metrics(episode, env, a.koan)
      BY <2>1, <3>2, TestIsSound
    <3> HIDE DEF w, n
    <3>8. WellSpent(Metrics(episode, env, s))
      BY <3>2, BestUnseenIsWellSpent
    <3> QED
      <4>1. AllWellSpent(w)
        BY <2>1, <3>3, <3>5, <3>6, <3>7, <3>8 DEF AllWellSpent
      <4> QED
        BY <3>4, <4>1 DEF w
  <2>4. CASE ReferenceReady
    <3>1. [move |-> "ready"].move \in Moves \ {"test"}
      BY DEF Moves
    <3>2. ~Over(env) /\ env' = Consume(episode, env, [move |-> "ready"])
      BY <2>4 DEF ReferenceReady, Over
    <3> QED
      BY <2>1, <2>2, <3>1, <3>2, ConsumeIsSound
  <2>5. CASE ReferenceAnswers
    <3> DEFINE a == [move |-> "answer", rule |-> episode.target,
                     fits |-> episode.target \cap episode.terminal,
                     labels |-> Cardinality(episode.terminal)]
    <3>1. a.move \in Moves
      BY DEF Moves
    <3>2. ~Over(env) /\ env.state # "inquiry" /\ env' = Consume(episode, env, a)
      BY <2>5 DEF ReferenceAnswers
    <3> HIDE DEF a
    <3> QED
      BY <2>1, <2>2, <3>1, <3>2, ConsumeIsSound
  <2>6. CASE RecordReference \/ Returned
    BY <2>1, <2>6 DEF RecordReference, Returned, vars
  <2>7. ~(Sample \/ PolicyAborts \/ Record)
    BY DEF Sample, PolicyAborts, Record, Plays
  <2> QED
    BY <1>2, <2>3, <2>4, <2>5, <2>6, <2>7 DEF Next
<1> QED
  BY <1>1, <1>2

\* For every catalog of extensionally unique rules, the reference player never
\* wastes a test: each one narrows the space, is new, and is as even as any
\* scene of the universe (play_reference_episode).
THEOREM ReferenceIsEfficient == Spec => []ReferenceWastesNoTest
<1>1. Init => ReferenceInv
  <2>1. Init => Tests(env.events) = {}
    BY NewEnvIsSound DEF Init, Tests
  <2> QED
    BY <2>1 DEF ReferenceInv, AllWellSpent
<1>2. GameInv /\ ReferenceInv /\ [Next]_vars => ReferenceInv'
  BY ReferenceInvStep
<1>3. ReferenceInv => ReferenceWastesNoTest
  BY DEF ReferenceInv, AllWellSpent, WellSpent, ReferenceWastesNoTest
<1> QED
  BY <1>1, <1>2, <1>3, GameInvariance, PTL DEF Spec

-------------------------------------------------------------------------------
(* The recount and the replay: two loops over the events, as functions on    *)
(* the prefixes.  The invariant carries what they compute, one event at a    *)
(* time.                                                                     *)

\* w is what the loop of _validate_sequence holds after each prefix.
Tells(e, events, w) ==
    w = [n \in 0 .. Len(events) |-> IF n = 0 THEN Untold(e) ELSE Follow(e, w[n - 1], events[n])]

\* There is such a w, and every one ends with t.
Counted(e, events, t) ==
    /\ \E w : Tells(e, events, w)
    /\ \A w : Tells(e, events, w) => w[Len(events)] = t

\* The same for the loop of replay_transcript.
Redoes(e, events, w) ==
    w = [n \in 0 .. Len(events) |-> IF n = 0 THEN NewEnv(e) ELSE Redo(e, w[n - 1], events[n])]

Redone(e, events, v) ==
    /\ \E w : Redoes(e, events, w)
    /\ \A w : Redoes(e, events, w) => w[Len(events)] = v

LEMMA NothingTold == \A e : Counted(e, << >>, Untold(e)) /\ Redone(e, << >>, NewEnv(e))
<1> SUFFICES ASSUME NEW e
             PROVE  Counted(e, << >>, Untold(e)) /\ Redone(e, << >>, NewEnv(e))
  OBVIOUS
<1>1. Len(<< >>) = 0 /\ 0 .. 0 = {0}
  OBVIOUS
<1>2. Counted(e, << >>, Untold(e))
  <2>1. Tells(e, << >>, [n \in 0 .. 0 |-> Untold(e)])
    BY <1>1 DEF Tells
  <2>2. \A w : Tells(e, << >>, w) => w[0] = Untold(e)
    BY <1>1 DEF Tells
  <2> QED
    BY <1>1, <2>1, <2>2 DEF Counted
<1>3. Redone(e, << >>, NewEnv(e))
  <2>1. Redoes(e, << >>, [n \in 0 .. 0 |-> NewEnv(e)])
    BY <1>1 DEF Redoes
  <2>2. \A w : Redoes(e, << >>, w) => w[0] = NewEnv(e)
    BY <1>1 DEF Redoes
  <2> QED
    BY <1>1, <2>1, <2>2 DEF Redone
<1> QED
  BY <1>2, <1>3

\* One more event takes one more step of the recount.
LEMMA CountedAppend ==
    ASSUME NEW e, NEW s, IsSeq(s), NEW x, NEW t, Counted(e, s, t)
    PROVE  Counted(e, Append(s, x), Follow(e, t, x))
<1> DEFINE n == Len(s)
           r == Append(s, x)
<1>1. n \in Nat /\ Len(r) = n + 1 /\ r[n + 1] = x /\ \A i \in 1 .. n : r[i] = s[i]
  BY AppendFacts
<1> HIDE DEF r
<1>2. ASSUME NEW w, Tells(e, s, w)
      PROVE  w[0] = Untold(e) /\ w[n] = t /\ \A k \in 1 .. n : w[k] = Follow(e, w[k - 1], s[k])
  BY <1>1, <1>2 DEF Counted, Tells
<1>3. \E w : Tells(e, r, w)
  <2>1. PICK w : Tells(e, s, w)
    BY DEF Counted
  <2> DEFINE u == [k \in 0 .. n + 1 |-> IF k = n + 1 THEN Follow(e, t, x) ELSE w[k]]
  <2>2. ASSUME NEW k \in 0 .. n + 1
        PROVE  u[k] = IF k = 0 THEN Untold(e) ELSE Follow(e, u[k - 1], r[k])
    <3>1. CASE k = 0
      BY <1>1, <1>2, <2>1, <3>1
    <3>2. CASE k \in 1 .. n
      <4>1. u[k] = w[k] /\ u[k - 1] = w[k - 1] /\ k # 0
        BY <1>1, <3>2
      <4> QED
        BY <1>1, <1>2, <2>1, <3>2, <4>1
    <3>3. CASE k = n + 1
      <4>1. u[k] = Follow(e, t, x) /\ u[k - 1] = w[n] /\ k # 0
        BY <1>1, <3>3
      <4> QED
        BY <1>1, <1>2, <2>1, <3>3, <4>1
    <3> QED
      BY <1>1, <3>1, <3>2, <3>3
  <2>3. u = [k \in 0 .. n + 1 |-> u[k]]
    OBVIOUS
  <2> HIDE DEF u
  <2>4. [k \in 0 .. n + 1 |-> u[k]]
        = [k \in 0 .. n + 1 |-> IF k = 0 THEN Untold(e) ELSE Follow(e, u[k - 1], r[k])]
    BY <2>2, Zenon
  <2> QED
    BY <1>1, <2>3, <2>4 DEF Tells
<1>4. ASSUME NEW u, Tells(e, r, u)
      PROVE  u[n + 1] = Follow(e, t, x)
  <2> DEFINE w == [k \in 0 .. n |-> u[k]]
  <2>1. \A k \in 0 .. n + 1 : u[k] = IF k = 0 THEN Untold(e) ELSE Follow(e, u[k - 1], r[k])
    BY <1>1, <1>4 DEF Tells
  <2>2. ASSUME NEW k \in 0 .. n
        PROVE  u[k] = IF k = 0 THEN Untold(e) ELSE Follow(e, w[k - 1], s[k])
    BY <1>1, <2>1
  <2>3. w = [k \in 0 .. n |-> IF k = 0 THEN Untold(e) ELSE Follow(e, w[k - 1], s[k])]
    BY <2>2, Zenon
  <2>4. Tells(e, s, w)
    BY <2>3, Zenon DEF Tells
  <2>5. u[n] = t
    BY <1>1, <1>2, <2>4
  <2> QED
    BY <1>1, <2>1, <2>5
<1> QED
  BY <1>1, <1>3, <1>4 DEF Counted, r

\* And one more of the replay.
LEMMA RedoneAppend ==
    ASSUME NEW e, NEW s, IsSeq(s), NEW x, NEW v, Redone(e, s, v)
    PROVE  Redone(e, Append(s, x), Redo(e, v, x))
<1> DEFINE n == Len(s)
           r == Append(s, x)
<1>1. n \in Nat /\ Len(r) = n + 1 /\ r[n + 1] = x /\ \A i \in 1 .. n : r[i] = s[i]
  BY AppendFacts
<1> HIDE DEF r
<1>2. ASSUME NEW w, Redoes(e, s, w)
      PROVE  w[0] = NewEnv(e) /\ w[n] = v /\ \A k \in 1 .. n : w[k] = Redo(e, w[k - 1], s[k])
  BY <1>1, <1>2 DEF Redone, Redoes
<1>3. \E w : Redoes(e, r, w)
  <2>1. PICK w : Redoes(e, s, w)
    BY DEF Redone
  <2> DEFINE u == [k \in 0 .. n + 1 |-> IF k = n + 1 THEN Redo(e, v, x) ELSE w[k]]
  <2>2. ASSUME NEW k \in 0 .. n + 1
        PROVE  u[k] = IF k = 0 THEN NewEnv(e) ELSE Redo(e, u[k - 1], r[k])
    <3>1. CASE k = 0
      BY <1>1, <1>2, <2>1, <3>1
    <3>2. CASE k \in 1 .. n
      <4>1. u[k] = w[k] /\ u[k - 1] = w[k - 1] /\ k # 0
        BY <1>1, <3>2
      <4> QED
        BY <1>1, <1>2, <2>1, <3>2, <4>1
    <3>3. CASE k = n + 1
      <4>1. u[k] = Redo(e, v, x) /\ u[k - 1] = w[n] /\ k # 0
        BY <1>1, <3>3
      <4> QED
        BY <1>1, <1>2, <2>1, <3>3, <4>1
    <3> QED
      BY <1>1, <3>1, <3>2, <3>3
  <2>3. u = [k \in 0 .. n + 1 |-> u[k]]
    OBVIOUS
  <2> HIDE DEF u
  <2>4. [k \in 0 .. n + 1 |-> u[k]]
        = [k \in 0 .. n + 1 |-> IF k = 0 THEN NewEnv(e) ELSE Redo(e, u[k - 1], r[k])]
    BY <2>2, Zenon
  <2> QED
    BY <1>1, <2>3, <2>4 DEF Redoes
<1>4. ASSUME NEW u, Redoes(e, r, u)
      PROVE  u[n + 1] = Redo(e, v, x)
  <2> DEFINE w == [k \in 0 .. n |-> u[k]]
  <2>1. \A k \in 0 .. n + 1 : u[k] = IF k = 0 THEN NewEnv(e) ELSE Redo(e, u[k - 1], r[k])
    BY <1>1, <1>4 DEF Redoes
  <2>2. ASSUME NEW k \in 0 .. n
        PROVE  u[k] = IF k = 0 THEN NewEnv(e) ELSE Redo(e, w[k - 1], s[k])
    BY <1>1, <2>1
  <2>3. w = [k \in 0 .. n |-> IF k = 0 THEN NewEnv(e) ELSE Redo(e, w[k - 1], s[k])]
    BY <2>2, Zenon
  <2>4. Redoes(e, s, w)
    BY <2>3, Zenon DEF Redoes
  <2>5. u[n] = v
    BY <1>1, <1>2, <2>4
  <2> QED
    BY <1>1, <2>1, <2>5
<1> QED
  BY <1>1, <1>3, <1>4 DEF Redone, r

\* What is carried is what the recount and the replay return.
LEMMA LoopsReturn ==
    ASSUME NEW e, NEW s
    PROVE  /\ \A t : Counted(e, s, t) => Recount(e, s) = t
           /\ \A v : Redone(e, s, v) => Replayed(e, s) = v
<1>1. ASSUME NEW t, Counted(e, s, t)
      PROVE  Recount(e, s) = t
  <2> DEFINE w == CHOOSE w : Tells(e, s, w)
  <2>1. Tells(e, s, w)
    BY <1>1 DEF Counted
  <2>2. Recount(e, s) = w[Len(s)]
    BY Zenon DEF Recount, Tells
  <2> QED
    BY <1>1, <2>1, <2>2 DEF Counted
<1>2. ASSUME NEW v, Redone(e, s, v)
      PROVE  Replayed(e, s) = v
  <2> DEFINE w == CHOOSE w : Redoes(e, s, w)
  <2>1. Redoes(e, s, w)
    BY <1>2 DEF Redone
  <2>2. Replayed(e, s) = w[Len(s)]
    BY Zenon DEF Replayed, Redoes
  <2> QED
    BY <1>2, <2>1, <2>2 DEF Redone
<1> QED
  BY <1>1, <1>2

-------------------------------------------------------------------------------
(* What every environment of a game confirms.                              *)

\* What the transcript's own count must come to.
Tally(e, v) == [state |-> v.state, tests |-> QueryCount(v), seen |-> e.opening \cup Tested(v.events)]

Confirmed(e, v) ==
    /\ v = [events |-> v.events, state |-> v.state, space |-> v.space]
    /\ Counted(e, v.events, Tally(e, v))
    /\ Redone(e, v.events, v)
    /\ QueryCount(v) \in 0 .. MaxTests
    /\ \A i \in Tests(v.events) : ValidMetrics(v.events[i].metrics)
    /\ \A i \in DOMAIN v.events : v.events[i].type = "answer" => ValidScore(e, v.events[i])
    /\ Over(v) => Len(v.events) >= 1

\* An environment that confirms all this passes the checks, and its replay is itself.
LEMMA ConfirmedIsLawful ==
    ASSUME NEW e, NEW v, Confirmed(e, v)
    PROVE  Lawful(e, v) /\ Replayed(e, v.events) = v
<1>1. Recount(e, v.events) = Tally(e, v) /\ Replayed(e, v.events) = v
  BY LoopsReturn DEF Confirmed
<1> QED
  BY <1>1 DEF Confirmed, Lawful, Tally

\* The law and the terminal koans of a retained episode.
Playable(e) ==
    /\ e.target \in Catalog
    /\ Cardinality(e.terminal) \in Nat \ {0}
    /\ IsFiniteSet(e.terminal)

LEMMA RetainedIsPlayable ==
    ASSUME NEW e \in Episodes, Retained(e)
    PROVE  Playable(e)
<1>1. e.target \in Catalog
  BY DEF Retained, ValidEpisode
<1>2. IsFiniteSet(e.terminal)
  BY GameConstants, QueryConstants, FS_Subset
<1>3. Cardinality(e.terminal) \in {8 * CellSize, TrainLikeSize}
  BY DEF Retained, ValidEpisode
<1> QED
  BY <1>1, <1>2, <1>3, GameConstants DEF Playable

\* A new environment confirms everything.
LEMMA NewEnvConfirms ==
    ASSUME NEW e
    PROVE  Confirmed(e, NewEnv(e))
<1> DEFINE v == NewEnv(e)
<1>1. v = [events |-> << >>, state |-> "inquiry", space |-> OpeningSpace(e)]
  BY DEF NewEnv
<1>2. Tests(<< >>) = {} /\ DOMAIN << >> = {}
  BY DEF Tests
<1>3. QueryCount(v) = 0 /\ Tested(<< >>) = {}
  BY <1>1, <1>2, FS_EmptySet DEF QueryCount, Tested
<1> HIDE DEF v
<1>4. Tally(e, v) = Untold(e)
  <2>1. v.state = "inquiry" /\ v.events = << >>
    BY <1>1
  <2>2. e.opening \cup Tested(v.events) = e.opening
    BY <1>3, <2>1
  <2> QED
    BY <1>3, <2>1, <2>2 DEF Tally, Untold
<1>5. Counted(e, << >>, Untold(e)) /\ Redone(e, << >>, v)
  BY NothingTold DEF v
<1>6. ~Over(v)
  BY <1>1 DEF Over
<1>7. 0 \in 0 .. MaxTests
  BY GameConstants
<1>8. Confirmed(e, v)
  BY <1>1, <1>2, <1>3, <1>4, <1>5, <1>6, <1>7 DEF Confirmed
<1> QED
  BY <1>8 DEF v

\* An event other than a test keeps an environment confirmed when the transcript
\* agrees to the state it leads to and the replay repeats it.
LEMMA RecordedConfirms ==
    ASSUME NEW e, NEW v, IsSeq(v.events), Confirmed(e, v),
           NEW x, x.type # "test", NEW state,
           Follow(e, Tally(e, v), x) = [Tally(e, v) EXCEPT !.state = state],
           Redo(e, v, x) = Recorded(v, x, state),
           x.type = "answer" => ValidScore(e, x)
    PROVE  Confirmed(e, Recorded(v, x, state))
<1> DEFINE w == Recorded(v, x, state)
<1>1. w = [events |-> Append(v.events, x), state |-> state, space |-> v.space]
  BY DEF Recorded, Narrowed
<1>2. /\ Len(v.events) \in Nat /\ DOMAIN v.events = 1 .. Len(v.events)
      /\ DOMAIN w.events = 1 .. Len(v.events) + 1 /\ Len(w.events) = Len(v.events) + 1
      /\ w.events[Len(v.events) + 1] = x
      /\ \A i \in 1 .. Len(v.events) : w.events[i] = v.events[i]
  BY <1>1, AppendFacts
<1>3. Tests(w.events) = Tests(v.events) /\ Tested(w.events) = Tested(v.events)
  BY <1>1, TestsAppend
<1>4. QueryCount(w) = QueryCount(v)
  BY <1>3 DEF QueryCount
<1>5. Tally(e, w) = [Tally(e, v) EXCEPT !.state = state]
  <2>1. w.state = state
    BY <1>1
  <2> HIDE DEF w
  <2> QED
    BY <1>3, <1>4, <2>1 DEF Tally
<1>6. Counted(e, w.events, Tally(e, w))
  <2>1. Counted(e, Append(v.events, x), Follow(e, Tally(e, v), x))
    BY CountedAppend DEF Confirmed
  <2> QED
    BY <1>1, <1>5, <2>1
<1>7. Redone(e, w.events, w)
  <2>1. Redone(e, Append(v.events, x), Redo(e, v, x))
    BY RedoneAppend DEF Confirmed
  <2> QED
    BY <1>1, <2>1
<1>8. \A i \in Tests(w.events) : w.events[i] = v.events[i]
  BY <1>2, <1>3 DEF Tests
<1>9. \A i \in Tests(w.events) : ValidMetrics(w.events[i].metrics)
  BY <1>3, <1>8 DEF Confirmed
<1>10. \A i \in DOMAIN w.events : w.events[i].type = "answer" => ValidScore(e, w.events[i])
  BY <1>2 DEF Confirmed
<1>11. w = [events |-> w.events, state |-> w.state, space |-> w.space]
  BY <1>1
<1>12. Len(w.events) >= 1
  BY <1>2
<1>13. QueryCount(w) \in 0 .. MaxTests
  BY <1>4 DEF Confirmed
<1> HIDE DEF w
<1> QED
  BY <1>6, <1>7, <1>9, <1>10, <1>11, <1>12, <1>13 DEF Confirmed, w

\* query_metrics passes the checks of QueryMetrics as long as the law is in the space.
LEMMA MetricsAreValid ==
    ASSUME NEW e, NEW v, v.space \in SUBSET Catalog, e.target \in v.space, NEW s
    PROVE  ValidMetrics(Metrics(e, v, s))
<1> DEFINE m == Metrics(e, v, s)
           best == CHOOSE t \in OptimalQueries(v.space, Scenes) : TRUE
           after == Observe(v.space, s, s \in e.target)
<1>1. /\ m.before = Cardinality(v.space) /\ m.accepted = Accepted(v.space, s)
      /\ m.rejected = Rejected(v.space, s) /\ m.best = Balance(v.space, best)
      /\ m.after = Cardinality(after)
  BY DEF Metrics
<1> HIDE DEF m, best
<1>2. /\ Accepted(v.space, s) \in Nat /\ Rejected(v.space, s) \in Nat
      /\ Cardinality(v.space) = Accepted(v.space, s) + Rejected(v.space, s)
  BY LabelCounts
<1>3. /\ Accepted(v.space, best) \in Nat /\ Rejected(v.space, best) \in Nat
      /\ Cardinality(v.space) = Accepted(v.space, best) + Rejected(v.space, best)
  BY LabelCounts
<1>4. /\ Balance(v.space, best) \in Nat
      /\ Balance(v.space, best) <= Accepted(v.space, best)
      /\ Balance(v.space, best) <= Rejected(v.space, best)
  BY BalanceIsBounded
<1>5. after \subseteq v.space /\ e.target \in after
  BY DEF Observe
<1> HIDE DEF after
<1>6. Cardinality(after) \in Nat /\ Cardinality(after) >= 1 /\ Cardinality(after) <= Cardinality(v.space)
  <2>1. IsFiniteSet(v.space)
    BY SpacesAreFinite
  <2>2. IsFiniteSet(after) /\ Cardinality(after) <= Cardinality(v.space)
    BY <1>5, <2>1, FS_Subset
  <2>3. Cardinality(after) \in Nat /\ Cardinality(after) # 0
    BY <1>5, <2>2, FS_CardinalityType, FS_EmptySet
  <2> QED
    BY <2>2, <2>3
<1>7. m.after \in 1 .. m.before /\ m.before >= 1
  BY <1>1, <1>2, <1>6
<1>8. m.rejected >= 0 /\ m.rejected + m.accepted = m.before
  BY <1>1, <1>2
<1>9. m.best \in 0 .. m.before \div 2
  <2>1. ASSUME NEW b \in Nat, NEW n \in Nat, 2 * b <= n
        PROVE  b \in 0 .. n \div 2
    BY <2>1
  <2>2. 2 * Balance(v.space, best) <= Cardinality(v.space) /\ Cardinality(v.space) \in Nat
    BY <1>3, <1>4
  <2> QED
    BY <1>1, <1>4, <2>1, <2>2
<1> QED
  BY <1>7, <1>8, <1>9 DEF ValidMetrics, m

\* A test keeps the environment confirmed: its flag, its duplicate mark and its
\* metrics are those the transcript derives on its own.
LEMMA TestConfirms ==
    ASSUME NEW e, NEW v, Sound(e, v), Confirmed(e, v), v.state = "inquiry", e.target \in Catalog,
           NEW a, a.move = "test"
    PROVE  Confirmed(e, ConsumeTest(e, v, a))
<1> DEFINE spent == BudgetSpent(QueryCount(v) + 1)
           x == [type |-> "test", action |-> a, accepted |-> a.koan \in e.target,
                 metrics |-> Metrics(e, v, a.koan), exhausted |-> spent]
           state == IF spent THEN "awaiting_answer" ELSE "inquiry"
           w == ConsumeTest(e, v, a)
           n == Len(v.events)
<1>1. w = [events |-> Append(v.events, x), state |-> state, space |-> SpaceAfter(e, v, a.koan)]
  BY DEF ConsumeTest, Narrowed
<1>2. /\ x.type = "test" /\ x.exhausted = spent /\ x.action = a
      /\ x.metrics = Metrics(e, v, a.koan)
      /\ x.metrics.duplicate = (a.koan \in e.opening \cup Tested(v.events))
  BY DEF Metrics
<1> HIDE DEF x
<1>3. IsSeq(v.events) /\ Tests(v.events) = DOMAIN v.events /\ n < MaxTests
  BY DEF Sound
<1>4. /\ n \in Nat /\ DOMAIN v.events = 1 .. n
      /\ Len(w.events) = n + 1 /\ DOMAIN w.events = 1 .. n + 1
      /\ w.events[n + 1] = x /\ \A i \in 1 .. n : w.events[i] = v.events[i]
  BY <1>1, <1>3, AppendFacts
<1>5. /\ Tests(w.events) = Tests(v.events) \cup {n + 1}
      /\ Tested(w.events) = Tested(v.events) \cup {a.koan}
  BY <1>1, <1>2, <1>3, TestsAppend
<1>6. QueryCount(v) = n /\ QueryCount(w) = n + 1
  <2>1. ASSUME NEW k \in Nat
        PROVE  Cardinality(1 .. k) = k
    BY FS_Interval
  <2>2. Tests(w.events) = 1 .. n + 1
    BY <1>3, <1>4, <1>5
  <2> QED
    BY <1>3, <1>4, <2>1, <2>2 DEF QueryCount
<1>7. Follow(e, Tally(e, v), x) = Tally(e, w)
  <2> DEFINE t == Tally(e, v)
  <2>1. t.state = "inquiry" /\ t.tests = n /\ t.seen = e.opening \cup Tested(v.events)
    BY <1>6 DEF Tally
  <2>2. spent = LastTest(n + 1)
    BY <1>6 DEF BudgetSpent, LastTest
  <2>3. w.state = IF LastTest(n + 1) THEN "awaiting_answer" ELSE "inquiry"
    BY <1>1, <2>2
  <2>4. Tally(e, w) = [state |-> IF LastTest(n + 1) THEN "awaiting_answer" ELSE "inquiry",
                       tests |-> n + 1, seen |-> t.seen \cup {a.koan}]
    <3> HIDE DEF w, n, t
    <3>1. e.opening \cup Tested(w.events) = t.seen \cup {a.koan}
      BY <1>5, <2>1
    <3> QED
      BY <1>6, <2>3, <3>1 DEF Tally
  <2>5. x.exhausted = LastTest(n + 1)
    BY <1>2, <2>2
  <2>6. x.metrics.duplicate = (x.action.koan \in t.seen)
    BY <1>2, <2>1
  <2> HIDE DEF t, spent, n
  <2>7. Follow(e, t, x) = [state |-> IF LastTest(n + 1) THEN "awaiting_answer" ELSE "inquiry",
                           tests |-> n + 1, seen |-> t.seen \cup {a.koan}]
    BY <1>2, <2>1, <2>5, <2>6 DEF Follow
  <2> QED
    BY <2>4, <2>7 DEF t
<1>8. Redo(e, v, x) = w
  BY <1>2 DEF Redo, Consume, Over
<1>9. Counted(e, w.events, Tally(e, w))
  <2>1. Counted(e, Append(v.events, x), Follow(e, Tally(e, v), x))
    BY <1>3, CountedAppend DEF Confirmed
  <2> QED
    BY <1>1, <1>7, <2>1
<1>10. Redone(e, w.events, w)
  <2>1. Redone(e, Append(v.events, x), Redo(e, v, x))
    BY <1>3, RedoneAppend DEF Confirmed
  <2> QED
    BY <1>1, <1>8, <2>1
<1>11. ValidMetrics(x.metrics)
  <2>1. v.space \in SUBSET Catalog /\ e.target \in v.space
    BY DEF Sound, ObserveMany
  <2> QED
    BY <1>2, <2>1, MetricsAreValid
<1>12. \A i \in Tests(w.events) : ValidMetrics(w.events[i].metrics)
  BY <1>3, <1>4, <1>5, <1>11 DEF Confirmed
<1>13. \A i \in DOMAIN w.events : w.events[i].type = "answer" => ValidScore(e, w.events[i])
  BY <1>2, <1>4 DEF Confirmed
<1>14. w = [events |-> w.events, state |-> w.state, space |-> w.space]
  BY <1>1
<1>15. QueryCount(w) \in 0 .. MaxTests /\ Len(w.events) >= 1
  BY <1>3, <1>4, <1>6, GameConstants
<1> HIDE DEF w
<1> QED
  BY <1>9, <1>10, <1>12, <1>13, <1>14, <1>15 DEF Confirmed, w

\* The score of an answer is one that TerminalScore accepts.
LEMMA AnswerScores ==
    ASSUME NEW e, NEW v, Playable(e), Confirmed(e, v), NEW a,
           NEW x, x = [type |-> "answer", action |-> a,
                       correct |-> Cardinality({s \in e.terminal : (s \in a.fits) = (s \in e.target)}),
                       equivalent |-> a.rule = e.target, queries |-> QueryCount(v)]
    PROVE  ValidScore(e, x)
<1> DEFINE right == {s \in e.terminal : (s \in a.fits) = (s \in e.target)}
<1>1. right \in SUBSET e.terminal
  OBVIOUS
<1>2. x.correct = Cardinality(right) /\ x.queries = QueryCount(v)
  OBVIOUS
<1> HIDE DEF right
<1>3. IsFiniteSet(right) /\ Cardinality(right) <= Cardinality(e.terminal)
  BY <1>1, FS_Subset DEF Playable
<1>4. Cardinality(right) \in Nat
  BY <1>3, FS_CardinalityType
<1> QED
  BY <1>2, <1>3, <1>4 DEF ValidScore, Playable, Confirmed

\* Whatever text is consumed, the environment stays confirmed.
LEMMA ConsumeConfirms ==
    ASSUME NEW e, NEW v, Playable(e), Sound(e, v), Confirmed(e, v), ~Over(v),
           NEW a, a.move \in Moves
    PROVE  Confirmed(e, Consume(e, v, a))
<1> DEFINE w == Consume(e, v, a)
           t == Tally(e, v)
<1>1. v.state \in {"inquiry", "awaiting_answer"} /\ IsSeq(v.events)
  BY DEF Sound, States, Over
<1>2. t.state = v.state /\ t.tests = QueryCount(v)
  BY DEF Tally
<1> HIDE DEF t
<1>3. ASSUME NEW x, NEW state, x.type \notin {"test", "abort"}, x.action = a,
             w = Recorded(v, x, state), Follow(e, t, x) = [t EXCEPT !.state = state],
             x.type = "answer" => ValidScore(e, x)
      PROVE  Confirmed(e, w)
  <2>1. Redo(e, v, x) = Recorded(v, x, state)
    BY <1>3 DEF Redo
  <2> HIDE DEF w
  <2> QED
    BY <1>1, <1>3, <2>1, RecordedConfirms DEF t
<1>4. ASSUME NEW code, w = Invalidate(v, a, code)
      PROVE  Confirmed(e, w)
  <2> DEFINE x == [type |-> "invalid", action |-> a, code |-> code]
  <2>1. w = Recorded(v, x, "invalid")
    BY <1>4 DEF Invalidate
  <2>2. x.type = "invalid" /\ x.action = a
    OBVIOUS
  <2> HIDE DEF x, w
  <2>3. Follow(e, t, x) = [t EXCEPT !.state = "invalid"]
    BY <1>1, <1>2, <2>2 DEF Follow
  <2> QED
    BY <1>3, <2>1, <2>2, <2>3
<1>5. CASE a.move = "garbled"
  <2>1. w = Invalidate(v, a, "invalid_json")
    BY <1>1, <1>5 DEF Consume, Over
  <2> QED
    BY <1>4, <2>1
<1>6. CASE a.move = "test" /\ v.state = "inquiry"
  <2>1. w = ConsumeTest(e, v, a)
    BY <1>6 DEF Consume, Over
  <2> QED
    BY <1>6, <2>1, TestConfirms DEF Playable
<1>7. CASE a.move = "ready" /\ v.state = "inquiry"
  <2> DEFINE x == [type |-> "ready", action |-> a, premature |-> Cardinality(v.space) > 1]
  <2>1. w = Recorded(v, x, "awaiting_answer")
    BY <1>7 DEF Consume, Over
  <2>2. x.type = "ready" /\ x.action = a
    OBVIOUS
  <2> HIDE DEF x, w
  <2>3. Follow(e, t, x) = [t EXCEPT !.state = "awaiting_answer"]
    BY <1>2, <1>7, <2>2 DEF Follow
  <2> QED
    BY <1>3, <2>1, <2>2, <2>3 DEF w
<1>8. CASE a.move = "answer" /\ v.state = "inquiry"
  <2>1. w = Invalidate(v, a, "unexpected_answer")
    BY <1>8 DEF Consume, Over
  <2> QED
    BY <1>4, <2>1
<1>9. CASE a.move \in {"test", "ready"} /\ v.state = "awaiting_answer"
  <2>1. w = Invalidate(v, a, "expected_answer")
    BY <1>9 DEF Consume, Over
  <2> QED
    BY <1>4, <2>1
<1>10. CASE a.move = "answer" /\ v.state = "awaiting_answer"
  <2>1. w = IF a.labels = Cardinality(e.terminal) THEN ConsumeAnswer(e, v, a)
            ELSE Invalidate(v, a, "wrong_classification_count")
    BY <1>10 DEF Consume, Over
  <2>2. CASE a.labels = Cardinality(e.terminal)
    <3> DEFINE x == [type |-> "answer", action |-> a,
                 correct |-> Cardinality({s \in e.terminal : (s \in a.fits) = (s \in e.target)}),
                 equivalent |-> a.rule = e.target, queries |-> QueryCount(v)]
    <3>1. w = Recorded(v, x, "complete")
      BY <2>1, <2>2 DEF ConsumeAnswer
    <3>2. x.type = "answer" /\ x.action = a /\ x.queries = QueryCount(v)
      OBVIOUS
    <3>3. ValidScore(e, x)
      BY AnswerScores
    <3> HIDE DEF x, w
    <3>4. Follow(e, t, x) = [t EXCEPT !.state = "complete"]
      BY <1>2, <1>10, <3>2 DEF Follow
    <3> QED
      BY <1>3, <3>1, <3>2, <3>3, <3>4 DEF w
  <2>3. CASE a.labels # Cardinality(e.terminal)
    BY <1>4, <2>1, <2>3
  <2> QED
    BY <2>2, <2>3
<1> QED
  BY <1>1, <1>5, <1>6, <1>7, <1>8, <1>9, <1>10 DEF Moves

\* So does the controller's abort.
LEMMA AbortConfirms ==
    ASSUME NEW e, NEW v, Sound(e, v), Confirmed(e, v), NEW reason
    PROVE  Confirmed(e, Abort(v, reason))
<1>1. CASE Over(v)
  BY <1>1 DEF Abort
<1>2. CASE ~Over(v)
  <2> DEFINE x == [type |-> "abort", action |-> [move |-> "abort", reason |-> reason]]
             t == Tally(e, v)
  <2>1. Abort(v, reason) = Recorded(v, x, "aborted")
    BY <1>2 DEF Abort
  <2>2. x.type = "abort" /\ x.action.reason = reason
    OBVIOUS
  <2>3. t.state \in {"inquiry", "awaiting_answer"}
    BY <1>2 DEF Tally, Sound, States, Over
  <2> HIDE DEF x, t
  <2>4. Follow(e, t, x) = [t EXCEPT !.state = "aborted"]
    BY <2>2, <2>3 DEF Follow
  <2>5. Redo(e, v, x) = Recorded(v, x, "aborted")
    BY <2>1, <2>2 DEF Redo
  <2>6. IsSeq(v.events) /\ x.type # "test" /\ x.type # "answer"
    BY <2>2 DEF Sound
  <2> QED
    BY <2>1, <2>4, <2>5, <2>6, RecordedConfirms DEF t
<1> QED
  BY <1>1, <1>2

-------------------------------------------------------------------------------
(* The texts of a policy and the events of its transcript.                 *)

\* Every text but no abort is an event, and as long as the game is open there
\* is no abort.
Aligned(v, texts) ==
    /\ IsSeq(texts)
    /\ Emitted(v.events) = 1 .. Len(texts)
    /\ \A i \in 1 .. Len(texts) : texts[i] = v.events[i].action
    /\ ~Over(v) => Len(v.events) = Len(texts)

LEMMA EmittedAppend ==
    ASSUME NEW s, IsSeq(s), NEW x
    PROVE  Emitted(Append(s, x)) = IF x.type = "abort" THEN Emitted(s) ELSE Emitted(s) \cup {Len(s) + 1}
<1> DEFINE r == Append(s, x)
<1>1. /\ Len(s) \in Nat /\ DOMAIN s = 1 .. Len(s) /\ DOMAIN r = 1 .. Len(s) + 1
      /\ r[Len(s) + 1] = x /\ \A i \in 1 .. Len(s) : r[i] = s[i]
  BY AppendFacts
<1> HIDE DEF r
<1>2. Emitted(r) = IF x.type = "abort" THEN Emitted(s) ELSE Emitted(s) \cup {Len(s) + 1}
  BY <1>1 DEF Emitted
<1> QED
  BY <1>2 DEF r

\* A consumed text is the action of the one event it leaves.
LEMMA ConsumeRecords ==
    ASSUME NEW e, NEW v, Sound(e, v), ~Over(v), NEW a, a.move \in Moves
    PROVE  \E x : x.type # "abort" /\ x.action = a /\ Consume(e, v, a).events = Append(v.events, x)
<1> DEFINE w == Consume(e, v, a)
           goal == \E x : x.type # "abort" /\ x.action = a /\ w.events = Append(v.events, x)
<1>1. v.state \in {"inquiry", "awaiting_answer"}
  BY DEF Sound, States, Over
<1>2. ASSUME NEW x, x.type # "abort", x.action = a, NEW state, w = Recorded(v, x, state)
      PROVE  goal
  BY <1>2 DEF Recorded, Narrowed
<1>3. ASSUME NEW code, w = Invalidate(v, a, code)
      PROVE  goal
  <2> DEFINE x == [type |-> "invalid", action |-> a, code |-> code]
  <2>1. w = Recorded(v, x, "invalid") /\ x.type # "abort" /\ x.action = a
    BY <1>3 DEF Invalidate
  <2> HIDE DEF x, w, goal
  <2> QED
    BY <1>2, <2>1
<1>4. CASE a.move = "garbled"
  <2>1. w = Invalidate(v, a, "invalid_json")
    BY <1>1, <1>4 DEF Consume, Over
  <2> QED
    BY <1>3, <2>1
<1>5. CASE a.move = "test" /\ v.state = "inquiry"
  <2> DEFINE x == [type |-> "test", action |-> a, accepted |-> a.koan \in e.target,
                   metrics |-> Metrics(e, v, a.koan),
                   exhausted |-> BudgetSpent(QueryCount(v) + 1)]
  <2>1. w = ConsumeTest(e, v, a)
    BY <1>5 DEF Consume, Over
  <2>2. w.events = Append(v.events, x)
    BY <2>1 DEF ConsumeTest, Narrowed
  <2>3. x.type # "abort" /\ x.action = a
    OBVIOUS
  <2> HIDE DEF x, w
  <2>4. goal
    BY <2>2, <2>3
  <2> QED
    BY <2>4 DEF w
<1>6. CASE a.move = "ready" /\ v.state = "inquiry"
  <2> DEFINE x == [type |-> "ready", action |-> a, premature |-> Cardinality(v.space) > 1]
  <2>1. w = Recorded(v, x, "awaiting_answer") /\ x.type # "abort" /\ x.action = a
    BY <1>6 DEF Consume, Over
  <2> HIDE DEF x, w
  <2>2. goal
    BY <1>2, <2>1
  <2> QED
    BY <2>2 DEF w
<1>7. CASE a.move = "answer" /\ v.state = "inquiry"
  <2>1. w = Invalidate(v, a, "unexpected_answer")
    BY <1>7 DEF Consume, Over
  <2> QED
    BY <1>3, <2>1
<1>8. CASE a.move \in {"test", "ready"} /\ v.state = "awaiting_answer"
  <2>1. w = Invalidate(v, a, "expected_answer")
    BY <1>8 DEF Consume, Over
  <2> QED
    BY <1>3, <2>1
<1>9. CASE a.move = "answer" /\ v.state = "awaiting_answer"
  <2>1. w = IF a.labels = Cardinality(e.terminal) THEN ConsumeAnswer(e, v, a)
            ELSE Invalidate(v, a, "wrong_classification_count")
    BY <1>9 DEF Consume, Over
  <2> DEFINE x == [type |-> "answer", action |-> a,
               correct |-> Cardinality({s \in e.terminal : (s \in a.fits) = (s \in e.target)}),
               equivalent |-> a.rule = e.target, queries |-> QueryCount(v)]
  <2>2. CASE a.labels = Cardinality(e.terminal)
    <3>1. w = Recorded(v, x, "complete") /\ x.type # "abort" /\ x.action = a
      BY <2>1, <2>2 DEF ConsumeAnswer
    <3> HIDE DEF x, w
    <3>2. goal
      BY <1>2, <3>1
    <3> QED
      BY <3>2 DEF w
  <2>3. CASE a.labels # Cardinality(e.terminal)
    BY <1>3, <2>1, <2>3
  <2> QED
    BY <2>2, <2>3
<1> QED
  BY <1>1, <1>4, <1>5, <1>6, <1>7, <1>8, <1>9 DEF Moves

\* A turn of the policy keeps its texts aligned with the transcript.
LEMMA TurnAligns ==
    ASSUME NEW e, NEW v, Sound(e, v), ~Over(v), NEW a, a.move \in Moves,
           NEW texts, Aligned(v, texts)
    PROVE  Aligned(Consume(e, v, a), Append(texts, a))
<1> DEFINE w == Consume(e, v, a)
           more == Append(texts, a)
           n == Len(texts)
<1>1. PICK x : x.type # "abort" /\ x.action = a /\ w.events = Append(v.events, x)
  BY ConsumeRecords
<1>2. /\ n \in Nat /\ IsSeq(more) /\ Len(more) = n + 1
      /\ more[n + 1] = a /\ \A i \in 1 .. n : more[i] = texts[i]
  BY AppendFacts DEF Aligned
<1>3. /\ IsSeq(v.events) /\ Len(v.events) = n
  BY DEF Aligned, Sound
<1> HIDE DEF w, more
<1>4. /\ Len(w.events) = n + 1 /\ w.events[n + 1] = x
      /\ \A i \in 1 .. n : w.events[i] = v.events[i]
  BY <1>1, <1>3, AppendFacts
<1>5. Emitted(w.events) = Emitted(v.events) \cup {n + 1}
  BY <1>1, <1>3, EmittedAppend
<1>6. Emitted(w.events) = 1 .. n + 1
  BY <1>2, <1>5 DEF Aligned
<1>7. \A i \in 1 .. n + 1 : more[i] = w.events[i].action
  BY <1>1, <1>2, <1>4 DEF Aligned
<1>8. Aligned(w, more)
  BY <1>2, <1>4, <1>6, <1>7 DEF Aligned
<1> QED
  BY <1>8 DEF w, more

\* An abort adds an event that has no text.
LEMMA AbortAligns ==
    ASSUME NEW e, NEW v, Sound(e, v), NEW reason, NEW texts, Aligned(v, texts)
    PROVE  Aligned(Abort(v, reason), texts)
<1>1. CASE Over(v)
  BY <1>1 DEF Abort
<1>2. CASE ~Over(v)
  <2> DEFINE x == [type |-> "abort", action |-> [move |-> "abort", reason |-> reason]]
             w == Abort(v, reason)
  <2>1. w.events = Append(v.events, x) /\ w.state = "aborted" /\ x.type = "abort"
    BY <1>2 DEF Abort, Recorded, Narrowed
  <2> HIDE DEF x, w
  <2>2. IsSeq(v.events)
    BY DEF Sound
  <2>3. /\ DOMAIN v.events = 1 .. Len(v.events)
        /\ \A i \in 1 .. Len(v.events) : w.events[i] = v.events[i]
    BY <2>1, <2>2, AppendFacts
  <2>4. Emitted(w.events) = Emitted(v.events)
    BY <2>1, <2>2, EmittedAppend
  <2>5. Emitted(v.events) \subseteq DOMAIN v.events
    BY DEF Emitted
  <2>6. Over(w)
    BY <2>1 DEF Over
  <2>7. \A i \in 1 .. Len(texts) : texts[i] = w.events[i].action
    BY <2>3, <2>5 DEF Aligned
  <2>8. Aligned(w, texts)
    BY <2>4, <2>6, <2>7 DEF Aligned
  <2> QED
    BY <2>8 DEF w
<1> QED
  BY <1>1, <1>2

-------------------------------------------------------------------------------
(* Rewards.                                                                *)

\* The reward of a scored answer is a fraction in [0, 1].
LEMMA RewardIsAFraction ==
    ASSUME NEW e, NEW v, Playable(e), Sound(e, v), Confirmed(e, v), Over(v)
    PROVE  Reward(e, v.events) \in 0 .. Whole(e)
<1> DEFINE final == Last(v.events)
           T == Cardinality(e.terminal)
           c == final.correct
           q == final.queries
<1>1. T \in Nat \ {0} /\ MaxTests \in Nat \ {0}
  BY GameConstants DEF Playable
<1>2. Len(v.events) \in DOMAIN v.events
  BY AppendFacts DEF Sound, Confirmed
<1>3. Whole(e) = 20 * (MaxTests * T) /\ MaxTests * T \in Nat
  BY <1>1 DEF Whole
<1>4. CASE final.type # "answer"
  <2>1. Reward(e, v.events) = 0
    BY <1>4 DEF Reward
  <2> QED
    BY <1>3, <2>1
<1>5. CASE final.type = "answer"
  <2>1. ValidScore(e, final)
    BY <1>2, <1>5 DEF Confirmed, Last
  <2>2. c \in 0 .. T /\ q \in 0 .. MaxTests
    BY <2>1 DEF ValidScore
  <2>3. Reward(e, v.events) = 14 * MaxTests * c + (IF final.equivalent THEN 5 * MaxTests * T ELSE 0)
                              + (MaxTests - q) * T
    BY <1>5 DEF Reward
  <2> HIDE DEF final, c, q, T
  <2>4. ASSUME NEW m \in Nat, NEW k \in Nat, NEW b \in 0 .. k
        PROVE  m * b \in 0 .. m * k
    <3>1. m * k = m * b + m * (k - b)
      OBVIOUS
    <3>2. m * b \in Nat /\ m * (k - b) \in Nat
      OBVIOUS
    <3> QED
      BY <3>1, <3>2
  <2>5. MaxTests * c \in 0 .. MaxTests * T
    BY <1>1, <2>2, <2>4
  <2>6. (MaxTests - q) * T \in 0 .. MaxTests * T
    <3>1. T * (MaxTests - q) \in 0 .. T * MaxTests
      BY <1>1, <2>2, <2>4
    <3> QED
      BY <1>1, <2>2, <3>1
  <2>7. 14 * MaxTests * c = 14 * (MaxTests * c) /\ 5 * MaxTests * T = 5 * (MaxTests * T)
    BY <1>1, <2>2
  <2> QED
    BY <1>3, <2>3, <2>5, <2>6, <2>7
<1> QED
  BY <1>4, <1>5

\* A finished and aligned game can be recorded.
LEMMA FinishedGameIsRecorded ==
    ASSUME NEW e, NEW v, Playable(e), Sound(e, v), Confirmed(e, v), Over(v),
           NEW texts, Aligned(v, texts)
    PROVE  ValidRecord(e, v, texts)
<1> DEFINE n == Len(texts)
           emitted == Emitted(v.events)
<1>1. emitted = 1 .. n /\ n \in Nat
  BY AppendFacts DEF Aligned
<1>2. \A k \in Nat : Cardinality(1 .. k) = k
  BY FS_Interval
<1>3. Cardinality(emitted) = n
  BY <1>1, <1>2
<1>4. ASSUME NEW i \in emitted
      PROVE  texts[Cardinality({j \in emitted : j <= i})] = v.events[i].action
  <2>1. {j \in emitted : j <= i} = 1 .. i /\ i \in Nat
    BY <1>1
  <2>2. Cardinality(1 .. i) = i
    BY <1>2, <2>1
  <2> QED
    BY <1>1, <2>1, <2>2 DEF Aligned
<1>5. Reward(e, v.events) \in 0 .. Whole(e)
  BY RewardIsAFraction
<1> QED
  BY <1>3, <1>4, <1>5 DEF ValidRecord

-------------------------------------------------------------------------------
(* Nothing raises.                                                         *)

\* The last event of a complete game is the perfect answer.
Perfect(e, v) ==
    LET final == Last(v.events) IN
    /\ final.type = "answer"
    /\ final.correct = Cardinality(e.terminal) /\ final.equivalent
    /\ final.queries = QueryCount(v)

\* The reference player is never invalid and never aborted.
OnCourse(e, v) ==
    /\ v.state \in {"inquiry", "awaiting_answer", "complete"}
    /\ v.state = "complete" => Perfect(e, v)

\* Where an exception comes from: the comparison of two doubles, at the end of
\* a reference game.
OnlyRoundingRaises ==
    pc = "raised" => controller = "reference" /\ Over(env) /\ Rounding[QueryCount(env)] # 0

PlayInv ==
    /\ Playable(episode)
    /\ Confirmed(episode, env)
    /\ controller = "policy" => Aligned(env, turns)
    /\ controller = "reference" => OnCourse(episode, env)
    /\ OnlyRoundingRaises

\* The answer that names the law and its own labels is perfect.
LEMMA PerfectAnswer ==
    ASSUME NEW e, NEW v, Sound(e, v), v.state = "awaiting_answer",
           NEW a, a = [move |-> "answer", rule |-> e.target, fits |-> e.target \cap e.terminal,
                       labels |-> Cardinality(e.terminal)]
    PROVE  Consume(e, v, a).state = "complete" /\ Perfect(e, Consume(e, v, a))
<1> DEFINE w == Consume(e, v, a)
           right == {s \in e.terminal : (s \in a.fits) = (s \in e.target)}
           x == [type |-> "answer", action |-> a, correct |-> Cardinality(right),
                 equivalent |-> a.rule = e.target, queries |-> QueryCount(v)]
<1>1. w = ConsumeAnswer(e, v, a)
  BY DEF Consume, Over
<1>2. w = Recorded(v, x, "complete")
  BY <1>1 DEF ConsumeAnswer
<1>3. right = e.terminal
  OBVIOUS
<1>4. /\ x.type = "answer" /\ x.correct = Cardinality(e.terminal)
      /\ x.equivalent /\ x.queries = QueryCount(v)
  BY <1>3
<1> HIDE DEF w, x
<1>5. w.events = Append(v.events, x) /\ w.state = "complete" /\ SameTests(v, w)
  <2>1. x.type \in EventTypes \ {"test"} /\ "complete" \in States \ {"inquiry"}
    BY <1>4 DEF EventTypes, States
  <2> QED
    BY <1>2, <2>1, RecordedIsSound
<1>6. Last(w.events) = x
  <2>1. IsSeq(v.events)
    BY DEF Sound
  <2> QED
    BY <1>5, <2>1, AppendFacts DEF Last
<1>7. QueryCount(w) = QueryCount(v)
  BY <1>5 DEF SameTests, QueryCount
<1>8. w.state = "complete" /\ Perfect(e, w)
  BY <1>4, <1>5, <1>6, <1>7 DEF Perfect
<1> QED
  BY <1>8 DEF w

\* A perfect answer is paid exactly (20 * MaxTests - q) / (20 * MaxTests).
LEMMA PerfectReward ==
    ASSUME Playable(episode), Confirmed(episode, env), Perfect(episode, env)
    PROVE  Reward(episode, env.events) = ExactReward(QueryCount(env))
<1> DEFINE T == Cardinality(episode.terminal)
           q == QueryCount(env)
           final == Last(env.events)
<1>1. T \in Nat /\ MaxTests \in Nat /\ q \in 0 .. MaxTests
  BY GameConstants DEF Playable, Confirmed
<1>2. Reward(episode, env.events) = 14 * MaxTests * T + 5 * MaxTests * T + (MaxTests - q) * T
  BY DEF Perfect, Reward
<1>3. ExactReward(q) = (20 * MaxTests - q) * T
  BY DEF ExactReward
<1> HIDE DEF T, q
<1>4. 14 * MaxTests * T + 5 * MaxTests * T + (MaxTests - q) * T = (20 * MaxTests - q) * T
  BY <1>1
<1> QED
  BY <1>2, <1>3, <1>4 DEF q

\* Every step of a policy keeps the invariant, and raises nothing.
LEMMA PolicyPlays ==
    ASSUME GameInv, PlayInv, Sample \/ PolicyAborts \/ Record
    PROVE  PlayInv'
<1>1. controller = "policy" /\ controller' = controller /\ episode' = episode
  BY DEF Sample, PolicyAborts, Record, Plays
<1>2. /\ Sound(episode, env) /\ Confirmed(episode, env) /\ Playable(episode) /\ Aligned(env, turns)
  BY <1>1 DEF GameInv, PlayInv
<1>3. Confirmed(episode, env') /\ Aligned(env', turns') /\ (Record => Over(env') /\ Sound(episode, env'))
  <2>1. CASE Sample
    <3>1. PICK text \in Texts : env' = Consume(episode, env, text) /\ turns' = Append(turns, text)
      BY <2>1 DEF Sample
    <3>2. text.move \in Moves /\ ~Over(env) /\ ~Record
      BY <2>1 DEF Texts, Moves, Sample, Record, Continues
    <3> QED
      BY <1>2, <3>1, <3>2, ConsumeConfirms, TurnAligns
  <2>2. CASE PolicyAborts \/ Record
    <3>1. PICK reason : env' = Abort(env, reason)
      BY <2>2 DEF PolicyAborts, Record
    <3>2. turns' = turns
      BY <2>2 DEF PolicyAborts, Record
    <3> QED
      BY <1>2, <3>1, <3>2, AbortConfirms, AbortAligns, AbortIsSound
  <2> QED
    BY <2>1, <2>2
<1>4. Lawful(episode, env') /\ Replayed(episode, env'.events) = env'
  BY <1>3, ConfirmedIsLawful
<1>5. Record => ValidRecord(episode, env', turns)
  <2>1. Record => turns' = turns
    BY DEF Record
  <2> QED
    BY <1>2, <1>3, <2>1, FinishedGameIsRecorded
<1>6. pc' # "raised"
  BY <1>4, <1>5 DEF Sample, PolicyAborts, Record
<1> QED
  BY <1>1, <1>2, <1>3, <1>6 DEF PlayInv, OnlyRoundingRaises, Playable, Confirmed, Aligned, Over, Emitted

\* So does every step of the reference player but, perhaps, its last.
LEMMA ReferencePlays ==
    ASSUME GameInv, PlayInv, ReferenceTests \/ ReferenceReady \/ ReferenceAnswers
    PROVE  /\ Confirmed(episode, env') /\ OnCourse(episode, env') /\ pc' # "raised"
           /\ controller = "reference"
<1>1. /\ controller = "reference" /\ Sound(episode, env) /\ Confirmed(episode, env)
      /\ Playable(episode)
  BY DEF GameInv, PlayInv, ReferenceTests, ReferenceReady, ReferenceAnswers, Plays
<1>2. ASSUME NEW a, a.move \in Moves, ~Over(env), env' = Consume(episode, env, a)
      PROVE  Confirmed(episode, env') /\ Lawful(episode, env')
  BY <1>1, <1>2, ConsumeConfirms, ConfirmedIsLawful
<1>3. CASE ReferenceTests
  <2>1. PICK s : env' = Consume(episode, env, [move |-> "test", koan |-> s])
    BY <1>3 DEF ReferenceTests
  <2> DEFINE a == [move |-> "test", koan |-> s]
  <2>2. a.move \in Moves /\ a.move = "test" /\ env.state = "inquiry" /\ ~Over(env)
    BY <1>3 DEF ReferenceTests, Inquiring, Over, Moves
  <2> HIDE DEF a
  <2>3. env' = ConsumeTest(episode, env, a)
    BY <2>1, <2>2 DEF Consume, a
  <2>4. env'.state \in {"inquiry", "awaiting_answer"}
    BY <2>3 DEF ConsumeTest, Narrowed
  <2>5. Confirmed(episode, env') /\ Lawful(episode, env')
    BY <1>2, <2>1, <2>2 DEF a
  <2> QED
    BY <1>1, <1>3, <2>4, <2>5 DEF OnCourse, ReferenceTests
<1>4. CASE ReferenceReady
  <2> DEFINE a == [move |-> "ready"]
  <2>1. a.move \in Moves /\ a.move = "ready" /\ env.state = "inquiry" /\ ~Over(env)
        /\ env' = Consume(episode, env, a)
    BY <1>4 DEF ReferenceReady, Over, Moves
  <2> HIDE DEF a
  <2>2. env'.state = "awaiting_answer"
    BY <2>1 DEF Consume, Recorded, Narrowed
  <2>3. Confirmed(episode, env') /\ Lawful(episode, env')
    BY <1>2, <2>1
  <2> QED
    BY <1>1, <1>4, <2>2, <2>3 DEF OnCourse, ReferenceReady
<1>5. CASE ReferenceAnswers
  <2> DEFINE a == [move |-> "answer", rule |-> episode.target,
                   fits |-> episode.target \cap episode.terminal,
                   labels |-> Cardinality(episode.terminal)]
  <2>1. a.move \in Moves
    BY DEF Moves
  <2>2. ~Over(env) /\ env.state # "inquiry" /\ env' = Consume(episode, env, a)
    BY <1>5 DEF ReferenceAnswers
  <2>3. env.state = "awaiting_answer"
    BY <1>1, <2>2 DEF Sound, States, Over
  <2>4. env'.state = "complete" /\ Perfect(episode, env')
    BY <1>1, <2>2, <2>3, PerfectAnswer
  <2> HIDE DEF a
  <2>5. Confirmed(episode, env') /\ Lawful(episode, env')
    BY <1>2, <2>1, <2>2
  <2> QED
    BY <1>1, <1>5, <2>4, <2>5 DEF OnCourse, ReferenceAnswers
<1> QED
  BY <1>3, <1>4, <1>5

\* Recording a reference game raises only by the comparison of the doubles.
LEMMA ReferenceRecords ==
    ASSUME GameInv, PlayInv, RecordReference
    PROVE  pc' = "raised" => Over(env) /\ Rounding[QueryCount(env)] # 0
<1>1. /\ controller = "reference" /\ Over(env) /\ Confirmed(episode, env) /\ Playable(episode)
      /\ OnCourse(episode, env)
  BY DEF RecordReference, Plays, PlayInv
<1>2. Perfect(episode, env)
  BY <1>1 DEF OnCourse, Over
<1>3. Replayed(episode, env.events) = env
  BY <1>1, ConfirmedIsLawful
<1>4. Reward(episode, env.events) = ExactReward(QueryCount(env))
  BY <1>1, <1>2, PerfectReward
<1> QED
  BY <1>1, <1>2, <1>3, <1>4 DEF RecordReference, Perfect

LEMMA PlayInvStep ==
    ASSUME GameInv, PlayInv, [Next]_vars
    PROVE  PlayInv'
<1> USE DEF OnlyRoundingRaises
<1>1. CASE UNCHANGED vars \/ Returned
  <2>1. UNCHANGED <<episode, controller, env, turns>> /\ pc' = pc
    BY <1>1 DEF vars, Returned
  <2> QED
    BY <2>1 DEF PlayInv, Playable, Confirmed, Tally, Aligned, Emitted, OnCourse, Perfect,
                Over, QueryCount, Tests, Tested
<1>2. CASE Sample \/ PolicyAborts \/ Record
  BY <1>2, PolicyPlays
<1>3. CASE ReferenceTests \/ ReferenceReady \/ ReferenceAnswers
  <2>1. episode' = episode /\ controller' = controller /\ Playable(episode)
    BY <1>3 DEF ReferenceTests, ReferenceReady, ReferenceAnswers, PlayInv
  <2>2. Confirmed(episode, env') /\ OnCourse(episode, env') /\ pc' # "raised" /\ controller = "reference"
    BY <1>3, ReferencePlays
  <2> QED
    BY <2>1, <2>2 DEF PlayInv, Playable, Confirmed, OnCourse, Perfect
<1>4. CASE RecordReference
  <2>1. UNCHANGED <<episode, controller, env, turns>> /\ controller = "reference"
    BY <1>4 DEF RecordReference, Plays
  <2>2. pc' = "raised" => Over(env) /\ Rounding[QueryCount(env)] # 0
    BY <1>4, ReferenceRecords
  <2> QED
    BY <2>1, <2>2 DEF PlayInv, Playable, Confirmed, Tally, Aligned, Emitted, OnCourse, Perfect,
                      Over, QueryCount, Tests, Tested
<1> QED
  BY <1>1, <1>2, <1>3, <1>4 DEF Next

LEMMA PlayInvInit ==
    ASSUME Init
    PROVE  PlayInv
<1>1. Playable(episode) /\ Confirmed(episode, env)
  BY RetainedIsPlayable, NewEnvConfirms DEF Init
<1>2. env.events = << >> /\ env.state = "inquiry" /\ turns = << >> /\ pc = "play"
  BY DEF Init, NewEnv
<1>3. Aligned(env, turns)
  <2>1. IsSeq(<< >>) /\ Len(<< >>) = 0 /\ DOMAIN << >> = {}
    <3>1. << >> \in Seq({})
      OBVIOUS
    <3> QED
      BY <3>1 DEF IsSeq
  <2> QED
    BY <1>2, <2>1 DEF Aligned, Emitted
<1> QED
  BY <1>1, <1>2, <1>3 DEF PlayInv, OnCourse, OnlyRoundingRaises

\* For every catalog, episode, budget, policy and tie break, the environment, the
\* transcript's own recount, the replay and the record agree: the one exception
\* that can be raised is the one about the reference player's reward as a double
\* (collect_rollout, play_reference_episode, _record_for_episode).
THEOREM OnlyTheDoublesDisagree == Spec => []OnlyRoundingRaises
<1>1. Init => PlayInv
  BY PlayInvInit
<1>2. GameInv /\ PlayInv /\ [Next]_vars => PlayInv'
  BY PlayInvStep
<1>3. PlayInv => OnlyRoundingRaises
  BY DEF PlayInv
<1> QED
  BY <1>1, <1>2, <1>3, GameInvariance, PTL DEF Spec

\* Where the two doubles are equal for every number of tests, or no reference
\* game is played, no play at all makes the controller raise.
THEOREM NothingRaises ==
    ASSUME "reference" \in Controllers => \A n \in 0 .. MaxTests : Rounding[n] = 0
    PROVE  Spec => []NeverRaises
<1>1. Init => PlayInv
  BY PlayInvInit
<1>2. GameInv /\ PlayInv /\ [Next]_vars => PlayInv'
  BY PlayInvStep
<1>3. GameInv /\ PlayInv => NeverRaises
  BY DEF GameInv, PlayInv, Confirmed, OnlyRoundingRaises, NeverRaises
<1> QED
  BY <1>1, <1>2, <1>3, GameInvariance, PTL DEF Spec

\* A question that is left while several rules remain: an unseen scene on which
\* two of them differ.
AQuestionIsLeft == Inquiring => \E s \in Unobserved : Balance(env.space, s) >= 1

\* optimal_legal_query, which refuses an empty choice, is never called with one,
\* and its best question always narrows the space (play_reference_episode).
THEOREM ReferenceFindsAQuestion == Spec => []AQuestionIsLeft
<1>1. ASSUME GameInv, Inquiring
      PROVE  \E s \in Unobserved : Balance(env.space, s) >= 1
  <2>1. env.space = ObserveMany(Catalog, episode.opening \cup Tested(env.events), episode.target)
    BY <1>1 DEF GameInv, Sound
  <2>2. env.space \in SUBSET Catalog /\ Cardinality(env.space) > 1
    BY <1>1, <2>1 DEF ObserveMany, Inquiring
  <2>3. PICK s \in Scenes : \E r, q \in env.space : s \in r /\ s \notin q
    BY <2>2, SeveralRulesCanBeSplit
  <2>4. s \in Unobserved
    BY <2>1, <2>3 DEF ObserveMany, Unobserved
  <2>5. Balance(env.space, s) >= 1
    BY <2>2, <2>3, DisagreementHasBalance
  <2> QED
    BY <2>4, <2>5
<1>2. GameInv => AQuestionIsLeft
  BY <1>1 DEF AQuestionIsLeft
<1> QED
  BY <1>2, GameInvariance, PTL

\* The version space that an opening leaves, and every smaller one inside it, is
\* given its true depths by the pruned search, whatever the catalog, the scenes and
\* the ceiling (exact_minimax_identification_depth).
THEOREM CertificatesAreExact == Spec => []MinimaxIsExact
<1>1. ASSUME GameInv
      PROVE  MinimaxIsExact
  <2>1. env.space \subseteq Catalog
    BY <1>1 DEF GameInv, Sound, ObserveMany
  <2>2. MaxDepth \in Nat
    BY GameConstants
  <2>3. \A space \in SUBSET env.space : FeasibleDepths(space, MaxDepth) = IdentifiableDepths(space, MaxDepth)
    BY <2>1, <2>2, SearchIsExact
  <2> QED
    BY <2>3 DEF MinimaxIsExact
<1> QED
  BY <1>1, GameInvariance, PTL

===============================================================================
