------------------------------ MODULE ZendoGame ------------------------------
(***************************************************************************)
(* One hidden-law game and what is recorded of it: HiddenLawEnvironment    *)
(* and its transcript, collect_rollout with its replay checks, and the     *)
(* reference trajectories (environment.py, transcripts.py, episodes.py,    *)
(* rollouts.py and trajectory_banks.py of goalzendo_interactive).          *)
(*                                                                         *)
(* The policy is the adversary: on every turn it may emit any text, or the *)
(* controller may report that it emitted none.  A text is the action that  *)
(* parse_action reads from it, or garbled.  Digests, prompts and token     *)
(* statistics are left out: they are functions of what is modelled, or     *)
(* carried along.                                                          *)
(***************************************************************************)
EXTENDS ZendoQuery, Integers, Sequences, SequencesExt

CONSTANTS
    Sun,            \* the scenes whose placard shows the sun
    Pieces,         \* rules that do not look at the placard: [one, two] literals
    Episodes,       \* candidate episodes
    OpeningSize,    \* 10 in the code
    TrainLikeSize,  \* 10
    CellSize,       \* scenes per cell of a factorial terminal: 2
    MinCell,        \* scenes per target-by-shadow cell: 128
    MinSpace,       \* rules the opening leaves: 8 ..
    MaxSpace,       \* .. 64
    MaxDepth,       \* maximum_minimax_depth
    MaxTests,       \* MAX_TEST_MOVES: 6
    Rounding,       \* per number of tests: units in the last place between the
                    \* two doubles that _record_for_episode compares
    Koans,          \* the scenes a policy tests
    Answers,        \* the rules a policy answers with
    Controllers     \* who plays: "policy", "reference"

ASSUME GameConstants ==
    /\ Sun \subseteq Scenes /\ Koans \subseteq Scenes
    /\ Answers \subseteq SUBSET Scenes
    /\ Controllers \subseteq {"policy", "reference"}
    /\ MaxTests \in Nat \ {0} /\ Rounding \in [0 .. MaxTests -> Int]
    /\ \A e \in Episodes : e.opening \subseteq Scenes /\ e.terminal \subseteq Scenes
    /\ \A n \in {OpeningSize, MinCell, MinSpace, MaxSpace, MaxDepth} : n \in Nat
    /\ TrainLikeSize \in Nat \ {0} /\ CellSize \in Nat \ {0}

VARIABLES
    episode,    \* the HiddenEpisode
    controller, \* collect_rollout or play_reference_episode
    env,        \* the environment: its transcript's events and state, its version space
    turns,      \* the texts the policy emitted
    pc          \* "play", "kept" (recorded) or "raised"

vars == <<episode, controller, env, turns, pc>>

-------------------------------------------------------------------------------
(* HiddenEpisode and its validation.                                       *)

OpeningSpace(e) == ObserveMany(Catalog, e.opening, e.target)

\* _target_shadow_cells: the size of each of the four cells
Cell(e, y, q) == Cardinality({s \in Scenes : (s \in e.target) = y /\ (s \in e.shadow) = q})

Agreement(e, scenes, rule) == Cardinality({s \in scenes : (s \in rule) = (s \in e.target)})

\* _validate_proxy_pattern
ProxyPattern(e, scenes) ==
    LET n == Cardinality(scenes)
        errors == {s \in scenes : (s \in e.shadow) # (s \in e.target)} IN
    IF e.regime = "perfect_ambiguity"
    THEN Agreement(e, scenes, Sun) = n /\ Agreement(e, scenes, e.shadow) = n
    ELSE /\ Agreement(e, scenes, Sun) = n - 1
         /\ Agreement(e, scenes, e.shadow) = n - 2
         /\ {s \in e.target : s \in errors} # {} /\ errors \ e.target # {}

Balanced(e, scenes) == 2 * Cardinality(scenes \cap e.target) = Cardinality(scenes)

\* HiddenEpisode.__post_init__
ValidEpisode(e) ==
    /\ e.target \in Catalog \cap Pieces.two /\ e.shadow \in Catalog \cap Pieces.one
    /\ e.target # e.shadow
    /\ \A y, q \in BOOLEAN : Cell(e, y, q) >= MinCell
    /\ LET differ == 100 * (Cell(e, FALSE, TRUE) + Cell(e, TRUE, FALSE)) IN
        35 * Cardinality(Scenes) <= differ /\ differ <= 65 * Cardinality(Scenes)
    /\ e.opening \cap e.terminal = {}
    /\ Cardinality(e.opening) = OpeningSize /\ Balanced(e, e.opening)
    /\ ProxyPattern(e, e.opening)
    /\ \/ /\ e.kind = "factorial"
          /\ Cardinality(e.terminal) = 8 * CellSize
          /\ \A y, p, q \in BOOLEAN :
                Cardinality({s \in e.terminal : /\ (s \in e.target) = y
                                                /\ (s \in Sun) = p
                                                /\ (s \in e.shadow) = q}) = CellSize
       \/ /\ e.kind = "train_like"
          /\ Cardinality(e.terminal) = TrainLikeSize /\ Balanced(e, e.terminal)
          /\ ProxyPattern(e, e.terminal)
    /\ e.target \in OpeningSpace(e)
    /\ Cardinality(OpeningSpace(e)) \in MinSpace .. MaxSpace

\* _generate_one keeps the episodes a tree of the configured depth identifies.
Retained(e) == ValidEpisode(e) /\ FeasibleDepths(OpeningSpace(e), MaxDepth) # {}

-------------------------------------------------------------------------------
(* The environment.                                                        *)

NewEnv(e) == [events |-> << >>, state |-> "inquiry", space |-> OpeningSpace(e)]

Over(v) == v.state \in {"complete", "invalid", "aborted"}
Tests(events) == {i \in DOMAIN events : events[i].type = "test"}
QueryCount(v) == Cardinality(Tests(v.events))
Tested(events) == {events[i].action.koan : i \in Tests(events)}

\* Transcript.append, before its validation, with the version space that goes with it
Narrowed(v, event, state, space) ==
    [events |-> Append(v.events, event), state |-> state, space |-> space]

Recorded(v, event, state) == Narrowed(v, event, state, v.space)

Invalidate(v, a, code) == Recorded(v, [type |-> "invalid", action |-> a, code |-> code], "invalid")

\* query_metrics
Metrics(e, v, s) ==
    LET best == CHOOSE t \in OptimalQueries(v.space, Scenes) : TRUE IN
    [before    |-> Cardinality(v.space),
     accepted  |-> Accepted(v.space, s),
     rejected  |-> Rejected(v.space, s),
     after     |-> Cardinality(Observe(v.space, s, s \in e.target)),
     best      |-> Balance(v.space, best),
     duplicate |-> s \in e.opening \cup Tested(v.events),
     vsPlacard |-> (s \in e.target) # (s \in Sun),
     vsShadow  |-> (s \in e.target) # (s \in e.shadow)]

\* QueryMetrics.__post_init__
ValidMetrics(m) ==
    /\ m.before >= 1 /\ m.rejected >= 0 /\ m.rejected + m.accepted = m.before
    /\ m.after \in 1 .. m.before
    /\ m.best \in 0 .. m.before \div 2

\* Mutation: the tests are recorded and the version space stays.
SpaceKept(e, v, s) == v.space

SpaceAfter(e, v, s) == Observe(v.space, s, s \in e.target)

\* Mutation: the budget closes one test late.
LateBudget(n) == n = MaxTests + 1

BudgetSpent(n) == n = MaxTests

\* _consume_test
ConsumeTest(e, v, a) ==
    LET spent == BudgetSpent(QueryCount(v) + 1) IN
    Narrowed(v, [type |-> "test", action |-> a, accepted |-> a.koan \in e.target,
                 metrics |-> Metrics(e, v, a.koan), exhausted |-> spent],
             IF spent THEN "awaiting_answer" ELSE "inquiry",
             SpaceAfter(e, v, a.koan))

\* The answer branch of consume, and TerminalScore.
ConsumeAnswer(e, v, a) ==
    Recorded(v, [type |-> "answer", action |-> a,
                 correct |-> Cardinality({s \in e.terminal : (s \in a.fits) = (s \in e.target)}),
                 equivalent |-> a.rule = e.target, queries |-> QueryCount(v)],
             "complete")

\* consume: parsing knows how many labels it must find only once inquiry is over.
Consume(e, v, a) ==
    CASE Over(v) -> v
      [] ~Over(v) /\ a.move = "garbled" -> Invalidate(v, a, "invalid_json")
      [] v.state = "inquiry" /\ a.move = "test" -> ConsumeTest(e, v, a)
      [] v.state = "inquiry" /\ a.move = "ready" ->
            Recorded(v, [type |-> "ready", action |-> a, premature |-> Cardinality(v.space) > 1],
                     "awaiting_answer")
      [] v.state = "inquiry" /\ a.move = "answer" -> Invalidate(v, a, "unexpected_answer")
      [] v.state = "awaiting_answer" /\ a.move \in {"test", "ready"} -> Invalidate(v, a, "expected_answer")
      [] v.state = "awaiting_answer" /\ a.move = "answer" ->
            IF a.labels = Cardinality(e.terminal) THEN ConsumeAnswer(e, v, a)
            ELSE Invalidate(v, a, "wrong_classification_count")

\* Mutation: the state is the reason.
StateIsReason(v, reason) ==
    IF Over(v) THEN v
    ELSE Recorded(v, [type |-> "abort", action |-> [move |-> "abort", reason |-> reason]], reason)

\* abort
Abort(v, reason) ==
    IF Over(v) THEN v
    ELSE Recorded(v, [type |-> "abort", action |-> [move |-> "abort", reason |-> reason]], "aborted")

LastTest(n) == n = MaxTests

\* One turn of the loop of Transcript._validate_sequence; "refused" is its ValueError.
Follow(e, t, event) ==
    CASE t.state = "inquiry" /\ event.type = "test" ->
            LET n == t.tests + 1 IN
            [state |-> IF event.exhausted # LastTest(n) \/ event.metrics.duplicate # (event.action.koan \in t.seen)
                       THEN "refused" ELSE IF LastTest(n) THEN "awaiting_answer" ELSE "inquiry",
             tests |-> n, seen |-> t.seen \cup {event.action.koan}]
      [] t.state = "inquiry" /\ event.type = "ready" -> [t EXCEPT !.state = "awaiting_answer"]
      [] t.state = "awaiting_answer" /\ event.type = "answer" ->
            [t EXCEPT !.state = IF event.queries = t.tests THEN "complete" ELSE "refused"]
      [] t.state \in {"inquiry", "awaiting_answer"} /\ event.type = "invalid" -> [t EXCEPT !.state = "invalid"]
      [] t.state \in {"inquiry", "awaiting_answer"} /\ event.type = "abort" -> [t EXCEPT !.state = "aborted"]
      [] OTHER -> [t EXCEPT !.state = "refused"]

\* What the loop starts from, and what it has counted at the end.
Untold(e) == [state |-> "inquiry", tests |-> 0, seen |-> e.opening]

Recount(e, events) ==
    LET walk[n \in 0 .. Len(events)] ==
            IF n = 0 THEN Untold(e) ELSE Follow(e, walk[n - 1], events[n])
    IN  walk[Len(events)]

\* TerminalScore.__post_init__
ValidScore(e, event) ==
    /\ Cardinality(e.terminal) >= 1 /\ event.correct \in 0 .. Cardinality(e.terminal)
    /\ event.queries \in 0 .. MaxTests

\* The checks that consume and abort run: the metrics', the score's and the transcript's.
Lawful(e, v) ==
    /\ \A i \in Tests(v.events) : ValidMetrics(v.events[i].metrics)
    /\ \A i \in DOMAIN v.events : v.events[i].type = "answer" => ValidScore(e, v.events[i])
    /\ Recount(e, v.events).state = v.state

\* The body of the loop of replay_transcript.
Redo(e, v, event) ==
    IF event.type = "abort" THEN Abort(v, event.action.reason) ELSE Consume(e, v, event.action)

\* replay_transcript: every recorded action again, from a new environment.
Replayed(e, events) ==
    LET walk[n \in 0 .. Len(events)] ==
            IF n = 0 THEN NewEnv(e) ELSE Redo(e, walk[n - 1], events[n])
    IN  walk[Len(events)]

-------------------------------------------------------------------------------
(* Rewards, as fractions of 20 * MaxTests * |terminal|.                    *)

Whole(e) == 20 * MaxTests * Cardinality(e.terminal)

\* _terminal_reward_fraction
Reward(e, events) ==
    LET final == Last(events) IN
    IF final.type # "answer" THEN 0
    ELSE 14 * MaxTests * final.correct
         + (IF final.equivalent THEN 5 * MaxTests * Cardinality(e.terminal) ELSE 0)
         + (MaxTests - final.queries) * Cardinality(e.terminal)

\* emitted_events: what the policy did, without the controller's abort.
Emitted(events) == {i \in DOMAIN events : events[i].type # "abort"}

\* RolloutRecord.__post_init__: one text per action, in order, and a fraction in [0, 1].
ValidRecord(e, v, texts) ==
    LET emitted == Emitted(v.events) IN
    /\ Len(texts) = Cardinality(emitted)
    /\ \A i \in emitted : texts[Cardinality({j \in emitted : j <= i})] = v.events[i].action
    /\ Reward(e, v.events) \in 0 .. Whole(e)

-------------------------------------------------------------------------------
(* collect_rollout                                                         *)

Init ==
    /\ episode \in {e \in Episodes : Retained(e)}
    /\ controller \in Controllers
    /\ env = NewEnv(episode)
    /\ turns = << >>
    /\ pc = "play"

Plays(who) == pc = "play" /\ controller = who

\* Mutation: as many turns as there are tests.
TestsOnly == MaxTests

\* range(8)
Loop == MaxTests + 2

\* What a policy may emit.
Texts ==
    [move : {"garbled", "ready"}]
    \cup [move : {"test"}, koan : Koans]
    \cup [move : {"answer"}, rule : Answers, fits : {r \cap episode.terminal : r \in Answers},
          labels : {Cardinality(episode.terminal), Cardinality(episode.terminal) - 1}]

Continues == ~Over(env) /\ Len(turns) < Loop

Sample ==
    /\ Plays("policy") /\ Continues
    /\ \E text \in Texts :
        /\ env' = Consume(episode, env, text)
        /\ turns' = Append(turns, text)
    /\ pc' = IF Lawful(episode, env') THEN "play" ELSE "raised"
    /\ UNCHANGED <<episode, controller>>

\* The policy returns a PolicyAbort.
PolicyAborts ==
    /\ Plays("policy") /\ Continues
    /\ \E reason \in {"incomplete", "overlength", "timed_out"} : env' = Abort(env, reason)
    /\ pc' = IF Lawful(episode, env') THEN "play" ELSE "raised"
    /\ UNCHANGED <<episode, controller, turns>>

\* After the loop: abort what is still open, replay, build and verify the record.
Record ==
    /\ Plays("policy") /\ ~Continues
    /\ env' = Abort(env, "incomplete")
    /\ pc' = IF /\ Lawful(episode, env')
                /\ Replayed(episode, env'.events) = env'
                /\ ValidRecord(episode, env', turns)
             THEN "kept" ELSE "raised"
    /\ UNCHANGED <<episode, controller, turns>>

-------------------------------------------------------------------------------
(* play_reference_episode and _record_for_episode                          *)

\* The scenes play_reference_episode has not seen.
Unobserved == Scenes \ (episode.opening \cup Tested(env.events))

Inquiring == env.state = "inquiry" /\ Cardinality(env.space) > 1

ReferenceTests ==
    /\ Plays("reference") /\ Inquiring
    /\ \E s \in OptimalQueries(env.space, Unobserved) :
        env' = Consume(episode, env, [move |-> "test", koan |-> s])
    /\ pc' = IF Lawful(episode, env') THEN "play" ELSE "raised"
    /\ UNCHANGED <<episode, controller, turns>>

ReferenceReady ==
    /\ Plays("reference") /\ env.state = "inquiry" /\ ~Inquiring
    /\ env' = Consume(episode, env, [move |-> "ready"])
    /\ pc' = IF Lawful(episode, env') THEN "play" ELSE "raised"
    /\ UNCHANGED <<episode, controller, turns>>

ReferenceAnswers ==
    /\ Plays("reference") /\ env.state # "inquiry" /\ ~Over(env)
    /\ env' = Consume(episode, env, [move |-> "answer", rule |-> episode.target,
                                     fits |-> episode.target \cap episode.terminal,
                                     labels |-> Cardinality(episode.terminal)])
    /\ pc' = IF Lawful(episode, env') /\ env'.state = "complete" THEN "play" ELSE "raised"
    /\ UNCHANGED <<episode, controller, turns>>

\* _exact_reward_fraction: (120 - q) / 120
ExactReward(q) == (20 * MaxTests - q) * Cardinality(episode.terminal)

\* _record_for_episode: perfect, replayable, and paid the fraction as a double.
RecordReference ==
    /\ Plays("reference") /\ Over(env)
    /\ LET final == Last(env.events) IN
        pc' = IF /\ final.type = "answer"
                 /\ final.correct = Cardinality(episode.terminal) /\ final.equivalent
                 /\ Replayed(episode, env.events) = env
                 /\ final.queries = QueryCount(env)
                 /\ Reward(episode, env.events) = ExactReward(QueryCount(env))
                 /\ Rounding[QueryCount(env)] = 0
              THEN "kept" ELSE "raised"
    /\ UNCHANGED <<episode, controller, env, turns>>

\* The rollout was returned or the exception raised.
Returned == pc # "play" /\ UNCHANGED vars

Next ==
    \/ Sample \/ PolicyAborts \/ Record
    \/ ReferenceTests \/ ReferenceReady \/ ReferenceAnswers \/ RecordReference
    \/ Returned

Spec == Init /\ [][Next]_vars

-------------------------------------------------------------------------------

TypeOK ==
    /\ episode \in Episodes /\ controller \in Controllers
    /\ env.state \in {"inquiry", "awaiting_answer", "complete", "invalid", "aborted"}
    /\ env.space \subseteq Catalog
    /\ \A i \in DOMAIN env.events :
        env.events[i].type \in {"test", "ready", "answer", "invalid", "abort"}
    /\ \A i \in DOMAIN turns : turns[i].move \in {"garbled", "test", "ready", "answer"}
    /\ pc \in {"play", "kept", "raised"}

\* What has been shown: the opening, and every scene tested.
Evidence == episode.opening \cup Tested(env.events)

\* The version space that prices every test and decides whether ready is
\* premature is, after any play, exactly the set of the catalog rules that agree
\* with everything shown, and the law is always among them (environment.py,
\* _consume_test, which narrows it test by test).
VersionSpaceIsExact ==
    /\ env.space = ObserveMany(Catalog, Evidence, episode.target)
    /\ episode.target \in env.space

\* No play makes the controller raise: what the environment appends is accepted
\* by the transcript, which recounts tests, budget and duplicates on its own,
\* the replay gives the same environment, and the record its turns and a reward
\* in [0, 1] (collect_rollout, verify_rollout_record, _record_for_episode).
NeverRaises == pc # "raised"

\* Mutation: the terminal koans are shown with the last-but-one answer.
ShownEarly(events) ==
    \E i \in DOMAIN events :
        \/ events[i].type = "ready"
        \/ events[i].type = "test" /\ Cardinality(Tests(events)) >= MaxTests - 1

\* render_dialogue appends the terminal prompt to these two.
TerminalShown(events) ==
    \E i \in DOMAIN events :
        \/ events[i].type = "ready"
        \/ events[i].type = "test" /\ events[i].exhausted

\* Once the terminal koans have been rendered to the player nothing more is
\* asked of the Master: a test after that could be one of them (render_dialogue
\* and consume, which decide this independently).
TerminalKoansComeLast == [][TerminalShown(env.events) => Tested(env'.events) = Tested(env.events)]_vars

\* A policy that answers every time is never cut off by the controller's loop:
\* eight turns are enough for every game (the branch that collect_rollout calls
\* unreachable).
LoopNeverRunsOut == Len(turns) >= Loop => Over(env)

\* Every test of the reference player tells some remaining rules apart, repeats
\* nothing, and splits as evenly as any scene of the universe could, although
\* only unseen scenes are offered to it (play_reference_episode restricts
\* legal_scene_indices; QueryMetrics compares with all of them).
ReferenceWastesNoTest ==
    controller = "reference" =>
        \A i \in Tests(env.events) :
            LET m == env.events[i].metrics IN
            /\ m.after < m.before /\ ~m.duplicate
            /\ Smaller(m.accepted, m.rejected) = m.best

\* For the version space that an opening leaves, and for every smaller space
\* inside it, the pruned search finds the depths of the plain definition: its
\* cut-offs by size lose no tree and accept none that is too shallow, so that
\* None is "an exact certificate" (exact_minimax_identification_depth).
MinimaxIsExact ==
    env.events = << >> =>
        \A space \in SUBSET env.space \ {{}} :
            FeasibleDepths(space, MaxDepth) = IdentifiableDepths(space, MaxDepth)

\* Every reference trajectory can be recorded with its exact reward: "Perfect
\* classification and rule recovery earn .95 + .05(1-q/6) = (120 - q) / 120
\* exactly" (trajectory_banks.py, _exact_reward_fraction).
ReferenceIsRecorded == controller = "reference" => pc # "raised"

===============================================================================
