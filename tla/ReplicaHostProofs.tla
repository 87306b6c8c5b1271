-------------------------- MODULE ReplicaHostProofs --------------------------
(***************************************************************************)
(* What holds on a runtime host for any number of requests, crashes and    *)
(* changes of its compose tool.                                            *)
(*                                                                         *)
(* The argument: only a run that is under way changes anything, and it     *)
(* changes its own pack's containers.  It answers last, with a status it   *)
(* has measured before; a run that has not answered has no answer.  As     *)
(* long as the tool stays as it is, containers that came up can be taken   *)
(* down, and every way a run can end leads through that; one that hangs    *)
(* has not ended.                                                          *)
(*                                                                         *)
(* What a run measures: its reset puts the directory into the state of the *)
(* defaults whatever was there, and from then on the directory is what its *)
(* own hooks have made of that, unless another run of the pack touches it, *)
(* in which case the run is marked as disturbed in that very step.         *)
(***************************************************************************)
EXTENDS ReplicaHost, SequenceTheorems, TLAPS

Signals == [status: Int, time: Int]

Capabilities == {"no_pack", "replay_executed", "replay_available", "host_unavailable",
                 "pack_validation_required"}

Answers == [status: Capabilities \cup {"none", "error", "unsupported"},
            tier: {"none", "validated_runtime", "runtime_ready", "inferred_only"},
            repeatability: {"none", "unknown", "deterministic", "uncertain"}]

Threads == [pc: Pcs, asked: Requests, base: Signals, reruns: Seq(Signals), executed: BOOLEAN,
            raised: BOOLEAN, disturbed: BOOLEAN,
            answer: Answers]

\* A run that measures works on a pack with all its scripts, and has a hook to
\* apply when it is about to.
UnderWay(r) ==
  /\ run[r].pc \notin {"idle", "answered", "lost"} => Pack(r) \in Runnable
  /\ run[r].pc \in {"hook", "rerun"} => HooksLeft(r, Len(run[r].reruns))
  /\ run[r].pc \in {"idle", "admitted", "reset", "stop old", "start", "wait", "baseline"} =>
        run[r].reruns = <<>>
  /\ run[r].pc # "answered" => run[r].answer = NoAnswer

HostInv ==
  /\ tool \in {"works", "invalid", "absent"}
  /\ dir \in [Runnable -> UNION {RuntimeDirs(p) : p \in Packs}]
  /\ \A p \in Runnable : dir[p] \in RuntimeDirs(p)
  /\ up \subseteq Runnable
  /\ run \in [Runs -> Threads]
  /\ crashes \in 0..MaxCrashes /\ changes \in 0..MaxChanges
  /\ \A r \in Runs : UnderWay(r)
  /\ \A r \in Runs : Len(run[r].reruns) <= run[r].asked.limit

-----------------------------------------------------------------------------
(* Packs *)

LEMMA RunnablePacks == Runnable \subseteq Packs
BY DEF Runnable

\* The runtime directory keeps its form, whatever is written into it.
LEMMA DefaultsTyped ==
  ASSUME NEW p \in Packs
  PROVE  Defaults(p) \in RuntimeDirs(p)
BY DEF Defaults, RuntimeDirs, Packs

LEMMA CheckedInTyped ==
  ASSUME NEW p \in Packs
  PROVE  CheckedIn(p) \in RuntimeDirs(p)
BY DEF CheckedIn, Defaults, RuntimeDirs, Packs

LEMMA HooksAreCounted ==
  ASSUME NEW p \in Packs
  PROVE  Len(MitigationHooks(p)) \in Nat
<1>1. CASE p \in {"auth-redis", "postgres"}
  BY <1>1 DEF MitigationHooks
<1>2. CASE p \in {"catalog", "auth-validation", "kafka"}
  BY <1>2 DEF MitigationHooks
<1>. QED BY <1>1, <1>2 DEF Packs

LEMMA ApplyHookTyped ==
  ASSUME NEW p \in Packs, NEW n \in 1 .. Len(MitigationHooks(p)), NEW d \in RuntimeDirs(p)
  PROVE  ApplyHook(MitigationHooks(p)[n], d) \in RuntimeDirs(p)
<1>1. CASE p = "auth-redis"
  BY <1>1 DEF MitigationHooks, RuntimeDirs, ApplyHook
<1>2. CASE p = "postgres"
  BY <1>2 DEF MitigationHooks, RuntimeDirs, ApplyHook
<1>3. CASE p \in {"catalog", "auth-validation", "kafka"}
  BY <1>3 DEF MitigationHooks, RuntimeDirs, ApplyHook
<1>. QED BY <1>1, <1>2, <1>3 DEF Packs

\* A measurement is a status and a time.
LEMMA ReplaySignalTyped ==
  ASSUME NEW p \in Runnable, NEW d \in RuntimeDirs(p)
  PROVE  ReplaySignal(p, d, p \in up) \in Signals
<1>1. CASE p = "catalog" \/ p \notin up
  BY <1>1 DEF ReplaySignal, Signals, NoSignal, Unreachable
<1>2. CASE p = "auth-redis" /\ p \in up
  <2>1. d.retries \in {1, 4} /\ d.breaker \in {"open", "closed"}
    BY <1>2 DEF RuntimeDirs
  <2>. QED BY <1>2, <2>1 DEF ReplaySignal, Signals, GatewayAnswer
<1>3. CASE p \notin {"catalog", "auth-redis"} /\ p \in up
  BY <1>3 DEF ReplaySignal, Signals, CheckoutAnswer
<1>. QED BY <1>1, <1>2, <1>3

-----------------------------------------------------------------------------
(* One step of a run *)

LEMMA EmptyThread == NewRun \in Threads
<1>1. NoRequest \in Requests
  BY HostAssumption DEF NoRequest
<1>2. NoSignal \in Signals
  BY DEF NoSignal, Signals
<1>3. <<>> \in Seq(Signals)
  OBVIOUS
<1>4. NoAnswer \in Answers
  BY DEF NoAnswer, Answers
<1>5. "idle" \in Pcs
  BY DEF Pcs
<1>. QED BY <1>1, <1>2, <1>3, <1>4, <1>5 DEF NewRun, Threads

LEMMA InitInv == Init => HostInv
<1>. SUFFICES ASSUME Init PROVE HostInv
  OBVIOUS
<1>1. \A p \in Runnable : dir[p] \in RuntimeDirs(p)
  BY CheckedInTyped, RunnablePacks DEF Init
<1>2. dir \in [Runnable -> UNION {RuntimeDirs(p) : p \in Packs}]
  BY <1>1, RunnablePacks DEF Init
<1>3. NewRun \in Threads
  BY EmptyThread
<1>4. run \in [Runs -> Threads]
  BY <1>3 DEF Init
<1>5. \A r \in Runs : UnderWay(r)
  BY DEF Init, UnderWay, NewRun
<1>6. \A r \in Runs : Len(run[r].reruns) <= run[r].asked.limit
  BY HostAssumption DEF Init, NewRun, NoRequest
<1>. QED BY <1>1, <1>2, <1>4, <1>5, <1>6, HostAssumption DEF HostInv, Init

(* What is shown of the run that takes a step, and of the others. *)
\* A thread of which the invariant holds.
Sound(x) ==
  /\ x.pc \notin {"idle", "answered", "lost"} => x.asked.pack \in Runnable
  /\ x.pc \in {"hook", "rerun"} =>
        Len(x.reruns) < x.asked.limit /\ Len(x.reruns) < Len(MitigationHooks(x.asked.pack))
  /\ x.pc \in {"idle", "admitted", "reset", "stop old", "start", "wait", "baseline"} => x.reruns = <<>>
  /\ x.pc # "answered" => x.answer = NoAnswer
  /\ Len(x.reruns) <= x.asked.limit

LEMMA SoundRuns ==
  ASSUME NEW r \in Runs
  PROVE  Sound(run[r]) <=> UnderWay(r) /\ Len(run[r].reruns) <= run[r].asked.limit
BY DEF Sound, UnderWay, HooksLeft, Pack

\* A step of one run that disturbs others, if anything, changes nothing else of
\* them.
LEMMA OthersStaySound ==
  ASSUME HostInv, NEW r \in Runs, NEW new \in Threads, Sound(new),
         Becomes(r, new) \/ Interferes(r, new)
  PROVE  /\ run' \in [Runs -> Threads]
         /\ run'[r] = new
         /\ \A s \in Runs : UnderWay(s)' /\ Len(run'[s].reruns) <= run'[s].asked.limit
         /\ \A s \in Runs \ {r} : run'[s].pc = run[s].pc /\ run'[s].asked = run[s].asked
                                  /\ run'[s].answer = run[s].answer /\ run'[s].base = run[s].base
<1>1. \A s \in Runs : run[s] \in Threads /\ Sound(run[s])
  BY SoundRuns DEF HostInv
<1>2. ASSUME NEW x \in Threads
      PROVE  LET y == [x EXCEPT !.disturbed = TRUE]
             IN /\ y \in Threads /\ (Sound(x) => Sound(y))
                /\ y.pc = x.pc /\ y.asked = x.asked /\ y.answer = x.answer /\ y.base = x.base
  BY DEF Threads, Sound
<1>3. \A s \in Runs : run'[s] \in {new, run[s], [run[s] EXCEPT !.disturbed = TRUE]}
  BY DEF Becomes, Interferes, HostInv
<1>4. run'[r] = new /\ \A s \in Runs \ {r} : run'[s] \in {run[s], [run[s] EXCEPT !.disturbed = TRUE]}
  BY DEF Becomes, Interferes, HostInv
<1>5. \A s \in Runs : run'[s] \in Threads /\ Sound(run'[s])
  BY <1>1, <1>2, <1>3
<1>6. run' \in [Runs -> Threads]
  <2>1. run' = [s \in Runs |-> run'[s]]
    BY DEF Becomes, Interferes, HostInv
  <2>. QED BY <1>5, <2>1
<1>7. \A s \in Runs : UnderWay(s)' /\ Len(run'[s].reruns) <= run'[s].asked.limit
  BY <1>5 DEF Sound, UnderWay, HooksLeft, Pack
<1>8. \A s \in Runs \ {r} : run'[s].pc = run[s].pc /\ run'[s].asked = run[s].asked
                            /\ run'[s].answer = run[s].answer /\ run'[s].base = run[s].base
  BY <1>1, <1>2, <1>4
<1>. QED BY <1>4, <1>6, <1>7, <1>8

-----------------------------------------------------------------------------
(* The invariant *)

\* The answers are of their type, and only a measured status validates.
LEMMA AnswersTyped ==
  ASSUME NEW p, NEW seen, NEW status
  PROVE  /\ AnswerUnexecuted(p, seen) \in Answers
         /\ AnswerUnexecuted(p, seen).tier # "validated_runtime"
         /\ AnswerExecuted(p, status) \in Answers
         /\ AnswerExecuted(p, status).tier = "validated_runtime" => status # 0
<1>1. CapabilityForHost(p, seen, 0) \in Capabilities \ {"replay_executed"}
  BY DEF CapabilityForHost, Capabilities
<1>2. AnswerUnexecuted(p, seen) \in Answers /\ AnswerUnexecuted(p, seen).tier # "validated_runtime"
  BY <1>1 DEF AnswerUnexecuted, EvidenceTier, Answers, Capabilities
<1> DEFINE ready == [missing |-> FALSE, docker |-> TRUE, valid |-> TRUE]
<1>3. /\ CapabilityForHost(p, ready, status) \in Capabilities
      /\ CapabilityForHost(p, ready, status) = "replay_executed" => status # 0
  BY DEF CapabilityForHost, Capabilities
<1>4. /\ AnswerExecuted(p, status) \in Answers
      /\ AnswerExecuted(p, status).tier = "validated_runtime" => status # 0
  BY <1>3 DEF AnswerExecuted, EvidenceTier, Answers, Capabilities
<1>. QED BY <1>2, <1>4

\* The threads a step makes of a thread.
LEMMA ReceivedThread ==
  ASSUME HostInv, NEW r \in Runs, NEW q \in Requests, Receive(r, q)
  PROVE  \E new \in Threads : Sound(new) /\ Becomes(r, new) /\ new.answer.tier # "validated_runtime"
<1> DEFINE seen == Inspected(q.pack)
           asked == [NewRun EXCEPT !.asked = q]
           go == q.pack # NoPack /\ q.execute /\ ~seen.missing /\ seen.valid /\ seen.docker
           new == IF go THEN [asked EXCEPT !.pc = "admitted"]
                  ELSE [asked EXCEPT !.pc = "answered", !.answer = AnswerUnexecuted(q.pack, seen)]
<1>1. Becomes(r, new)
  BY DEF Receive
<1>2. asked \in Threads
  BY EmptyThread DEF Threads
<1>3. q.pack \in Packs \cup {NoPack} /\ q.limit \in 0..3
  BY HostAssumption
<1>6. asked.reruns = <<>> /\ asked.asked = q /\ asked.answer = NoAnswer
  BY DEF NewRun
<1>4. CASE go
  <2>1. new = [asked EXCEPT !.pc = "admitted"]
    BY <1>4
  <2>2. q.pack \in Runnable
    BY <1>3, <1>4 DEF Inspected, Runnable
  <2>3. new \in Threads
    BY <2>1, <1>2 DEF Threads, Pcs
  <2>4. Sound(new) /\ new.answer.tier # "validated_runtime"
    <3>1. new.pc = "admitted" /\ new.reruns = <<>> /\ new.asked = q /\ new.answer = NoAnswer
      BY <2>1, <1>2, <1>6 DEF Threads
    <3>. QED BY <3>1, <2>2, <1>3 DEF Sound, NoAnswer
  <2>. QED BY <1>1, <2>3, <2>4
<1>5. CASE ~go
  <2>1. new = [asked EXCEPT !.pc = "answered", !.answer = AnswerUnexecuted(q.pack, seen)]
    BY <1>5
  <2>2. new \in Threads
    BY <2>1, <1>2, AnswersTyped DEF Threads, Pcs
  <2>3. AnswerUnexecuted(q.pack, seen).tier # "validated_runtime"
    BY AnswersTyped
  <2>4. Sound(new) /\ new.answer.tier # "validated_runtime"
    <3>1. /\ new.pc = "answered" /\ new.reruns = <<>> /\ new.asked = q
          /\ new.answer = AnswerUnexecuted(q.pack, seen)
      BY <2>1, <1>2, <1>6 DEF Threads
    <3>. QED BY <3>1, <2>3, <1>3 DEF Sound
  <2>. QED BY <1>1, <2>2, <2>4
<1>. QED BY <1>4, <1>5

\* A run at work goes on with a sound thread, and keeps what it was asked; an
\* answer that calls it validated rests on its measurement.
Continues(r, new) ==
  /\ Sound(new)
  /\ Becomes(r, new) \/ Interferes(r, new)
  /\ new.asked = run[r].asked /\ new.pc # run[r].pc
  /\ new.pc # "idle"
  /\ new.answer.tier = "validated_runtime" => new.base.status # 0

LEMMA AtWork ==
  ASSUME HostInv, NEW r \in Runs, run[r].pc \notin {"idle", "answered", "lost"}
  PROVE  /\ run[r] \in Threads /\ Sound(run[r])
         /\ Pack(r) \in Packs /\ Pack(r) \in Runnable
         /\ run[r].asked.limit \in 0..3
         /\ run[r].answer = NoAnswer /\ run[r].answer.tier # "validated_runtime"
         /\ dir[Pack(r)] \in RuntimeDirs(Pack(r))
<1>1. run[r] \in Threads /\ Sound(run[r])
  BY SoundRuns DEF HostInv
<1>2. Pack(r) \in Runnable /\ Pack(r) \in Packs
  BY <1>1, RunnablePacks DEF Sound, Pack
<1>3. run[r].asked.limit \in 0..3
  BY <1>1, HostAssumption DEF Threads
<1>4. run[r].answer = NoAnswer
  BY <1>1 DEF Sound
<1>5. NoAnswer.tier # "validated_runtime"
  BY DEF NoAnswer
<1>6. dir[Pack(r)] \in RuntimeDirs(Pack(r))
  BY <1>2 DEF HostInv
<1>. QED BY <1>1, <1>2, <1>3, <1>4, <1>5, <1>6

\* A step to another step of the program, with nothing measured.
LEMMA GotoContinues ==
  ASSUME HostInv, NEW r \in Runs,
         run[r].pc \in {"admitted", "reset", "stop old", "start", "wait", "rerun", "baseline", "hook", "down"},
         NEW pc \in {"reset", "stop old", "start", "wait", "baseline", "rerun", "down", "hung"},
         NEW new \in {Goto(r, pc), [Goto(r, pc) EXCEPT !.executed = TRUE],
                      [run[r] EXCEPT !.pc = pc, !.raised = TRUE]},
         pc # run[r].pc,
         pc \notin {"rerun", "down", "hung"} => run[r].reruns = <<>>,
         pc = "rerun" => run[r].pc = "hook",
         Becomes(r, new) \/ Interferes(r, new)
  PROVE  new \in Threads /\ Continues(r, new)
<1>1. /\ run[r] \in Threads /\ Sound(run[r]) /\ run[r].answer = NoAnswer
      /\ run[r].answer.tier # "validated_runtime" /\ Pack(r) \in Runnable
  BY AtWork
<1>2. new \in Threads
  BY <1>1 DEF Goto, Threads, Pcs
<1>3. /\ new.pc = pc /\ new.asked = run[r].asked /\ new.reruns = run[r].reruns
      /\ new.answer = run[r].answer /\ new.base = run[r].base
  BY <1>1 DEF Goto, Threads
<1>4. Sound(new)
  BY <1>1, <1>3 DEF Sound, Pack
<1>. QED BY <1>1, <1>2, <1>3, <1>4 DEF Continues

LEMMA WorkContinues ==
  ASSUME HostInv, NEW r \in Runs, Work(r)
  PROVE  /\ run[r].pc \notin {"idle", "answered", "lost"}
         /\ \E new \in Threads : Continues(r, new)
<1>0. run[r].pc \notin {"idle", "answered", "lost"}
  BY DEF Work, Reinspect, ResetState, StopOld, Start, WaitForRuntime, StartupTimeout, Baseline,
         ApplyMitigation, Rerun, ScriptFails, Hang, HangAfterEffect, ComposeDown, At
<1>00. /\ run[r] \in Threads /\ Sound(run[r]) /\ Pack(r) \in Packs /\ Pack(r) \in Runnable
       /\ run[r].asked.limit \in 0..3 /\ run[r].answer = NoAnswer
       /\ run[r].answer.tier # "validated_runtime"
       /\ dir[Pack(r)] \in RuntimeDirs(Pack(r))
       /\ Len(MitigationHooks(Pack(r))) \in Nat
  BY <1>0, AtWork, HooksAreCounted
<1>1. CASE Reinspect(r)
  <2>1. CASE Becomes(r, Goto(r, "reset"))
    BY <2>1, <1>1, <1>00, GotoContinues DEF Reinspect, At, Sound
  <2>2. CASE Becomes(r, [run[r] EXCEPT !.pc = "answered", !.answer = AnswerExecuted(Pack(r), 0)])
    <3> DEFINE new == [run[r] EXCEPT !.pc = "answered", !.answer = AnswerExecuted(Pack(r), 0)]
    <3>1. AnswerExecuted(Pack(r), 0) \in Answers /\ AnswerExecuted(Pack(r), 0).tier # "validated_runtime"
      BY AnswersTyped
    <3>2. new \in Threads
      BY <3>1, <1>00 DEF Threads, Pcs
    <3>3. /\ new.pc = "answered" /\ new.asked = run[r].asked /\ new.reruns = run[r].reruns
          /\ new.answer = AnswerExecuted(Pack(r), 0)
      BY <1>00 DEF Threads
    <3>4. Sound(new)
      BY <3>3, <1>00 DEF Sound
    <3>. QED BY <2>2, <1>1, <3>1, <3>2, <3>3, <3>4 DEF Continues, Reinspect, At
  <2>. QED BY <1>1, <2>1, <2>2 DEF Reinspect
<1>2. CASE ResetState(r)
  BY <1>2, <1>00, GotoContinues DEF ResetState, At, Sound
<1>3. CASE StopOld(r)
  BY <1>3, <1>00, GotoContinues DEF StopOld, Raises, At, Sound
<1>4. CASE Start(r)
  BY <1>4, <1>00, GotoContinues DEF Start, Raises, At, Sound
<1>5. CASE WaitForRuntime(r)
  BY <1>5, <1>00, GotoContinues DEF WaitForRuntime, At, Sound
<1>6. CASE StartupTimeout(r)
  BY <1>6, <1>00, GotoContinues DEF StartupTimeout, Raises, At, Sound
<1>7. CASE ApplyMitigation(r)
  BY <1>7, <1>00, GotoContinues DEF ApplyMitigation, At, Sound
<1>8. CASE ScriptFails(r)
  BY <1>8, <1>00, GotoContinues DEF ScriptFails, Raises, Sound
<1>9. CASE Baseline(r)
  <2> DEFINE signal == ReplaySignal(Pack(r), dir[Pack(r)], Pack(r) \in up)
             step == IF HooksLeft(r, 0) THEN "hook" ELSE "down"
             new == [run[r] EXCEPT !.base = signal, !.pc = step]
  <2>1. signal \in Signals
    BY <1>00, ReplaySignalTyped
  <2>2. run[r].pc = "baseline" /\ run[r].reruns = <<>> /\ Becomes(r, new)
    BY <1>00, <1>9 DEF Baseline, At, Sound
  <2>3. new \in Threads
    BY <2>1, <1>00 DEF Threads, Pcs
  <2>4. /\ new.pc = step /\ new.asked = run[r].asked /\ new.reruns = <<>>
        /\ new.answer = run[r].answer
    BY <2>2, <1>00 DEF Threads
  <2>5. step \in {"hook", "down"} /\ (step = "hook" => HooksLeft(r, 0))
    OBVIOUS
  <2>6. Len(new.reruns) = 0
    <3>1. Len(<<>>) = 0
      OBVIOUS
    <3>. HIDE DEF new
    <3>. QED BY <2>4, <3>1, Zenon
  <2>. HIDE DEF step, new
  <2>7. Sound(new)
    <3>1. new.asked.pack \in Runnable /\ Len(new.reruns) <= new.asked.limit /\ new.answer = NoAnswer
      BY <2>4, <2>6, <1>00 DEF Pack
    <3>2. ASSUME step = "hook"
          PROVE  0 < new.asked.limit /\ 0 < Len(MitigationHooks(new.asked.pack))
      BY <3>2, <2>4, <2>5 DEF HooksLeft, Pack
    <3>. QED BY <2>4, <2>5, <2>6, <3>1, <3>2 DEF Sound
  <2>. QED BY <2>2, <2>3, <2>4, <2>5, <2>7, <1>00 DEF Continues
<1>10. CASE Rerun(r)
  <2> DEFINE signal == ReplaySignal(Pack(r), dir[Pack(r)], Pack(r) \in up)
             step == IF HooksLeft(r, NextHook(r)) THEN "hook" ELSE "down"
             new == [run[r] EXCEPT !.reruns = Append(@, signal), !.pc = step]
  <2>1. signal \in Signals
    BY <1>00, ReplaySignalTyped
  <2>2. run[r].pc = "rerun" /\ Becomes(r, new)
    BY <1>10 DEF Rerun, At
  <2>3. run[r].reruns \in Seq(Signals)
    BY <1>00 DEF Threads
  <2>4. /\ Append(run[r].reruns, signal) \in Seq(Signals)
        /\ Len(Append(run[r].reruns, signal)) = NextHook(r)
        /\ NextHook(r) \in Nat /\ NextHook(r) <= run[r].asked.limit
    BY <2>1, <2>2, <2>3, <1>00 DEF NextHook, Sound
  <2>5. new \in Threads
    BY <2>4, <1>00 DEF Threads, Pcs
  <2>6. /\ new.pc = step /\ new.asked = run[r].asked /\ new.reruns = Append(run[r].reruns, signal)
        /\ new.answer = run[r].answer
    BY <1>00 DEF Threads
  <2>7. step \in {"hook", "down"} /\ (step = "hook" => HooksLeft(r, NextHook(r)))
    OBVIOUS
  <2>. HIDE DEF step, new
  <2>8. Sound(new)
    BY <2>4, <2>6, <2>7, <1>00 DEF Sound, HooksLeft, Pack
  <2>. QED BY <2>2, <2>5, <2>6, <2>7, <2>8, <1>00 DEF Continues
<1>11. CASE ComposeDown(r)
  <2> DEFINE answer == IF run[r].raised
                       THEN [status |-> "error", tier |-> "none", repeatability |-> "none"]
                       ELSE AnswerExecuted(Pack(r), run[r].base.status)
             new == [run[r] EXCEPT !.pc = "answered", !.answer = answer]
  <2>1. Interferes(r, new) /\ run[r].pc = "down"
    BY <1>11 DEF ComposeDown, At
  <2>2. /\ AnswerExecuted(Pack(r), run[r].base.status) \in Answers
        /\ AnswerExecuted(Pack(r), run[r].base.status).tier = "validated_runtime" =>
              run[r].base.status # 0
    BY AnswersTyped
  <2>3. answer \in Answers /\ (answer.tier = "validated_runtime" => run[r].base.status # 0)
    BY <2>2 DEF Answers
  <2>4. new \in Threads
    BY <2>3, <1>00 DEF Threads, Pcs
  <2>5. /\ new.pc = "answered" /\ new.asked = run[r].asked /\ new.reruns = run[r].reruns
        /\ new.answer = answer /\ new.base = run[r].base
    BY <1>00 DEF Threads
  <2>6. Sound(new)
    BY <2>5, <1>00 DEF Sound
  <2>7. Continues(r, new)
    BY <2>1, <2>3, <2>5, <2>6 DEF Continues
  <2>. HIDE DEF new
  <2>. QED BY <1>0, <2>4, <2>7
<1>12. CASE Hang(r)
  BY <1>12, <1>00, GotoContinues DEF Hang
<1>13. CASE HangAfterEffect(r)
  BY <1>13, <1>00, GotoContinues DEF HangAfterEffect, At
<1>14. \E new \in Threads : Continues(r, new)
  BY <1>1, <1>2, <1>3, <1>4, <1>5, <1>6, <1>7, <1>8, <1>9, <1>10, <1>11, <1>12, <1>13, Zenon DEF Work
<1>. QED BY <1>0, <1>14

\* A step of a run leaves the runtime directories and the containers sound.
LEMMA WorkOnTheMachine ==
  ASSUME HostInv, NEW r \in Runs, Work(r)
  PROVE  /\ dir' \in [Runnable -> UNION {RuntimeDirs(p) : p \in Packs}]
         /\ \A p \in Runnable : dir'[p] \in RuntimeDirs(p)
         /\ up' \subseteq Runnable
         /\ UNCHANGED <<tool, crashes, changes>>
<1>1. /\ Pack(r) \in Packs /\ Pack(r) \in Runnable /\ dir[Pack(r)] \in RuntimeDirs(Pack(r))
      /\ run[r] \in Threads /\ Sound(run[r]) /\ Len(MitigationHooks(Pack(r))) \in Nat
  BY WorkContinues, AtWork, HooksAreCounted
<1>2. UNCHANGED <<tool, crashes, changes>> /\ up' \subseteq Runnable
  BY <1>1 DEF Work, Reinspect, ResetState, StopOld, Start, WaitForRuntime, StartupTimeout, Baseline,
         ApplyMitigation, Rerun, ScriptFails, Hang, HangAfterEffect, ComposeDown, Machine, HostInv
<1>3. UNCHANGED dir \/ \E d \in RuntimeDirs(Pack(r)) : dir' = [dir EXCEPT ![Pack(r)] = d]
  <2>1. CASE ResetState(r)
    BY <2>1, <1>1, DefaultsTyped DEF ResetState
  <2>2. ASSUME At(r, "hook"), dir' = [dir EXCEPT ![Pack(r)] = ApplyHook(MitigationHooks(Pack(r))[NextHook(r)], @)]
        PROVE  \E d \in RuntimeDirs(Pack(r)) : dir' = [dir EXCEPT ![Pack(r)] = d]
    <3>1. NextHook(r) \in 1 .. Len(MitigationHooks(Pack(r)))
      BY <2>2, <1>1 DEF At, NextHook, Sound, Threads, Pack
    <3>. QED BY <2>2, <3>1, <1>1, ApplyHookTyped DEF HostInv
  <2>3. CASE ApplyMitigation(r)
    BY <2>2, <2>3 DEF ApplyMitigation
  <2>4. CASE HangAfterEffect(r)
    BY <2>2, <2>4 DEF HangAfterEffect
  <2>. QED BY <2>1, <2>3, <2>4 DEF Work, Reinspect, StopOld, Start, WaitForRuntime, StartupTimeout,
              Baseline, Rerun, ScriptFails, Hang, ComposeDown, Machine
<1>4. /\ dir' \in [Runnable -> UNION {RuntimeDirs(p) : p \in Packs}]
      /\ \A p \in Runnable : dir'[p] \in RuntimeDirs(p)
  BY <1>1, <1>3 DEF HostInv
<1>. QED BY <1>2, <1>4

LEMMA InvariantsOfRuns ==
  ASSUME HostInv, NEW r \in Runs, NEW new \in Threads, Sound(new),
         Becomes(r, new) \/ Interferes(r, new),
         dir' \in [Runnable -> UNION {RuntimeDirs(p) : p \in Packs}],
         \A p \in Runnable : dir'[p] \in RuntimeDirs(p),
         up' \subseteq Runnable, UNCHANGED <<tool, crashes, changes>>
  PROVE  HostInv'
<1>1. /\ run' \in [Runs -> Threads]
      /\ \A s \in Runs : UnderWay(s)' /\ Len(run'[s].reruns) <= run'[s].asked.limit
  BY OthersStaySound
<1>. QED BY <1>1 DEF HostInv

LEMMA NextInv == HostInv /\ [Next]_vars => HostInv'
<1>. SUFFICES ASSUME HostInv, [Next]_vars PROVE HostInv'
  OBVIOUS
<1>1. ASSUME NEW r \in Runs, NEW q \in Requests, Receive(r, q)
      PROVE  HostInv'
  <2>1. PICK new \in Threads : Sound(new) /\ Becomes(r, new)
    BY <1>1, ReceivedThread
  <2>2. UNCHANGED Machine
    BY <1>1 DEF Receive
  <2>. QED BY <2>1, <2>2, InvariantsOfRuns DEF Machine, HostInv
<1>2. ASSUME NEW r \in Runs, Work(r)
      PROVE  HostInv'
  <2>1. PICK new \in Threads : Continues(r, new)
    BY <1>2, WorkContinues
  <2>. QED BY <1>2, <2>1, WorkOnTheMachine, InvariantsOfRuns DEF Continues
<1>3. CASE Crash
  <2>1. crashes' \in 0 .. MaxCrashes
    BY <1>3, HostAssumption DEF Crash, HostInv
  <2>2. ASSUME NEW r \in Runs
        PROVE  /\ run'[r] \in Threads /\ UnderWay(r)'
               /\ Len(run'[r].reruns) <= run'[r].asked.limit
    <3>1. run[r] \in Threads /\ Sound(run[r])
      BY SoundRuns DEF HostInv
    <3>2. run'[r] = run[r] \/ (run[r].pc # "answered" /\ run'[r] = [run[r] EXCEPT !.pc = "lost"])
      BY <1>3 DEF Crash, HostInv
    <3> DEFINE lost == [run[r] EXCEPT !.pc = "lost"]
    <3>4. lost \in Threads
      BY <3>1 DEF Threads, Pcs
    <3>5. run[r].pc # "answered" => Sound(lost)
      <4>1. /\ lost.pc = "lost" /\ lost.reruns = run[r].reruns /\ lost.asked = run[r].asked
            /\ lost.answer = run[r].answer
        BY <3>1 DEF Threads
      <4>. HIDE DEF lost
      <4>. QED BY <3>1, <4>1 DEF Sound
    <3>3. run'[r] \in Threads /\ Sound(run'[r])
      BY <3>1, <3>2, <3>4, <3>5
    <3>. QED BY <3>3 DEF Sound, UnderWay, HooksLeft, Pack
  <2>3. run' \in [Runs -> Threads]
    BY <1>3, <2>2 DEF Crash
  <2>. QED BY <1>3, <2>1, <2>2, <2>3 DEF Crash, HostInv
<1>4. CASE ChangeTool
  <2>1. changes' \in 0 .. MaxChanges
    BY <1>4, HostAssumption DEF ChangeTool, HostInv
  <2>2. \A r \in Runs : UnderWay(r)'
    BY <1>4 DEF ChangeTool, HostInv, UnderWay, HooksLeft, Pack
  <2>. QED BY <1>4, <2>1, <2>2 DEF ChangeTool, HostInv
<1>5. CASE UNCHANGED vars
  <2>1. \A r \in Runs : UnderWay(r)'
    BY <1>5 DEF vars, HostInv, UnderWay, HooksLeft, Pack
  <2>. QED BY <1>5, <2>1 DEF vars, HostInv
<1>. QED BY <1>1, <1>2, <1>3, <1>4, <1>5 DEF Next

LEMMA Invariance == Spec => []HostInv
<1>. QED BY InitInv, NextInv, PTL DEF Spec

\* Types; directories keep their form, runs at work have a pack with all its
\* scripts and measure no more hooks than they were asked for
\* (ReplicaRunner.execute_scaffold).
THEOREM HostIsTyped == Spec => []TypeOK
<1>1. HostInv => TypeOK
  <2>. SUFFICES ASSUME HostInv, NEW r \in Runs
                PROVE  /\ run[r].pc \in Pcs /\ run[r].asked \in Requests
                       /\ Uses(r) => Pack(r) \in Runnable
    BY DEF HostInv, TypeOK
  <2>1. run[r] \in Threads /\ UnderWay(r)
    BY DEF HostInv
  <2>. QED BY <2>1 DEF Threads, UnderWay, Uses, Relies, At
<1>. QED BY <1>1, Invariance, PTL

-----------------------------------------------------------------------------
(* What is proved of the answers and the containers *)

AnswersMeasured ==
  \A r \in Runs : run[r].answer.tier = "validated_runtime" => run[r].base.status # 0

LEMMA StepMeasured ==
  ASSUME HostInv, AnswersMeasured, [Next]_vars
  PROVE  AnswersMeasured'
<1>1. ASSUME NEW r \in Runs, NEW new \in Threads, Sound(new), Becomes(r, new) \/ Interferes(r, new),
             new.answer.tier = "validated_runtime" => new.base.status # 0
      PROVE  AnswersMeasured'
  <2>1. /\ run'[r] = new
        /\ \A s \in Runs \ {r} : run'[s].answer = run[s].answer /\ run'[s].base = run[s].base
    BY <1>1, OthersStaySound
  <2>. QED BY <1>1, <2>1 DEF AnswersMeasured
<1>2. ASSUME NEW r \in Runs, NEW q \in Requests, Receive(r, q)
      PROVE  AnswersMeasured'
  BY <1>1, <1>2, ReceivedThread
<1>3. ASSUME NEW r \in Runs, Work(r)
      PROVE  AnswersMeasured'
  BY <1>1, <1>3, WorkContinues DEF Continues
<1>4. CASE Crash
  <2>1. \A r \in Runs : run'[r].answer = run[r].answer /\ run'[r].base = run[r].base
    BY <1>4 DEF Crash, HostInv, Threads
  <2>. QED BY <2>1 DEF AnswersMeasured
<1>5. CASE ChangeTool \/ UNCHANGED vars
  BY <1>5 DEF ChangeTool, vars, AnswersMeasured
<1>. QED BY <1>2, <1>3, <1>4, <1>5 DEF Next

\* An answer of the tier "validated_runtime" rests on a status that its own run
\* has measured, whatever the second inspection returned
\* (execute_runtime_host_replay, execute_scaffold).
THEOREM ValidationIsMeasured == Spec => []ValidatedIsMeasured
<1>1. Init => AnswersMeasured
  BY DEF Init, AnswersMeasured, NewRun, NoAnswer
<1>2. HostInv /\ AnswersMeasured /\ [Next]_vars => AnswersMeasured'
  BY StepMeasured
<1>3. AnswersMeasured => ValidatedIsMeasured
  BY DEF AnswersMeasured, ValidatedIsMeasured
<1>. QED BY <1>1, <1>2, <1>3, Invariance, PTL DEF Spec

\* Work on containers is the work of a run on those of its pack.
LEMMA ContainersOfWork ==
  ASSUME HostInv, NEW r \in Runs, Work(r), NEW p, (p \in up) # (p \in up')
  PROVE  Pack(r) = p /\ Uses(r) /\ run'[r] # run[r]
<1>1. StopOld(r) \/ Start(r) \/ HangAfterEffect(r) \/ ComposeDown(r)
  BY DEF Work, Reinspect, ResetState, WaitForRuntime, StartupTimeout, Baseline, ApplyMitigation,
         Rerun, ScriptFails, Hang, Machine
<1>5. Uses(r)
  BY <1>1 DEF StopOld, Start, HangAfterEffect, ComposeDown, Uses, Relies, At
<1>6. up' \in {up, up \ {Pack(r)}, up \cup {Pack(r)}}
  BY <1>1 DEF StopOld, Start, HangAfterEffect, ComposeDown
<1>2. Pack(r) = p /\ Uses(r)
  BY <1>5, <1>6
<1>3. PICK new \in Threads : Continues(r, new)
  BY WorkContinues
<1>4. run'[r] = new /\ new.pc # run[r].pc
  BY <1>3, OthersStaySound DEF Continues
<1>. QED BY <1>2, <1>4

\* No step touches the containers of a pack but one of a run of that pack that is
\* under way (ReplicaRunner._compose_up, _compose_down).
THEOREM OnlyRunsTouchContainers == Spec => OnlyTheirRunsTouchContainers
<1>1. HostInv /\ [Next]_vars =>
        [\A p \in Packs : (p \in up) # (p \in up') =>
            \E r \in Runs : Pack(r) = p /\ Uses(r) /\ run'[r] # run[r]]_vars
  <2>. SUFFICES ASSUME HostInv, Next, NEW p \in Packs, (p \in up) # (p \in up')
                PROVE  \E r \in Runs : Pack(r) = p /\ Uses(r) /\ run'[r] # run[r]
    BY DEF vars
  <2>1. PICK r \in Runs : Work(r)
    BY DEF Next, Receive, Machine, Crash, ChangeTool
  <2>. QED BY <2>1, ContainersOfWork
<1>. QED BY <1>1, Invariance, PTL DEF Spec, OnlyTheirRunsTouchContainers

\* As long as the tool stays as it is, what came up can be taken down and is
\* used by a run.
InUse ==
  crashes = 0 /\ changes = 0 =>
    /\ up # {} => tool = "works"
    /\ \A p \in up : \E r \in Runs : Uses(r) /\ Pack(r) = p

\* A run leaves its containers by taking them down, and in no other way.
LEMMA LeavesThroughDown ==
  ASSUME HostInv, NEW r \in Runs, Work(r), Uses(r), ~ComposeDown(r)
  PROVE  Uses(r)' /\ Pack(r)' = Pack(r)
<1>1. run[r] \in Threads /\ \A s \in Runs : run[s] \in Threads
  BY DEF HostInv
<1>2. ASSUME NEW pc \in {"start", "wait", "baseline", "hook", "rerun", "down", "hung"}, NEW new \in Threads,
             new.pc = pc, new.asked = run[r].asked, Becomes(r, new) \/ Interferes(r, new)
      PROVE  Uses(r)' /\ Pack(r)' = Pack(r)
  <2>1. run'[r] = new
    BY <1>2 DEF Becomes, Interferes, HostInv
  <2>. QED BY <1>2, <2>1 DEF Uses, Relies, At, Pack
<1>3. PICK new \in Threads : Continues(r, new)
  BY WorkContinues
<1>4. run'[r] = new /\ new.asked = run[r].asked
  BY <1>3, OthersStaySound DEF Continues
<1>5. new.pc \in {"start", "wait", "baseline", "hook", "rerun", "down", "hung"}
  <2>1. ASSUME NEW x, Becomes(r, x) \/ Interferes(r, x)
        PROVE  new = x
    BY <2>1, <1>4 DEF Becomes, Interferes, HostInv
  <2>2. \A pc : /\ [run[r] EXCEPT !.pc = pc].pc = pc
               /\ [run[r] EXCEPT !.pc = pc, !.raised = TRUE].pc = pc
    BY <1>1 DEF Threads
  <2>3. CASE Raises(r)
    <3>1. new.pc = "down"
      BY <2>1, <2>2, <2>3 DEF Raises
    <3>. QED BY ONLY <3>1
  <2>4. ~Reinspect(r) /\ ~ResetState(r)
    BY DEF Reinspect, ResetState, Uses, Relies, At
  <2>5. CASE StopOld(r) \/ Start(r) \/ StartupTimeout(r) \/ ScriptFails(r)
    BY <2>1, <2>2, <2>3, <2>5 DEF StopOld, Start, StartupTimeout, ScriptFails, Goto
  <2>6. CASE WaitForRuntime(r) \/ ApplyMitigation(r)
    BY <2>1, <2>2, <2>6 DEF WaitForRuntime, ApplyMitigation, Goto
  <2>7. CASE Baseline(r)
    <3> DEFINE x == [run[r] EXCEPT !.base = ReplaySignal(Pack(r), dir[Pack(r)], Pack(r) \in up),
                                   !.pc = IF HooksLeft(r, 0) THEN "hook" ELSE "down"]
    <3>1. x.pc \in {"hook", "down"}
      BY <1>1 DEF Threads
    <3>2. Becomes(r, x)
      BY <2>7 DEF Baseline
    <3>. QED BY <2>1, <3>1, <3>2
  <2>8. CASE Rerun(r)
    <3> DEFINE x == [run[r] EXCEPT
                       !.reruns = Append(@, ReplaySignal(Pack(r), dir[Pack(r)], Pack(r) \in up)),
                       !.pc = IF HooksLeft(r, NextHook(r)) THEN "hook" ELSE "down"]
    <3>1. x.pc \in {"hook", "down"}
      BY <1>1 DEF Threads
    <3>2. Becomes(r, x)
      BY <2>8 DEF Rerun
    <3>. QED BY <2>1, <3>1, <3>2
  <2>9. CASE Hang(r) \/ HangAfterEffect(r)
    BY <2>1, <2>2, <2>9 DEF Hang, HangAfterEffect, Goto
  <2>. QED BY <2>4, <2>5, <2>6, <2>7, <2>8, <2>9 DEF Work
<1>. QED BY <1>2, <1>3, <1>4, <1>5 DEF Continues

LEMMA StepInUse ==
  ASSUME HostInv, InUse, [Next]_vars
  PROVE  InUse'
<1>. SUFFICES ASSUME crashes' = 0, changes' = 0
              PROVE  /\ up' # {} => tool' = "works"
                     /\ \A p \in up' : \E r \in Runs : Uses(r)' /\ Pack(r)' = p
  BY DEF InUse
<1>1. ASSUME NEW r \in Runs, NEW q \in Requests, Receive(r, q)
      PROVE  /\ up' # {} => tool' = "works"
             /\ \A p \in up' : \E s \in Runs : Uses(s)' /\ Pack(s)' = p
  <2>1. UNCHANGED <<tool, up, crashes, changes>> /\ ~Uses(r)
    BY <1>1 DEF Receive, Machine, Uses, Relies, At
  <2>2. \A s \in Runs \ {r} : run'[s].pc = run[s].pc /\ run'[s].asked = run[s].asked
    BY <1>1, ReceivedThread, OthersStaySound
  <2>3. \A s \in Runs \ {r} : Uses(s) => Uses(s)' /\ Pack(s)' = Pack(s)
    BY <2>2 DEF Uses, Relies, At, Pack
  <2>. QED BY <2>1, <2>3 DEF InUse
<1>2. ASSUME NEW r \in Runs, Work(r)
      PROVE  /\ up' # {} => tool' = "works"
             /\ \A p \in up' : \E s \in Runs : Uses(s)' /\ Pack(s)' = p
  <2>1. UNCHANGED <<tool, crashes, changes>>
    BY <1>2, WorkOnTheMachine
  <2>2. \A s \in Runs \ {r} : run'[s].pc = run[s].pc /\ run'[s].asked = run[s].asked
    BY <1>2, WorkContinues, OthersStaySound DEF Continues
  <2>3. \A s \in Runs \ {r} : Uses(s) => Uses(s)' /\ Pack(s)' = Pack(s)
    BY <2>2 DEF Uses, Relies, At, Pack
  <2>4. CASE ComposeDown(r)
    <3>1. tool = "works" => up' = up \ {Pack(r)}
      BY <2>4 DEF ComposeDown
    <3>2. up' \subseteq up
      BY <2>4 DEF ComposeDown
    <3>. QED BY <2>1, <2>3, <3>1, <3>2 DEF InUse
  <2>5. CASE ~ComposeDown(r)
    <3>1. up' # {} => tool = "works"
      BY <1>2, <2>1 DEF Work, Reinspect, ResetState, StopOld, Start, WaitForRuntime, StartupTimeout,
             Baseline, ApplyMitigation, Rerun, ScriptFails, Hang, HangAfterEffect, ComposeDown, Machine, InUse
    <3>2. Uses(r) => Uses(r)' /\ Pack(r)' = Pack(r)
      BY <1>2, <2>5, LeavesThroughDown
    <3>3. \A p \in up' \ up : Uses(r) /\ Pack(r) = p
      BY <1>2, ContainersOfWork
    <3>. QED BY <2>1, <2>3, <3>1, <3>2, <3>3 DEF InUse
  <2>. QED BY <2>4, <2>5
<1>3. CASE Crash
  BY <1>3, HostAssumption DEF Crash, HostInv
<1>4. CASE ChangeTool
  BY <1>4, HostAssumption DEF ChangeTool, HostInv
<1>5. CASE UNCHANGED vars
  BY <1>5 DEF vars, InUse, Uses, Relies, At, Pack
<1>. QED BY <1>1, <1>2, <1>3, <1>4, <1>5 DEF Next

\* However the runs of a pack end, its containers do not outlive the last of
\* them (the finally clause of ReplicaRunner.execute_scaffold), as long as the
\* process and the compose tool stay.
THEOREM ContainersAreReleased == Spec => []ContainersReleased
<1>1. Init => InUse
  BY DEF Init, InUse
<1>2. HostInv /\ InUse /\ [Next]_vars => InUse'
  BY StepInUse
<1>3. InUse => ContainersReleased
  BY DEF InUse, ContainersReleased
<1>. QED BY <1>1, <1>2, <1>3, Invariance, PTL DEF Spec

-----------------------------------------------------------------------------
(* What an undisturbed run measures *)

\* The packs with a reset and all their scripts.
Resettable == {"auth-redis", "postgres"}

\* What a thread has measured so far and what it is going to measure: as long
\* as no other run of the pack came between, the directory is what the run's own
\* reset and hooks made of it, and the containers it waited for are up.
MeasuresSoFar(x) ==
  LET p    == x.asked.pack
      done == Len(x.reruns)
  IN ~x.disturbed /\ p \in Resettable =>
       /\ x.pc \in {"stop old", "start", "wait", "baseline", "hook"} => dir[p] = DirAfter(p, done)
       /\ x.pc = "rerun" => dir[p] = DirAfter(p, done + 1)
       /\ x.pc \in {"baseline", "hook", "rerun"} => p \in up
       /\ x.pc \in {"hook", "rerun"} \/ (x.pc \in {"down", "answered"} /\ x.executed /\ ~x.raised) =>
             x.base.status = ExpectedBaseline(p)
       /\ \A i \in 1 .. done : x.reruns[i] = ReplaySignal(p, DirAfter(p, i), TRUE)

\* A run counts as executed from its reset on.
Executed(x) == x.executed => x.asked.pack \in Runnable /\ x.pc \notin {"idle", "admitted", "reset"}

MeasuresInv == \A r \in Runs : MeasuresSoFar(run[r]) /\ Executed(run[r])

LEMMA RunnableMeans == Runnable \subseteq Resettable \cup {"catalog"}
<1>. SUFFICES ASSUME NEW p \in {"auth-validation", "kafka"} PROVE AssetsMissing(p)
  BY DEF Runnable, Packs, Resettable
<1>1. CASE p = "auth-validation"
  <2>1. "reset_circuit_breaker" \in ToSet(MitigationHooks(p))
    <3>1. 1 \in DOMAIN MitigationHooks(p) /\ MitigationHooks(p)[1] = "reset_circuit_breaker"
      BY <1>1 DEF MitigationHooks
    <3>. QED BY <3>1 DEF ToSet
  <2>2. "reset_circuit_breaker" \notin HookScripts(p)
    BY <1>1 DEF HookScripts
  <2>. QED BY <2>1, <2>2 DEF AssetsMissing
<1>2. CASE p = "kafka"
  <2>1. "force_rebalance" \in ToSet(MitigationHooks(p))
    <3>1. 1 \in DOMAIN MitigationHooks(p) /\ MitigationHooks(p)[1] = "force_rebalance"
      BY <1>2 DEF MitigationHooks
    <3>. QED BY <3>1 DEF ToSet
  <2>2. "force_rebalance" \notin HookScripts(p)
    BY <1>2 DEF HookScripts
  <2>. QED BY <2>1, <2>2 DEF AssetsMissing
<1>. QED BY <1>1, <1>2

\* Each hook takes the directory one step on from the reset.
LEMMA HookByHook ==
  ASSUME NEW p \in Resettable
  PROVE  /\ DirAfter(p, 0) = Defaults(p) /\ Resets(p)
         /\ Len(MitigationHooks(p)) = 3
         /\ \A n \in 0 .. 2 : DirAfter(p, n + 1) = ApplyHook(MitigationHooks(p)[n + 1], DirAfter(p, n))
<1>1. Resets(p) /\ Len(MitigationHooks(p)) = 3
  BY DEF Resettable, Resets, MitigationHooks
<1>2. DirAfter(p, 0) = Defaults(p)
  BY DEF DirAfter
<1>3. DirAfter(p, 1) = ApplyHook(MitigationHooks(p)[1], Defaults(p))
  BY DEF DirAfter
<1>4. DirAfter(p, 2) = ApplyHook(MitigationHooks(p)[2], DirAfter(p, 1))
  BY DEF DirAfter
<1>5. DirAfter(p, 3) = ApplyHook(MitigationHooks(p)[3], DirAfter(p, 2))
  BY DEF DirAfter
<1>6. \A n \in 0 .. 2 : n = 0 \/ n = 1 \/ n = 2
  OBVIOUS
<1>. QED BY <1>1, <1>2, <1>3, <1>4, <1>5, <1>6

\* The defaults of a pack answer with the status that the registry announces.
LEMMA BaselineIsAnnounced ==
  ASSUME NEW p \in Resettable
  PROVE  ReplaySignal(p, Defaults(p), TRUE).status = ExpectedBaseline(p)
<1>1. CASE p = "auth-redis"
  BY <1>1 DEF ReplaySignal, Defaults, GatewayAnswer, ExpectedBaseline
<1>2. CASE p = "postgres"
  BY <1>2 DEF ReplaySignal, Defaults, CheckoutAnswer, ExpectedBaseline
<1>. QED BY <1>1, <1>2 DEF Resettable

LEMMA SignalOfUp ==
  ASSUME NEW p, NEW d, p \in up
  PROVE  ReplaySignal(p, d, p \in up) = ReplaySignal(p, d, TRUE)
BY DEF ReplaySignal

\* A step of one run leaves what the others have measured and rely on, or they
\* are disturbed.
LEMMA OthersMeasure ==
  ASSUME HostInv, MeasuresInv, NEW r \in Runs, NEW new,
         Becomes(r, new) \/ Interferes(r, new),
         \A p \in Runnable \ {Pack(r)} : dir'[p] = dir[p] /\ (p \in up' <=> p \in up),
         Interferes(r, new) \/ UNCHANGED <<dir, up>>,
         NEW s \in Runs, s # r
  PROVE  MeasuresSoFar(run[s])' /\ Executed(run[s])'
<1>1. run[s] \in Threads /\ MeasuresSoFar(run[s]) /\ Executed(run[s]) /\ UnderWay(s)
  BY DEF HostInv, MeasuresInv
<1>2. CASE run'[s] = [run[s] EXCEPT !.disturbed = TRUE]
  <2>1. /\ run'[s].disturbed /\ run'[s].executed = run[s].executed /\ run'[s].asked = run[s].asked
        /\ run'[s].pc = run[s].pc
    BY <1>1, <1>2 DEF Threads
  <2>2. Executed(run[s])'
    BY <1>1, <2>1 DEF Executed
  <2>. QED BY <2>1, <2>2 DEF MeasuresSoFar
<1>3. CASE run'[s] = run[s] /\ (UNCHANGED <<dir, up>> \/ Pack(s) # Pack(r) \/ ~Relies(s))
  <2>1. UNCHANGED <<dir, up>> \/ ~Relies(s) \/
        (Pack(s) \in Runnable /\ dir'[Pack(s)] = dir[Pack(s)] /\ (Pack(s) \in up' <=> Pack(s) \in up))
    BY <1>1, <1>3 DEF UnderWay, Relies
  <2>2. Executed(run[s])'
    BY <1>1, <1>3 DEF Executed
  <2>. QED BY <1>1, <1>3, <2>1, <2>2 DEF MeasuresSoFar, Relies, Pack
<1>4. \/ run'[s] = [run[s] EXCEPT !.disturbed = TRUE]
      \/ run'[s] = run[s] /\ (UNCHANGED <<dir, up>> \/ Pack(s) # Pack(r) \/ ~Relies(s))
  BY DEF Becomes, Interferes, HostInv
<1>. QED BY <1>2, <1>3, <1>4

LEMMA PacksApart ==
  ASSUME HostInv, NEW r \in Runs, Work(r)
  PROVE  /\ \A p \in Runnable \ {Pack(r)} : dir'[p] = dir[p] /\ (p \in up' <=> p \in up)
         /\ (\E new : Interferes(r, new)) \/ UNCHANGED <<dir, up>>
<1>1. UNCHANGED dir \/ \E d : dir' = [dir EXCEPT ![Pack(r)] = d]
  BY DEF Work, Reinspect, ResetState, StopOld, Start, WaitForRuntime, StartupTimeout, Baseline,
         ApplyMitigation, Rerun, ScriptFails, Hang, HangAfterEffect, ComposeDown, Machine
<1>2. up' \in {up, up \ {Pack(r)}, up \cup {Pack(r)}}
  BY DEF Work, Reinspect, ResetState, StopOld, Start, WaitForRuntime, StartupTimeout, Baseline,
         ApplyMitigation, Rerun, ScriptFails, Hang, HangAfterEffect, ComposeDown, Machine
<1>3. (\E new : Interferes(r, new)) \/ UNCHANGED <<dir, up>>
  BY DEF Work, Reinspect, ResetState, StopOld, Start, WaitForRuntime, StartupTimeout, Baseline,
         ApplyMitigation, Rerun, ScriptFails, Hang, HangAfterEffect, ComposeDown, Machine
<1>. QED BY <1>1, <1>2, <1>3 DEF HostInv

\* A step of the run itself: x is its thread before the step, new the one after.
LEMMA OwnMeasures ==
  ASSUME HostInv, MeasuresInv, NEW r \in Runs, Work(r)
  PROVE  MeasuresSoFar(run[r])' /\ Executed(run[r])'
<1> DEFINE x == run[r]
           p == Pack(r)
           done == Len(x.reruns)
           seen == ReplaySignal(p, dir[p], p \in up)
<1>1. /\ x \in Threads /\ Sound(x) /\ p \in Runnable /\ MeasuresSoFar(x) /\ Executed(x)
      /\ done \in Nat /\ x.asked.pack = p /\ x.reruns \in Seq(Signals)
  <2>1. x \in Threads /\ Sound(x) /\ p \in Runnable
    BY WorkContinues, AtWork
  <2>2. x.reruns \in Seq(Signals)
    BY <2>1 DEF Threads
  <2>. QED BY <2>1, <2>2 DEF MeasuresInv, Pack
<1>2. ASSUME NEW new, Becomes(r, new) \/ Interferes(r, new)
      PROVE  run'[r] = new
  BY <1>2 DEF Becomes, Interferes, HostInv
\* Steps that measure nothing and keep what was measured.
<1>3. ASSUME NEW new, Becomes(r, new) \/ Interferes(r, new),
             new.asked = x.asked, new.reruns = x.reruns, new.base = x.base,
             new.disturbed = x.disturbed,
             new.executed => new.pc \notin {"idle", "admitted", "reset"},
             ~x.disturbed /\ p \in Resettable =>
                /\ new.pc \in {"stop old", "start", "wait", "baseline", "hook"} => dir'[p] = DirAfter(p, done)
                /\ new.pc = "rerun" => dir'[p] = DirAfter(p, done + 1)
                /\ new.pc \in {"baseline", "hook", "rerun"} => p \in up'
                /\ new.pc \in {"hook", "rerun"} \/ (new.pc \in {"down", "answered"} /\ new.executed /\ ~new.raised) =>
                      x.base.status = ExpectedBaseline(p)
      PROVE  MeasuresSoFar(run[r])' /\ Executed(run[r])'
  <2>1. run'[r] = new
    BY <1>2, <1>3
  <2>2. ~x.disturbed /\ p \in Resettable =>
           \A i \in 1 .. done : x.reruns[i] = ReplaySignal(p, DirAfter(p, i), TRUE)
    BY <1>1 DEF MeasuresSoFar
  <2>3. Executed(new)
    BY <1>1, <1>3 DEF Executed
  <2>4. Executed(run[r])'
    BY <2>1, <2>3 DEF Executed
  <2>. QED BY <1>1, <1>3, <2>1, <2>2, <2>4 DEF MeasuresSoFar
\* The fields of the threads that steps make.
<1>4. \A pc : /\ Goto(r, pc).pc = pc /\ Goto(r, pc).asked = x.asked /\ Goto(r, pc).reruns = x.reruns
              /\ Goto(r, pc).base = x.base /\ Goto(r, pc).disturbed = x.disturbed
              /\ Goto(r, pc).executed = x.executed /\ Goto(r, pc).raised = x.raised
  BY <1>1 DEF Goto, Threads
<1>5. CASE Raises(r)
  <2> DEFINE new == [run[r] EXCEPT !.pc = "down", !.raised = TRUE]
  <2>1. /\ Becomes(r, new) /\ new.pc = "down" /\ new.raised /\ new.asked = x.asked
        /\ new.reruns = x.reruns /\ new.base = x.base /\ new.disturbed = x.disturbed
    BY <1>1, <1>5 DEF Raises, Threads
  <2>. HIDE DEF new
  <2>. QED BY <1>3, <2>1
<1>6. CASE Reinspect(r)
  <2>1. ~x.executed
    BY <1>1, <1>6 DEF Executed, Reinspect, At
  <2>2. CASE Becomes(r, Goto(r, "reset"))
    BY <1>3, <1>4, <2>1, <2>2
  <2>3. CASE Becomes(r, [run[r] EXCEPT !.pc = "answered", !.answer = AnswerExecuted(Pack(r), 0)])
    <3> DEFINE new == [run[r] EXCEPT !.pc = "answered", !.answer = AnswerExecuted(Pack(r), 0)]
    <3>1. /\ Becomes(r, new) /\ new.pc = "answered" /\ new.executed = x.executed /\ new.asked = x.asked
          /\ new.reruns = x.reruns /\ new.base = x.base /\ new.disturbed = x.disturbed
      BY <1>1, <2>3 DEF Threads
    <3>. HIDE DEF new
    <3>. QED BY <1>3, <2>1, <3>1
  <2>. QED BY <1>6, <2>2, <2>3 DEF Reinspect
<1>7. CASE ResetState(r)
  <2> DEFINE new == [Goto(r, "stop old") EXCEPT !.executed = TRUE]
  <2>1. /\ Interferes(r, new) /\ new.pc = "stop old" /\ new.asked = x.asked
        /\ new.reruns = x.reruns /\ new.base = x.base /\ new.disturbed = x.disturbed
    BY <1>1, <1>7 DEF ResetState, Goto, Threads
  <2>2. done = 0
    <3>1. x.reruns = <<>>
      BY <1>1, <1>7 DEF ResetState, At, Sound
    <3>. QED BY <3>1
  <2>3. p \in Resettable => dir'[p] = DirAfter(p, 0)
    BY <1>1, <1>7, HookByHook DEF ResetState, HostInv
  <2>. HIDE DEF new
  <2>. QED BY <1>3, <2>1, <2>2, <2>3
<1>8. CASE StopOld(r) /\ ~Raises(r)
  <2>1. Interferes(r, Goto(r, "start")) /\ UNCHANGED dir /\ x.pc = "stop old"
    BY <1>8 DEF StopOld, At
  <2>2. ~x.disturbed /\ p \in Resettable => dir[p] = DirAfter(p, done)
    BY <1>1, <2>1 DEF MeasuresSoFar
  <2>. QED BY <1>3, <1>4, <2>1, <2>2
<1>9. CASE Start(r) /\ ~Raises(r)
  <2>1. Interferes(r, Goto(r, "wait")) /\ UNCHANGED dir /\ x.pc = "start"
    BY <1>9 DEF Start, At
  <2>2. ~x.disturbed /\ p \in Resettable => dir[p] = DirAfter(p, done)
    BY <1>1, <2>1 DEF MeasuresSoFar
  <2>. QED BY <1>3, <1>4, <2>1, <2>2
<1>10. CASE WaitForRuntime(r)
  <2>1. /\ Becomes(r, Goto(r, "baseline")) /\ UNCHANGED <<dir, up>> /\ x.pc = "wait"
        /\ p \in up \cup {"catalog"}
    BY <1>10 DEF WaitForRuntime, At, Machine
  <2>2. ~x.disturbed /\ p \in Resettable => dir[p] = DirAfter(p, done) /\ p \in up
    BY <1>1, <2>1 DEF MeasuresSoFar, Resettable
  <2> DEFINE new == Goto(r, "baseline")
  <2>3. /\ Becomes(r, new) /\ new.pc = "baseline" /\ new.asked = x.asked /\ new.reruns = x.reruns
        /\ new.base = x.base /\ new.disturbed = x.disturbed
    BY <1>4, <2>1
  <2>4. UNCHANGED <<dir, up>>
    BY <2>1
  <2>. HIDE DEF new, done
  <2>. QED BY <1>3, <2>2, <2>3, <2>4
<1>11. CASE Baseline(r)
  <2> DEFINE next == IF HooksLeft(r, 0) THEN "hook" ELSE "down"
             new == [run[r] EXCEPT !.base = seen, !.pc = next]
  <2>1. Becomes(r, new) /\ UNCHANGED <<dir, up>> /\ x.pc = "baseline"
    BY <1>11 DEF Baseline, At, Machine
  <2>2. next \in {"hook", "down"}
    OBVIOUS
  <2>3. /\ new.pc = next /\ new.asked = x.asked /\ new.reruns = x.reruns
        /\ new.base = seen /\ new.disturbed = x.disturbed /\ new.executed = x.executed
    BY <1>1 DEF Threads
  <2>. HIDE DEF next, new
  <2>4. ASSUME ~x.disturbed, p \in Resettable
        PROVE  /\ dir[p] = DirAfter(p, done) /\ p \in up /\ done = 0
               /\ seen.status = ExpectedBaseline(p)
    <3>1. dir[p] = DirAfter(p, done) /\ p \in up /\ done = 0
      BY <1>1, <2>1, <2>4 DEF MeasuresSoFar, Sound
    <3>2. dir[p] = Defaults(p)
      BY <2>4, <3>1, HookByHook
    <3>. QED BY <2>4, <3>1, <3>2, BaselineIsAnnounced, SignalOfUp
  <2>. HIDE DEF seen
  <2>5. run'[r] = new
    BY <1>2, <2>1
  <2>6. Executed(run[r])'
    BY <1>1, <2>2, <2>3, <2>5 DEF Executed
  <2>7. MeasuresSoFar(run[r])'
    BY <1>1, <2>1, <2>2, <2>3, <2>4, <2>5 DEF MeasuresSoFar
  <2>. QED BY <2>6, <2>7
<1>12. CASE ApplyMitigation(r)
  <2>1. /\ Interferes(r, Goto(r, "rerun")) /\ UNCHANGED up /\ x.pc = "hook"
        /\ dir' = [dir EXCEPT ![p] = ApplyHook(MitigationHooks(p)[done + 1], dir[p])]
    BY <1>12 DEF ApplyMitigation, At, NextHook
  <2>2. ASSUME ~x.disturbed, p \in Resettable
        PROVE  dir'[p] = DirAfter(p, done + 1) /\ p \in up /\ x.base.status = ExpectedBaseline(p)
    <3>1. dir[p] = DirAfter(p, done) /\ p \in up /\ x.base.status = ExpectedBaseline(p)
      BY <1>1, <2>1, <2>2 DEF MeasuresSoFar
    <3>2. done \in 0 .. 2
      <4>1. done < Len(MitigationHooks(p)) /\ Len(MitigationHooks(p)) = 3
        BY <1>1, <2>1, <2>2, HookByHook DEF Sound
      <4>2. done \in Nat /\ done < 3
        BY <1>1, <4>1
      <4>. HIDE DEF done
      <4>. QED BY ONLY <4>2
    <3>3. dir'[p] = ApplyHook(MitigationHooks(p)[done + 1], dir[p])
      BY <1>1, <2>1 DEF HostInv
    <3>. QED BY <2>2, <3>1, <3>2, <3>3, HookByHook
  <2> DEFINE new == Goto(r, "rerun")
  <2>3. /\ Interferes(r, new) /\ new.pc = "rerun" /\ new.asked = x.asked /\ new.reruns = x.reruns
        /\ new.base = x.base /\ new.disturbed = x.disturbed
    BY <1>4, <2>1
  <2>4. UNCHANGED up
    BY <2>1
  <2>. HIDE DEF new, done
  <2>. QED BY <1>3, <2>2, <2>3, <2>4
<1>13. CASE Rerun(r)
  <2> DEFINE next == IF HooksLeft(r, NextHook(r)) THEN "hook" ELSE "down"
             new == [run[r] EXCEPT !.reruns = Append(@, seen), !.pc = next]
  <2>1. Becomes(r, new) /\ UNCHANGED <<dir, up>> /\ x.pc = "rerun"
    BY <1>13 DEF Rerun, At, Machine
  <2>2. next \in {"hook", "down"}
    OBVIOUS
  <2>3. /\ new.pc = next /\ new.asked = x.asked /\ new.reruns = Append(x.reruns, seen)
        /\ new.base = x.base /\ new.disturbed = x.disturbed /\ new.executed = x.executed
    BY <1>1 DEF Threads
  <2>. HIDE DEF next, new
  <2>4. ASSUME ~x.disturbed, p \in Resettable
        PROVE  /\ dir[p] = DirAfter(p, done + 1) /\ p \in up
               /\ x.base.status = ExpectedBaseline(p)
               /\ seen = ReplaySignal(p, DirAfter(p, done + 1), TRUE)
               /\ \A i \in 1 .. done : x.reruns[i] = ReplaySignal(p, DirAfter(p, i), TRUE)
    <3>1. /\ dir[p] = DirAfter(p, done + 1) /\ p \in up
          /\ x.base.status = ExpectedBaseline(p)
          /\ \A i \in 1 .. done : x.reruns[i] = ReplaySignal(p, DirAfter(p, i), TRUE)
      BY <1>1, <2>1, <2>4 DEF MeasuresSoFar
    <3>. QED BY <3>1, SignalOfUp
  <2>5. seen \in Signals
    BY <1>1, ReplaySignalTyped DEF HostInv
  <2>. HIDE DEF seen
  <2>6. /\ Len(new.reruns) = done + 1 /\ new.reruns[done + 1] = seen
        /\ \A i \in 1 .. done : new.reruns[i] = x.reruns[i]
        /\ \A i \in 1 .. Len(new.reruns) : i \in 1 .. done \/ i = done + 1
    BY <1>1, <2>3, <2>5
  <2>7. run'[r] = new
    BY <1>2, <2>1
  <2>8. Executed(run[r])'
    BY <1>1, <2>1, <2>2, <2>3, <2>7 DEF Executed
  <2>9. MeasuresSoFar(run[r])'
    BY <1>1, <2>1, <2>2, <2>3, <2>4, <2>6, <2>7 DEF MeasuresSoFar
  <2>. QED BY <2>8, <2>9
<1>14. CASE ComposeDown(r)
  <2>1. PICK answer : Interferes(r, [run[r] EXCEPT !.pc = "answered", !.answer = answer]) /\ x.pc = "down"
    BY <1>14 DEF ComposeDown, At
  <2> DEFINE new == [run[r] EXCEPT !.pc = "answered", !.answer = answer]
  <2>2. /\ Interferes(r, new) /\ new.pc = "answered" /\ new.executed = x.executed /\ new.asked = x.asked
        /\ new.reruns = x.reruns /\ new.base = x.base /\ new.disturbed = x.disturbed
        /\ new.raised = x.raised
    BY <1>1, <2>1 DEF Threads
  <2>. HIDE DEF new
  <2>3. ~x.disturbed /\ p \in Resettable /\ x.executed /\ ~x.raised => x.base.status = ExpectedBaseline(p)
    BY <1>1, <2>1 DEF MeasuresSoFar
  <2>. QED BY <1>3, <2>2, <2>3
<1>15. CASE StartupTimeout(r) \/ ScriptFails(r)
  BY <1>5, <1>15 DEF StartupTimeout, ScriptFails
<1>16. CASE Hang(r) \/ HangAfterEffect(r)
  <2> DEFINE new == Goto(r, "hung")
  <2>1. Becomes(r, new) \/ Interferes(r, new)
    BY <1>16 DEF Hang, HangAfterEffect
  <2>2. /\ new.pc = "hung" /\ new.asked = x.asked /\ new.reruns = x.reruns
        /\ new.base = x.base /\ new.disturbed = x.disturbed
    BY <1>4
  <2>. HIDE DEF new
  <2>. QED BY <1>3, <2>1, <2>2
<1>. QED BY <1>5, <1>6, <1>7, <1>8, <1>9, <1>10, <1>11, <1>12, <1>13, <1>14, <1>15, <1>16 DEF Work

LEMMA StepMeasures ==
  ASSUME HostInv, MeasuresInv, [Next]_vars
  PROVE  MeasuresInv'
<1>1. ASSUME NEW r \in Runs, NEW q \in Requests, Receive(r, q)
      PROVE  MeasuresInv'
  <2>1. UNCHANGED <<dir, up>>
    BY <1>1 DEF Receive, Machine
  <2>2. PICK new : /\ Becomes(r, new) /\ new.pc \in {"admitted", "answered"} /\ ~new.executed
                   /\ new.reruns = <<>>
    <3> DEFINE asked == [NewRun EXCEPT !.asked = q]
               answer == AnswerUnexecuted(q.pack, Inspected(q.pack))
    <3>1. Becomes(r, [asked EXCEPT !.pc = "admitted"])
          \/ Becomes(r, [asked EXCEPT !.pc = "answered", !.answer = answer])
      BY <1>1 DEF Receive
    <3>2. /\ [asked EXCEPT !.pc = "admitted"].pc = "admitted" /\ ~[asked EXCEPT !.pc = "admitted"].executed
          /\ [asked EXCEPT !.pc = "admitted"].reruns = <<>>
      BY DEF NewRun
    <3>3. /\ [asked EXCEPT !.pc = "answered", !.answer = answer].pc = "answered"
          /\ ~[asked EXCEPT !.pc = "answered", !.answer = answer].executed
          /\ [asked EXCEPT !.pc = "answered", !.answer = answer].reruns = <<>>
      BY DEF NewRun
    <3>. QED BY <3>1, <3>2, <3>3
  <2>3. run'[r] = new /\ \A s \in Runs : s # r => run'[s] = run[s]
    BY <2>2 DEF Becomes, HostInv
  <2>4. MeasuresSoFar(run[r])' /\ Executed(run[r])'
    <3>1. Executed(run[r])'
      BY <2>2, <2>3 DEF Executed
    <3>2. run'[r].pc \in {"admitted", "answered"} /\ ~run'[r].executed /\ run'[r].reruns = <<>>
      BY <2>2, <2>3
    <3>3. Len(run'[r].reruns) = 0
      BY <3>2
    <3>4. 1 .. Len(run'[r].reruns) = {}
      BY <3>3
    <3>5. MeasuresSoFar(run[r])'
      BY ONLY <3>2, <3>4, Zenon DEF MeasuresSoFar
    <3>. QED BY <3>1, <3>5
  <2>5. ASSUME NEW s \in Runs, s # r PROVE MeasuresSoFar(run[s])' /\ Executed(run[s])'
    <3>1. run'[s] = run[s] /\ MeasuresSoFar(run[s]) /\ Executed(run[s])
      BY <2>3, <2>5 DEF MeasuresInv
    <3>2. Executed(run[s])'
      BY <3>1 DEF Executed
    <3>3. MeasuresSoFar(run[s])'
      BY <2>1, <3>1 DEF MeasuresSoFar
    <3>. QED BY <3>2, <3>3
  <2>. QED BY <2>4, <2>5 DEF MeasuresInv
<1>2. ASSUME NEW r \in Runs, Work(r)
      PROVE  MeasuresInv'
  <2>1. PICK new : (Becomes(r, new) \/ Interferes(r, new)) /\ (Interferes(r, new) \/ UNCHANGED <<dir, up>>)
    BY <1>2, PacksApart, WorkContinues DEF Continues
  <2>2. \A s \in Runs : s # r => MeasuresSoFar(run[s])' /\ Executed(run[s])'
    BY <1>2, <2>1, PacksApart, OthersMeasure
  <2>. QED BY <1>2, <2>2, OwnMeasures DEF MeasuresInv
<1>3. CASE Crash
  <2>. SUFFICES ASSUME NEW r \in Runs PROVE MeasuresSoFar(run[r])' /\ Executed(run[r])'
    BY DEF MeasuresInv
  <2>1. run[r] \in Threads /\ MeasuresSoFar(run[r]) /\ Executed(run[r]) /\ UNCHANGED <<dir, up>>
    BY <1>3 DEF HostInv, MeasuresInv, Crash
  <2>2. CASE run'[r] = run[r]
    BY <2>1, <2>2 DEF MeasuresSoFar, Executed
  <2>3. CASE run'[r] = [run[r] EXCEPT !.pc = "lost"]
    <3>1. /\ run'[r].pc = "lost" /\ run'[r].asked = run[r].asked /\ run'[r].reruns = run[r].reruns
          /\ run'[r].disturbed = run[r].disturbed /\ run'[r].executed = run[r].executed
      BY <2>1, <2>3 DEF Threads
    <3>. QED BY <2>1, <3>1 DEF MeasuresSoFar, Executed
  <2>. QED BY <1>3, <2>2, <2>3 DEF Crash
<1>4. CASE ChangeTool \/ UNCHANGED vars
  <2>1. UNCHANGED <<dir, up, run>>
    BY <1>4 DEF ChangeTool, vars
  <2>. QED BY <2>1 DEF MeasuresInv, MeasuresSoFar, Executed
<1>. QED BY <1>1, <1>2, <1>3, <1>4 DEF Next

\* A run that ended without an error and was not disturbed has measured the
\* baseline that the registry announces and then each of its hooks on top of the
\* ones before, whatever earlier runs and crashes left in the directory
\* (ReplicaRunner.execute_scaffold, _reset_runtime_state).
THEOREM UndisturbedRunsMeasure == Spec => []UndisturbedRunsMeasureTheirHooks
<1>1. Init => MeasuresInv
  <2>. SUFFICES ASSUME Init, NEW r \in Runs PROVE MeasuresSoFar(run[r]) /\ Executed(run[r])
    BY DEF MeasuresInv
  <2>1. run[r].pc = "idle" /\ ~run[r].executed /\ run[r].reruns = <<>>
    BY DEF Init, NewRun
  <2>2. Len(run[r].reruns) = 0
    BY <2>1
  <2>. QED BY <2>1, <2>2 DEF MeasuresSoFar, Executed
<1>2. HostInv /\ MeasuresInv /\ [Next]_vars => MeasuresInv'
  BY StepMeasures
<1>3. MeasuresInv => UndisturbedRunsMeasureTheirHooks
  BY RunnableMeans DEF MeasuresInv, MeasuresSoFar, Executed, UndisturbedRunsMeasureTheirHooks, At, Pack
<1>. QED BY <1>1, <1>2, <1>3, Invariance, PTL DEF Spec
=============================================================================
