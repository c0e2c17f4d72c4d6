---------------------------- MODULE StartupProofs ---------------------------
(***************************************************************************)
(* The chain of providers, for any two of them, any settings, scripts and  *)
(* times: who asks for the mock stays off the network, and with provider   *)
(* auto the mock at the end of the chain answers.                          *)
(***************************************************************************)
EXTENDS StartupProperties, TLAPS, WellFoundedInduction

\* There are no providers before they are built, and no request before the
\* runtime serves.
PhaseInv ==
  /\ file \in ConfigFile /\ cli \in CliOverrides
  /\ settings = Resolve(file, env, cli)
  /\ phase \in {"start", "demo", "opened"} => chain = <<>>
  /\ phase # "serving" =>
       /\ at = 0 /\ outcome = "idle"
       /\ clock = 0 /\ since = 0 /\ iter = 0 /\ slow = 0 /\ idle = 0

\* The chain, the place in it, and the times of a request.
CallInv ==
  /\ chain \in Seq(Provider \cup {Mock})
  /\ budget \in Nat /\ clock \in Nat /\ since \in Nat
  /\ iter \in 0..MaxIters /\ slow \in Nat /\ idle \in Nat
  /\ at \in 0..Len(chain)
  /\ outcome \in {"asking", "ok"} => at > 0

\* Who asks for the mock has nothing else in the chain.
MockInv ==
  MockAsked(env, cli) \/ file.mock_planner =>
    contacted = {} /\ chain \in {<<>>, <<Mock>>}

\* The time of a request was taken by its tools and by its providers, each for
\* no longer than its own timeout; the mock is the last of the automatic chain.
AutoInv ==
  /\ since <= HttpTimeout
  /\ since > 0 => slow >= 1 /\ clock <= HttpTimeout * (slow - 1) + since + idle
  /\ since = 0 => clock <= HttpTimeout * slow + idle
  /\ slow <= clock /\ idle <= clock
  /\ settings.provider_kind = "auto" /\ chain # <<>> => chain[Len(chain)] = Mock

IInv == PhaseInv /\ CallInv /\ MockInv /\ AutoInv /\ AutoAnswers
-----------------------------------------------------------------------------
\* With a mock asked for, the chain is the mock.
LEMMA MockKind ==
  ASSUME settings = Resolve(file, env, cli), MockAsked(env, cli) \/ file.mock_planner
  PROVE  KindUsed = "mock"
  BY DEF KindUsed, Resolve, ProviderKind, MockAsked

\* A request has a time that is a number.
LEMMA TimeGiven ==
  ASSUME file \in ConfigFile, cli \in CliOverrides, settings = Resolve(file, env, cli)
  PROVE  settings.timeout \in Nat
<1>1. Given(cli.timeout, file.timeout) \in Nat
  BY DEF Given, ConfigFile, CliOverrides
<1> QED
  BY <1>1 DEF Resolve, AtLeastOne

LEMMA InitIInv == Init => IInv
<1> SUFFICES ASSUME Init PROVE IInv
  OBVIOUS
<1> USE ProviderAssumption DEF Init, InitCall
<1>1. PhaseInv
  BY StartupAssumption DEF PhaseInv
<1>2. CallInv
  BY DEF CallInv
<1>3. MockInv
  BY DEF MockInv
<1>4. AutoInv
  <2>1. HttpTimeout * slow = 0
    BY ProviderAssumption
  <2> QED
    BY <2>1, ProviderAssumption DEF AutoInv
<1>5. AutoAnswers
  BY DEF AutoAnswers
<1> QED
  BY <1>1, <1>2, <1>3, <1>4, <1>5 DEF IInv

\* The automatic chain ends with the mock.
LEMMA AutoChains ==
  ASSUME NEW healthy \in BOOLEAN
  PROVE  /\ AutoChain(healthy) \in Seq(Provider \cup {Mock})
         /\ AutoChain(healthy)[Len(AutoChain(healthy))] = Mock
<1> DEFINE first == IF healthy THEN <<Local>> ELSE <<>>
           second == IF settings.keys THEN <<Remote>> ELSE <<>>
           front == first \o second
<1>1. first \in Seq(Provider) /\ second \in Seq(Provider)
  <2>1. <<Local>> \in Seq(Provider) /\ <<Remote>> \in Seq(Provider) /\ <<>> \in Seq(Provider)
    <3>1. Local \in Provider /\ Remote \in Provider
      BY StartupAssumption
    <3> QED
      BY <3>1
  <2> QED
    BY <2>1
<1> HIDE DEF first, second
<1>2. front \in Seq(Provider)
  BY <1>1
<1> HIDE DEF front
<1>3. AutoChain(healthy) = front \o <<Mock>>
  BY DEF AutoChain, front, first, second
<1>4. front \in Seq(Provider \cup {Mock}) /\ <<Mock>> \in Seq(Provider \cup {Mock})
  BY <1>2
<1>5. front \o <<Mock>> \in Seq(Provider \cup {Mock})
  BY <1>4
<1>6. Len(front \o <<Mock>>) = Len(front) + 1 /\ (front \o <<Mock>>)[Len(front) + 1] = Mock
  BY <1>4
<1> QED
  BY <1>3, <1>5, <1>6

\* The chain that main builds.
LEMMA BuildStep ==
  ASSUME IInv, BuildProvider
  PROVE  IInv'
<1> USE ProviderAssumption, StartupAssumption
<1>1. /\ UNCHANGED <<file, env, cli, settings, call>>
      /\ at = 0 /\ outcome = "idle" /\ clock = 0 /\ since = 0
      /\ iter = 0 /\ slow = 0 /\ idle = 0
      /\ phase' \in {"built", "exited"}
  BY DEF BuildProvider, Built, Exit, IInv, PhaseInv
<1>2. \A healthy \in BOOLEAN :
        /\ AutoChain(healthy) \in Seq(Provider \cup {Mock})
        /\ AutoChain(healthy)[Len(AutoChain(healthy))] = Mock
  BY AutoChains
<1>3. \/ chain' = chain
      \/ KindUsed = "auto" /\ \E healthy \in BOOLEAN : chain' = AutoChain(healthy)
      \/ KindUsed = "mock" /\ chain' = <<Mock>>
      \/ KindUsed = "local" /\ chain' = <<Local>>
      \/ KindUsed = "remote" /\ chain' = <<Remote>>
  BY DEF BuildProvider, Built, Exit
<1>4. PhaseInv'
  BY <1>1 DEF PhaseInv, IInv, call, times
<1>5. CallInv'
  <2>1. chain' \in Seq(Provider \cup {Mock})
    <3>1. Local \in Provider /\ Remote \in Provider
      BY StartupAssumption
    <3>2. \A p \in Provider \cup {Mock} : <<p>> \in Seq(Provider \cup {Mock})
      OBVIOUS
    <3>3. chain \in Seq(Provider \cup {Mock})
      BY DEF IInv, CallInv
    <3> QED
      BY <1>2, <1>3, <3>1, <3>2, <3>3, Zenon
  <2>2. budget' \in Nat
    BY TimeGiven DEF BuildProvider, Built, Exit, IInv, PhaseInv, CallInv
  <2> QED
    BY <1>1, <2>1, <2>2 DEF IInv, CallInv, call, times
<1>6. MockInv'
  BY <1>1, MockKind DEF MockInv, IInv, PhaseInv, BuildProvider, Built, Exit
<1>7. settings.provider_kind = "auto" => chain' = chain \/ chain'[Len(chain')] = Mock
  <2>1. settings.provider_kind = "auto" => KindUsed \in {"mock", "auto"}
    BY DEF KindUsed
  <2>2. <<Mock>>[Len(<<Mock>>)] = Mock
    OBVIOUS
  <2> QED
    BY <1>2, <1>3, <2>1, <2>2
<1>8. AutoInv'
  <2>1. UNCHANGED <<clock, since, slow, idle>> /\ HttpTimeout * slow = 0
    BY <1>1 DEF call, times
  <2> QED
    BY <1>1, <1>7, <2>1 DEF AutoInv, IInv
<1>9. AutoAnswers'
  BY <1>1 DEF AutoAnswers, call, times
<1> QED
  BY <1>4, <1>5, <1>6, <1>8, <1>9 DEF IInv

\* The other steps of main leave the chain alone.
LEMMA MainStep ==
  ASSUME IInv, Open \/ Demo \/ Serve
  PROVE  IInv'
<1>1. UNCHANGED <<file, env, cli, settings, call, chain, budget, contacted>>
  BY DEF Open, Demo, Serve, Exit
<1>2. phase # "serving" /\ (phase' \in {"start", "demo", "opened"} => chain = <<>>)
  BY DEF Open, Demo, Serve, Exit, IInv, PhaseInv
<1>3. PhaseInv'
  BY <1>1, <1>2 DEF PhaseInv, IInv, call, times
<1> QED
  BY <1>1, <1>3 DEF IInv, CallInv, MockInv, AutoInv, AutoAnswers, call, times

\* One more provider that takes time may take all of its own.
LEMMA OneMore ==
  ASSUME NEW n \in Nat
  PROVE  /\ HttpTimeout * n \in Nat
         /\ n >= 1 => HttpTimeout * n = HttpTimeout * (n - 1) + HttpTimeout
  BY ProviderAssumption

\* All the time of a request was taken by its tools and those it asked.
LEMMA TimeTaken ==
  ASSUME CallInv, AutoInv
  PROVE  clock <= HttpTimeout * slow + idle
<1> DEFINE all == HttpTimeout * slow
           but == HttpTimeout * (slow - 1)
<1>1. /\ slow \in Nat /\ since \in Nat /\ clock \in Nat /\ idle \in Nat /\ HttpTimeout \in Nat
      /\ since <= HttpTimeout
      /\ since > 0 => slow >= 1 /\ clock <= but + since + idle
      /\ since = 0 => clock <= all + idle
  BY ProviderAssumption DEF CallInv, AutoInv
<1>2. all \in Nat /\ (slow >= 1 => all = but + HttpTimeout /\ slow - 1 \in Nat)
  BY <1>1, OneMore
<1>3. slow >= 1 => but \in Nat
  BY <1>2, OneMore
<1> HIDE DEF all, but
<1>4. clock <= all + idle
  BY <1>1, <1>2, <1>3
<1> QED
  BY <1>4 DEF all

\* A provider is asked: the time so far stays what it is.
LEMMA PostStep ==
  ASSUME CallInv, AutoInv, NEW place \in 1..Len(chain), Post(place),
         UNCHANGED <<settings, chain, budget, clock, slow, idle>>, iter' \in 0..MaxIters
  PROVE  CallInv' /\ AutoInv'
<1>1. at' = place /\ since' = 0
  BY DEF Post
<1>2. CallInv'
  BY <1>1 DEF CallInv
<1>3. clock <= HttpTimeout * slow + idle
  BY TimeTaken
<1>4. AutoInv'
  BY <1>1, <1>3, ProviderAssumption DEF AutoInv
<1> QED
  BY <1>2, <1>4

\* The next one is asked, or the error of the last is returned: never the
\* mock's.
LEMMA PassOverStep ==
  ASSUME IInv, PassOver, outcome = "asking", Asked # Mock,
         UNCHANGED <<settings, chain, budget>>
  PROVE  CallInv' /\ AutoInv' /\ AutoAnswers'
<1>1. at \in 1..Len(chain) /\ UNCHANGED <<clock, iter, slow, idle>> /\ iter \in 0..MaxIters
  BY DEF IInv, CallInv, PassOver
<1>2. CASE at < Len(chain)
  <2>1. Post(at + 1) /\ outcome' = outcome
    BY <1>2 DEF PassOver
  <2>2. at + 1 \in 1..Len(chain)
    BY <1>1, <1>2
  <2>3. CallInv' /\ AutoInv'
    BY <1>1, <2>1, <2>2, PostStep DEF IInv
  <2> QED
    BY <2>1, <2>3 DEF AutoAnswers, IInv
<1>3. CASE ~ (at < Len(chain))
  <2>1. at' = at /\ since' = since /\ outcome' = "error"
    BY <1>3 DEF PassOver
  <2>2. at = Len(chain) /\ chain # <<>>
    BY <1>1, <1>3
  <2>3. settings.provider_kind # "auto"
    BY <2>2 DEF IInv, AutoInv, Asked
  <2>4. CallInv' /\ AutoInv'
    BY <1>1, <2>1 DEF IInv, CallInv, AutoInv
  <2>5. AutoAnswers'
    BY <2>3 DEF AutoAnswers
  <2> QED
    BY <2>4, <2>5
<1> QED
  BY <1>2, <1>3

\* A step of a completion.
LEMMA CompletionStep ==
  ASSUME IInv, CallStep, UNCHANGED <<settings, chain, budget>>
  PROVE  CallInv' /\ AutoInv' /\ AutoAnswers'
<1> USE ProviderAssumption
<1>1. CASE Complete
  <2>1. /\ at' = 1 /\ since' = 0 /\ clock' = 0 /\ iter' = 1 /\ slow' = 0 /\ idle' = 0
        /\ outcome' = "asking"
    BY <1>1 DEF Complete, Post
  <2>2. 1 \in 0..Len(chain)
    BY <1>1 DEF Complete, IInv, CallInv
  <2>3. CallInv'
    BY <2>1, <2>2 DEF CallInv, IInv
  <2>4. HttpTimeout * slow' = 0
    BY <2>1
  <2>5. AutoInv'
    BY <2>1, <2>4 DEF AutoInv, IInv
  <2> QED
    BY <2>1, <2>3, <2>5 DEF AutoAnswers
<1>2. CASE NextCompletion
  <2>1. /\ Post(1) /\ iter' = iter + 1 /\ iter < MaxIters /\ outcome = "ok" /\ outcome' = "asking"
        /\ UNCHANGED <<clock, slow, idle>>
    BY <1>2 DEF NextCompletion, More
  <2>2. 1 \in 1..Len(chain) /\ iter' \in 0..MaxIters
    BY <2>1 DEF IInv, CallInv
  <2>3. CallInv' /\ AutoInv'
    BY <2>1, <2>2, PostStep DEF IInv
  <2> QED
    BY <2>1, <2>3 DEF AutoAnswers
<1>3. CASE Chunk \/ MockWord
  <2>1. UNCHANGED <<at, clock, since, iter, slow, idle, outcome>>
    BY <1>3 DEF Chunk, MockWord, times
  <2> QED
    BY <2>1 DEF IInv, CallInv, AutoInv, AutoAnswers
<1>4. CASE StreamEnds \/ Whole \/ MockAnswers
  <2>1. /\ UNCHANGED <<at, clock, since, iter, slow, idle>> /\ outcome' = "ok"
        /\ outcome = "asking"
    BY <1>4 DEF StreamEnds, Whole, MockAnswers, Answered, times, Waiting
  <2> QED
    BY <2>1 DEF IInv, CallInv, AutoInv, AutoAnswers
<1>5. CASE ProviderFails \/ HttpTimesOut
  BY <1>5, PassOverStep DEF ProviderFails, HttpTimesOut, Waiting
<1>6. CASE Tick
  <2>1. /\ clock' = clock + 1 /\ since' = since + 1 /\ since < HttpTimeout
        /\ slow' = IF since = 0 THEN slow + 1 ELSE slow
        /\ UNCHANGED <<at, iter, idle, outcome>> /\ outcome = "asking"
    BY <1>6 DEF Tick, Waiting, IInv, CallInv
  <2>2. CallInv'
    BY <2>1 DEF CallInv, IInv
  <2>3. AutoInv'
    <3>1. /\ slow \in Nat /\ clock \in Nat /\ since \in Nat /\ idle \in Nat
          /\ HttpTimeout * slow \in Nat
      BY OneMore DEF IInv, CallInv
    <3>2. slow' - 1 = IF since = 0 THEN slow ELSE slow - 1
      BY <2>1, <3>1
    <3>3. clock' <= HttpTimeout * (slow' - 1) + since' + idle'
      <4>1. CASE since = 0
        <5> DEFINE all == HttpTimeout * slow
        <5>1. clock <= all + idle /\ all \in Nat /\ HttpTimeout * (slow' - 1) = all
          BY <3>1, <3>2, <4>1 DEF IInv, AutoInv
        <5> HIDE DEF all
        <5> QED
          BY <2>1, <3>1, <4>1, <5>1
      <4>2. CASE since > 0
        <5> DEFINE but == HttpTimeout * (slow - 1)
        <5>1. clock <= but + since + idle /\ slow - 1 \in Nat
          BY <3>1, <4>2 DEF IInv, AutoInv
        <5>2. but \in Nat /\ HttpTimeout * (slow' - 1) = but
          BY <3>2, <4>2, <5>1, OneMore
        <5> HIDE DEF but
        <5> QED
          BY <2>1, <3>1, <5>1, <5>2
      <4> QED
        BY <3>1, <4>1, <4>2
    <3>4. /\ since' > 0 /\ since' <= HttpTimeout /\ slow' >= 1
          /\ slow' <= clock' /\ idle' <= clock'
      BY <2>1, <3>1 DEF IInv, AutoInv
    <3>5. settings.provider_kind = "auto" /\ chain # <<>> => chain[Len(chain)] = Mock
      BY DEF IInv, AutoInv
    <3> QED
      BY <3>1, <3>3, <3>4, <3>5, <2>1 DEF AutoInv
  <2> QED
    BY <2>1, <2>2, <2>3 DEF AutoAnswers, IInv
<1>7. CASE ToolsTake
  <2>1. /\ clock' = clock + 1 /\ idle' = idle + 1 /\ outcome = "ok"
        /\ UNCHANGED <<at, since, iter, slow, outcome>>
    BY <1>7 DEF ToolsTake, More
  <2>2. CallInv'
    BY <2>1 DEF CallInv, IInv
  <2>3. AutoInv'
    <3> DEFINE all == HttpTimeout * slow
               but == HttpTimeout * (slow - 1)
    <3>1. /\ all \in Nat /\ (slow >= 1 => slow - 1 \in Nat)
          /\ slow \in Nat /\ clock \in Nat /\ since \in Nat /\ idle \in Nat
      BY OneMore DEF IInv, CallInv
    <3>2. slow >= 1 => but \in Nat
      BY <3>1, OneMore
    <3>3. /\ since > 0 => slow >= 1 /\ clock <= but + since + idle
          /\ since = 0 => clock <= all + idle
      BY DEF IInv, AutoInv
    <3> HIDE DEF all, but
    <3>4. /\ since > 0 => slow >= 1 /\ clock' <= but + since + idle'
          /\ since = 0 => clock' <= all + idle'
      BY <2>1, <3>1, <3>2, <3>3
    <3> QED
      BY <2>1, <3>1, <3>4 DEF IInv, AutoInv, all, but
  <2> QED
    BY <2>1, <2>2, <2>3 DEF AutoAnswers, IInv
<1>8. CASE RequestTimesOut
  <2>1. /\ UNCHANGED <<at, clock, since, iter, slow, idle>> /\ outcome' = "timed_out"
        /\ clock >= budget
    BY <1>8 DEF RequestTimesOut, times
  <2>2. CallInv' /\ AutoInv'
    BY <2>1 DEF CallInv, AutoInv, IInv
  <2>3. budget <= HttpTimeout * slow + idle
    <3> DEFINE all == HttpTimeout * slow
    <3>1. clock <= all + idle /\ all \in Nat
      BY TimeTaken, OneMore DEF IInv, CallInv
    <3> HIDE DEF all
    <3>2. budget <= all + idle
      BY <2>1, <3>1 DEF IInv, CallInv
    <3> QED
      BY <3>2 DEF all
  <2> QED
    BY <2>1, <2>2, <2>3 DEF AutoAnswers
<1> QED
  BY <1>1, <1>2, <1>3, <1>4, <1>5, <1>6, <1>7, <1>8 DEF CallStep

LEMMA StepIInv == IInv /\ [Next]_vars => IInv'
<1> SUFFICES ASSUME IInv, [Next]_vars PROVE IInv'
  OBVIOUS
<1>1. CASE UNCHANGED vars
  BY <1>1 DEF vars, main, call, times, IInv, PhaseInv, CallInv, MockInv, AutoInv, AutoAnswers
<1>2. CASE Completion
  <2>1. CallInv' /\ AutoInv' /\ AutoAnswers'
    BY <1>2, CompletionStep DEF Completion
  <2>2. PhaseInv'
    BY <1>2 DEF Completion, PhaseInv, IInv
  <2>3. MockInv'
    <3> SUFFICES ASSUME MockAsked(env, cli) \/ file.mock_planner
                 PROVE  contacted' = {} /\ chain \in {<<>>, <<Mock>>}
      BY <1>2 DEF MockInv, Completion
    <3>1. contacted = {} /\ chain \in {<<>>, <<Mock>>}
      BY DEF IInv, MockInv
    <3>2. at' = 0 \/ chain[at'] = Mock
      BY <1>2, <2>1, <3>1 DEF CallInv, Completion
    <3> QED
      BY <1>2, <3>1, <3>2 DEF Completion
  <2> QED
    BY <2>1, <2>2, <2>3 DEF IInv
<1> QED
  BY <1>1, <1>2, BuildStep, MainStep DEF Next

\* Every reachable state satisfies the invariant that the theorems below rest on.
THEOREM Invariant == Spec => []IInv
  BY InitIInv, StepIInv, PTL DEF Spec

\* A mock that was asked for in any way keeps the runtime off the network.
THEOREM StaysOffline == Spec => []MockStaysOffline
<1>1. IInv => MockStaysOffline
  BY DEF IInv, MockInv, MockStaysOffline
<1> QED
  BY <1>1, Invariant, PTL

\* Provider auto never returns an error, and a request of it runs out of time
\* only if its tools and the providers it asked used that up, however many
\* completions it had.
THEOREM AutoEnds == Spec => []AutoAnswers
  BY Invariant, PTL DEF IInv

-----------------------------------------------------------------------------
(* Types *)

\* TypeOK of what main keeps, and of a request.
MainTypes ==
  /\ settings \in Resolved
  /\ phase \in {"start", "demo", "opened", "built", "serving", "exited"}
  /\ tools \in {"none", "mock", "real"}
  /\ workers \subseteq {"feed", "automation", "auto_diagnose", "telemetry"}
  /\ contacted \subseteq Provider
  /\ phase \in {"built", "serving"} => budget >= 1

CallTypes ==
  /\ streaming \in BOOLEAN /\ split \in BOOLEAN /\ cut \in BOOLEAN
  /\ clock <= budget
  /\ script \in Scripts \cup {<<>>} /\ arrived \in 0..(2 * Len(script))
  /\ outcome \in {"idle", "asking", "ok", "error", "timed_out"}

TypesInv == MainTypes /\ CallTypes

\* What the settings resolve to.
LEMMA ResolvedType ==
  ASSUME NEW f \in ConfigFile, NEW e \in Environment, NEW c \in CliOverrides
  PROVE  Resolve(f, e, c) \in Resolved
<1>1. Given(c.timeout, f.timeout) \in Nat
  BY DEF Given, ConfigFile, CliOverrides
<1>2. AtLeastOne(Given(c.timeout, f.timeout)) \in Nat \ {0}
  BY <1>1 DEF AtLeastOne
<1>3. ProviderKind(f, e, c) \in Kind \cup {Typo}
  BY DEF ProviderKind, Given, Kind, ConfigFile, CliOverrides
<1>4. TelemetryEnabled(f, e, c) \in BOOLEAN
  BY DEF TelemetryEnabled
<1>5. /\ f.real_linux \in BOOLEAN /\ c.real_linux \in BOOLEAN
      /\ f.mock_planner \in BOOLEAN /\ c.mock_planner \in BOOLEAN
      /\ e.mode_mock \in BOOLEAN /\ f.keys \in BOOLEAN /\ e.keys \in BOOLEAN
      /\ f.memory \in BOOLEAN /\ c.no_memory \in BOOLEAN
      /\ f.automation \in BOOLEAN /\ c.no_automation \in BOOLEAN
      /\ f.auto_diagnose \in BOOLEAN /\ c.auto_diagnose \in BOOLEAN
      /\ c.no_auto_diagnose \in BOOLEAN
  BY DEF ConfigFile, Environment, CliOverrides
<1> QED
  BY <1>2, <1>3, <1>4, <1>5 DEF Resolve, Resolved

LEMMA InitTypes == Init => TypesInv
<1> SUFFICES ASSUME Init PROVE TypesInv
  OBVIOUS
<1>1. settings \in Resolved
  BY ResolvedType, StartupAssumption DEF Init
<1>2. Len(<<>>) = 0 /\ 0 \in 0..0
  OBVIOUS
<1>3. CallTypes
  <2>1. /\ streaming = FALSE /\ split = FALSE /\ cut = FALSE
        /\ clock = 0 /\ budget = 0 /\ script = <<>> /\ arrived = 0
        /\ outcome = "idle"
    BY DEF Init, InitCall
  <2>2. clock <= budget /\ arrived \in 0..(2 * Len(script))
    BY <1>2, <2>1
  <2> QED
    BY <2>1, <2>2, Zenon DEF CallTypes
<1>4. MainTypes
  BY <1>1 DEF Init, MainTypes
<1> QED
  BY <1>3, <1>4 DEF TypesInv

\* The steps of main.
LEMMA MainTypesStep ==
  ASSUME IInv, TypesInv, Open \/ Demo \/ BuildProvider \/ Serve
  PROVE  TypesInv'
<1>1. UNCHANGED <<settings, call>> /\ phase # "serving"
  BY DEF Open, Demo, BuildProvider, Built, Serve, Exit
<1>2. clock = 0 /\ budget' \in Nat
  <2>1. settings.timeout \in Nat /\ budget \in Nat
    BY TimeGiven DEF IInv, PhaseInv, CallInv
  <2> QED
    BY <1>1, <2>1 DEF IInv, PhaseInv, Open, Demo, BuildProvider, Built, Serve, Exit
<1>3. CallTypes'
  BY <1>1, <1>2 DEF CallTypes, TypesInv, call, times, stream
<1>4. CASE Open \/ Demo
  BY <1>3, <1>4 DEF Open, Demo, Exit, TypesInv, MainTypes
<1>5. CASE BuildProvider
  <2>1. settings.timeout >= 1
    BY DEF TypesInv, MainTypes, Resolved
  <2>2. Local \in Provider
    BY StartupAssumption
  <2>3. /\ UNCHANGED <<settings, tools, workers>>
        /\ \/ phase' = "exited"
           \/ phase' = "built" /\ budget' = settings.timeout
        /\ contacted' \subseteq Provider
    BY <1>5, <2>2 DEF BuildProvider, Built, Exit, TypesInv, MainTypes
  <2> QED
    BY <1>3, <2>1, <2>3 DEF TypesInv, MainTypes
<1>6. CASE Serve
  <2>1. Started \subseteq {"feed", "automation", "auto_diagnose", "telemetry"}
    BY DEF Started
  <2> QED
    BY <1>3, <1>6, <2>1 DEF Serve, Exit, TypesInv, MainTypes
<1> QED
  BY <1>1, <1>3, <1>4, <1>5, <1>6 DEF TypesInv

\* A step of a completion.
LEMMA CallTypesStep ==
  ASSUME IInv, CallTypes, CallStep, budget' = budget
  PROVE  CallTypes'
<1> USE ProviderAssumption
<1>1. /\ clock \in Nat /\ budget \in Nat /\ clock <= budget
      /\ arrived \in Nat /\ Len(script) \in Nat /\ arrived <= 2 * Len(script)
  <2>1. CASE script = <<>>
    BY <2>1 DEF IInv, CallInv, CallTypes
  <2>2. CASE script \in Scripts
    <3>1. script \in Seq({script[i] : i \in DOMAIN script})
      BY <2>2
    <3>2. Len(script) \in Nat
      BY <3>1
    <3> QED
      BY <3>2 DEF IInv, CallInv, CallTypes
  <2> QED
    BY <2>1, <2>2 DEF CallTypes
<1>2. \A lines \in Scripts : 0 \in 0..(2 * Len(lines))
  <2> TAKE lines \in Scripts
  <2>1. lines \in Seq({lines[i] : i \in DOMAIN lines})
    OBVIOUS
  <2>2. Len(lines) \in Nat
    BY <2>1
  <2> QED
    BY <2>2
<1>3. ASSUME NEW place, Post(place), UNCHANGED <<streaming, outcome>>,
             clock' = clock
      PROVE  CallTypes'
  BY <1>1, <1>2, <1>3 DEF Post, CallTypes
<1>4. ASSUME PassOver PROVE CallTypes'
  <2>1. CASE at < Len(chain)
    BY <1>3, <1>4, <2>1 DEF PassOver
  <2>2. CASE ~(at < Len(chain))
    BY <1>1, <1>4, <2>2 DEF PassOver, CallTypes, stream
  <2> QED
    BY <2>1, <2>2
<1>5. CASE Complete
  <2>1. /\ streaming' \in BOOLEAN /\ split' = FALSE /\ cut' = FALSE
        /\ script' \in Scripts /\ arrived' = 0 /\ clock' = 0
        /\ outcome' = "asking"
    BY <1>5 DEF Complete, Post
  <2>2. clock' <= budget' /\ arrived' \in 0..(2 * Len(script'))
    BY <1>1, <1>2, <2>1
  <2> QED
    BY <2>1, <2>2, Zenon DEF CallTypes
<1>6. CASE Chunk
  <2>1. PICK to \in (arrived + 1)..(2 * Len(script)) :
          arrived' = to /\ split' \in BOOLEAN
    BY <1>6 DEF Chunk
  <2>2. UNCHANGED <<streaming, clock, script, cut, outcome>>
    BY <1>6 DEF Chunk, times
  <2>3. arrived' \in 0..(2 * Len(script))
    BY <1>1, <2>1
  <2> QED
    BY <1>1, <2>1, <2>2, <2>3 DEF CallTypes
<1>7. CASE StreamEnds \/ Whole \/ MockAnswers \/ MockWord
  <2>1. /\ UNCHANGED <<streaming, clock, script, arrived, split>>
        /\ outcome' \in {"asking", "ok"}
    BY <1>7 DEF StreamEnds, Whole, MockAnswers, MockWord, Answered, times, Waiting
  <2>2. cut' \in BOOLEAN
    <3>1. CASE StreamEnds
      BY <1>1, <3>1 DEF StreamEnds
    <3>2. CASE Whole \/ MockAnswers \/ MockWord
      BY <3>2 DEF Whole, MockAnswers, MockWord, CallTypes
    <3> QED
      BY <1>7, <3>1, <3>2
  <2> QED
    BY <1>1, <2>1, <2>2 DEF CallTypes
<1>8. CASE Tick \/ ToolsTake \/ RequestTimesOut
  BY <1>1, <1>8 DEF Tick, ToolsTake, RequestTimesOut, times, stream, CallTypes
<1>9. CASE NextCompletion
  <2>1. /\ split' = FALSE /\ cut' = FALSE /\ UNCHANGED <<streaming, clock>>
        /\ script' \in Scripts /\ arrived' = 0 /\ outcome' = "asking"
    BY <1>9 DEF NextCompletion, Post
  <2>2. clock' <= budget' /\ arrived' \in 0..(2 * Len(script'))
    BY <1>1, <1>2, <2>1
  <2>3. streaming' \in BOOLEAN
    BY <2>1 DEF CallTypes
  <2> QED
    BY <2>1, <2>2, <2>3, Zenon DEF CallTypes
<1> QED
  BY <1>4, <1>5, <1>6, <1>7, <1>8, <1>9 DEF CallStep, ProviderFails, HttpTimesOut

LEMMA StepTypes == IInv /\ TypesInv /\ [Next]_vars => TypesInv'
<1> SUFFICES ASSUME IInv, TypesInv, [Next]_vars PROVE TypesInv'
  OBVIOUS
<1>1. CASE UNCHANGED vars
  BY <1>1 DEF vars, main, call, times, stream, TypesInv, MainTypes, CallTypes
<1>2. CASE Completion
  <2>1. CallTypes'
    BY <1>2, CallTypesStep DEF Completion, TypesInv
  <2>2. CallInv'
    BY <1>2, CompletionStep DEF Completion
  <2>3. at' # 0 => chain[at'] \in Provider \cup {Mock}
    BY <1>2, <2>2 DEF Completion, CallInv
  <2>4. contacted' \subseteq Provider
    BY <1>2, <2>3 DEF Completion, TypesInv, MainTypes
  <2> QED
    BY <1>2, <2>1, <2>4 DEF Completion, TypesInv, MainTypes
<1> QED
  BY <1>1, <1>2, MainTypesStep DEF Next

\* Settings are resolved, a request has time, its place is in the chain, its
\* clocks run no further than they are allowed to and a stream ends where its
\* lines end.
THEOREM StartTypes == Spec => []TypeOK
<1>1. IInv /\ TypesInv => TypeOK
  <2> SUFFICES ASSUME IInv, TypesInv PROVE TypeOK
    OBVIOUS
  <2>1. /\ clock \in 0..budget /\ since \in 0..HttpTimeout
        /\ slow \in 0..clock /\ idle \in 0..clock
    BY ProviderAssumption DEF IInv, CallInv, AutoInv, TypesInv, CallTypes
  <2> QED
    BY <2>1 DEF TypeOK, IInv, CallInv, TypesInv, MainTypes, CallTypes
<1> QED
  BY <1>1, Invariant, InitTypes, StepTypes, PTL DEF Spec

-----------------------------------------------------------------------------
(* Induction.  Its principle is cited for sets of numbers, not for predicates: *)
(* the provers cannot put a predicate in the place of an operator.             *)

LEMMA Least ==
  ASSUME NEW T, T \subseteq Nat, T # {}
  PROVE  \E n \in T : \A m \in T : n <= m
<1> DEFINE Less == OpToRel(<, Nat)
<1>1. IsWellFoundedOn(Less, Nat)
  BY NatLessThanWellFounded
<1>2. \A m, n \in Nat : m < n => <<m, n>> \in Less
  BY DEF OpToRel
<1> HIDE DEF Less
<1>3. PICK n \in T : \A m \in T : <<m, n>> \notin Less
  BY <1>1, WFMin
<1>4. \A m \in T : ~(m < n)
  BY <1>2, <1>3
<1> QED
  BY <1>4

LEMMA Upwards ==
  ASSUME NEW m \in Nat, NEW T, 0 \in T, \A k \in 1..m : k - 1 \in T => k \in T
  PROVE  \A k \in 0..m : k \in T
<1> SUFFICES ASSUME (0..m) \ T # {} PROVE FALSE
  OBVIOUS
<1> DEFINE U == (0..m) \ T
<1>0. U \subseteq Nat /\ U # {}
  OBVIOUS
<1> HIDE DEF U
<1>1. PICK n \in U : \A k \in U : n <= k
  BY <1>0, Least
<1> USE DEF U
<1>2. n \in 1..m
  OBVIOUS
<1>3. n - 1 \in T
  BY <1>1, <1>2
<1> QED
  BY <1>2, <1>3

\* f starts with base, and step makes each of its values of the one before.
Follows(f, m, base, step) ==
  f[0] = base /\ \A k \in 1..m : f[k] = step[<<f[k - 1], k>>]

\* A function defined by recursion over 0..m exists.
LEMMA Recursion ==
  ASSUME NEW m \in Nat, NEW S, NEW base \in S, NEW step \in [S \X (1..m) -> S]
  PROVE  \E f \in [0..m -> S] : Follows(f, m, base, step)
<1> DEFINE Good(n, f) == Follows(f, n, base, step)
           T == {n \in 0..m : \E f \in [0..n -> S] : Good(n, f)}
<1>1. 0 \in T
  <2>1. [k \in 0..0 |-> base] \in [0..0 -> S] /\ Good(0, [k \in 0..0 |-> base])
    BY DEF Follows
  <2>2. 0 \in 0..m
    OBVIOUS
  <2> HIDE DEF Good
  <2> QED
    BY <2>1, <2>2
<1>2. ASSUME NEW n \in 1..m, n - 1 \in T PROVE n \in T
  <2>1. PICK f \in [0..(n - 1) -> S] : Good(n - 1, f)
    BY <1>2
  <2>2. <<f[n - 1], n>> \in S \X (1..m)
    OBVIOUS
  <2>3. step[<<f[n - 1], n>>] \in S
    BY <2>2
  <2> DEFINE g == [k \in 0..n |-> IF k = n THEN step[<<f[n - 1], n>>] ELSE f[k]]
  <2>4. g \in [0..n -> S]
    BY <2>3
  <2>5. /\ g[n] = step[<<f[n - 1], n>>]
        /\ \A k \in 0..(n - 1) : g[k] = f[k]
    OBVIOUS
  <2> HIDE DEF g
  <2>6. Good(n, g)
    <3>1. g[0] = base
      BY <2>1, <2>5 DEF Good, Follows
    <3>2. ASSUME NEW k \in 1..n PROVE g[k] = step[<<g[k - 1], k>>]
      <4>1. CASE k = n
        BY <2>5, <4>1
      <4>2. CASE k # n
        <5>1. k \in 1..(n - 1) /\ k \in 0..(n - 1) /\ k - 1 \in 0..(n - 1)
          BY <4>2
        <5>2. f[k] = step[<<f[k - 1], k>>]
          BY <2>1, <5>1 DEF Good, Follows
        <5> QED
          BY <2>5, <5>1, <5>2
      <4> QED
        BY <4>1, <4>2
    <3> QED
      BY <3>1, <3>2 DEF Good, Follows
  <2> QED
    BY <2>4, <2>6
<1> HIDE DEF T
<1>3. m \in T
  BY <1>1, <1>2, Upwards
<1> QED
  BY <1>3 DEF T

-----------------------------------------------------------------------------
(* Streams: what the lines say, chunk by chunk. *)

\* What may be read of a line: a character may be damaged.
Piece == Word \cup {Damaged}
Received == [kind : {"text", "name", "args", "noise"}, index : 0..MaxCall, value : Piece]
Call == [name : Piece \cup {""}, args : Seq(Piece)]
Calls == [0..MaxCall -> Call]

LEMMA LineType ==
  ASSUME NEW lines \in Seq(Received), NEW i \in 1..Len(lines)
  PROVE  /\ lines[i] \in Received
         /\ lines[i].kind \in {"text", "name", "args", "noise"}
         /\ lines[i].index \in 0..MaxCall /\ lines[i].value \in Piece
<1>1. lines[i] \in Received
  OBVIOUS
<1> QED
  BY <1>1 DEF Received

\* What Said defines: with each chosen line the sequence grows.
LEMMA SaidSteps ==
  ASSUME NEW lines \in Seq(Received), NEW chosen
  PROVE  /\ Said(lines, chosen) \in [0..Len(lines) -> Seq(Piece)]
         /\ Said(lines, chosen)[0] = <<>>
         /\ \A k \in 1..Len(lines) :
              Said(lines, chosen)[k] =
                IF k \in chosen THEN Append(Said(lines, chosen)[k - 1], lines[k].value)
                ELSE Said(lines, chosen)[k - 1]
<1> DEFINE m == Len(lines)
           step == [p \in Seq(Piece) \X (1..m) |->
                      IF p[2] \in chosen THEN Append(p[1], lines[p[2]].value) ELSE p[1]]
           Eq(f) == f = [k \in 0..m |-> IF k = 0 THEN <<>>
                                        ELSE IF k \in chosen THEN Append(f[k - 1], lines[k].value)
                                        ELSE f[k - 1]]
<1>1. m \in Nat /\ \A k \in 1..m : lines[k].value \in Piece
  BY LineType
<1> HIDE DEF m
<1>2. step \in [Seq(Piece) \X (1..m) -> Seq(Piece)]
  <2>1. ASSUME NEW p \in Seq(Piece) \X (1..m)
        PROVE  (IF p[2] \in chosen THEN Append(p[1], lines[p[2]].value) ELSE p[1]) \in Seq(Piece)
    <3>1. p[1] \in Seq(Piece) /\ p[2] \in 1..m
      OBVIOUS
    <3>2. Append(p[1], lines[p[2]].value) \in Seq(Piece)
      BY <1>1, <3>1
    <3> QED
      BY <3>1, <3>2
  <2> QED
    BY <2>1
<1>3. \A x \in Seq(Piece), k \in 1..m :
        step[<<x, k>>] = IF k \in chosen THEN Append(x, lines[k].value) ELSE x
  OBVIOUS
<1> HIDE DEF step
<1>4. <<>> \in Seq(Piece)
  OBVIOUS
<1>5. PICK f \in [0..m -> Seq(Piece)] : Follows(f, m, <<>>, step)
  BY <1>1, <1>2, <1>4, Recursion
<1>6. Eq(f)
  <2>1. ASSUME NEW k \in 0..m
        PROVE  f[k] = IF k = 0 THEN <<>>
                      ELSE IF k \in chosen THEN Append(f[k - 1], lines[k].value)
                      ELSE f[k - 1]
    <3>1. CASE k = 0
      BY <1>5, <3>1 DEF Follows
    <3>2. CASE k # 0
      <4>1. k \in 1..m /\ f[k - 1] \in Seq(Piece)
        BY <1>1, <3>2
      <4> QED
        BY <1>3, <1>5, <3>2, <4>1 DEF Follows
    <3> QED
      BY <3>1, <3>2
  <2> QED
    BY <2>1
<1> DEFINE said == CHOOSE g : Eq(g)
<1>7. Eq(said)
  BY <1>6
<1>8. Said(lines, chosen) = said
  BY DEF Said, m
<1> HIDE DEF said
<1>9. /\ DOMAIN said = 0..m /\ said[0] = <<>>
      /\ \A k \in 0..m : said[k] = IF k = 0 THEN <<>>
                                   ELSE IF k \in chosen THEN Append(said[k - 1], lines[k].value)
                                   ELSE said[k - 1]
  <2>1. 0 \in 0..m
    BY <1>1
  <2> QED
    BY <1>7, <2>1
<1>10. said = [k \in 0..m |-> said[k]]
  BY <1>7
<1>11. \A k \in 0..m : said[k] \in Seq(Piece)
  <2> DEFINE T == {k \in 0..m : said[k] \in Seq(Piece)}
  <2>1. 0 \in T
    <3>1. 0 \in 0..m
      BY <1>1
    <3> QED
      BY <1>4, <1>9, <3>1
  <2>2. ASSUME NEW k \in 1..m, k - 1 \in T PROVE k \in T
    <3>1. said[k - 1] \in Seq(Piece) /\ lines[k].value \in Piece
      BY <1>1, <2>2
    <3>2. Append(said[k - 1], lines[k].value) \in Seq(Piece)
      BY <3>1
    <3>3. k \in 0..m /\ k # 0
      OBVIOUS
    <3> QED
      BY <1>9, <3>1, <3>2, <3>3
  <2> HIDE DEF T
  <2>3. \A k \in 0..m : k \in T
    BY <1>1, <2>1, <2>2, Upwards
  <2> QED
    BY <2>3 DEF T
<1>12. said \in [0..m -> Seq(Piece)]
  BY <1>10, <1>11
<1>13. \A k \in 1..m : k \in 0..m /\ k # 0
  BY <1>1
<1> QED
  BY <1>8, <1>9, <1>12, <1>13 DEF m

LEMMA AgreesAppend ==
  ASSUME NEW V, NEW got \in Seq(V), NEW said \in Seq(V), NEW v \in V, NEW w \in V,
         Agrees(got, said), v = w \/ v = Damaged
  PROVE  Agrees(Append(got, v), Append(said, w))
<1>1. Len(Append(got, v)) = Len(got) + 1 /\ Len(Append(said, w)) = Len(said) + 1
  OBVIOUS
<1>2. ASSUME NEW i \in 1..(Len(got) + 1)
      PROVE  Append(got, v)[i] = Append(said, w)[i] \/ Append(got, v)[i] = Damaged
  BY DEF Agrees, SameOrDamaged
<1>3. DOMAIN Append(got, v) = 1..(Len(got) + 1)
  OBVIOUS
<1> QED
  BY <1>1, <1>2, <1>3 DEF Agrees, SameOrDamaged

\* The lines said so far are the beginning of what will be said.
LEMMA SaidGrows ==
  ASSUME NEW lines \in Seq(Received), NEW chosen, NEW k \in 0..Len(lines)
  PROVE  LET said == Said(lines, chosen)
         IN /\ Len(said[k]) <= Len(said[Len(lines)])
            /\ \A j \in 1..Len(said[k]) : said[Len(lines)][j] = said[k][j]
<1> DEFINE said == Said(lines, chosen)
           m == Len(lines) - k
           T == {d \in 0..m : /\ Len(said[k]) <= Len(said[k + d])
                              /\ \A j \in 1..Len(said[k]) : said[k + d][j] = said[k][j]}
<1>1. /\ \A i \in 0..Len(lines) : said[i] \in Seq(Piece)
      /\ \A i \in 1..Len(lines) :
           said[i] = IF i \in chosen THEN Append(said[i - 1], lines[i].value) ELSE said[i - 1]
      /\ \A i \in 1..Len(lines) : lines[i].value \in Piece
  <2>1. \A i \in 1..Len(lines) : lines[i].value \in Piece
    BY LineType
  <2>2. /\ said \in [0..Len(lines) -> Seq(Piece)]
        /\ \A i \in 1..Len(lines) :
             said[i] = IF i \in chosen THEN Append(said[i - 1], lines[i].value) ELSE said[i - 1]
    BY SaidSteps
  <2> HIDE DEF said
  <2> QED
    BY <2>1, <2>2
<1>2. m \in Nat /\ Len(lines) \in Nat /\ Len(lines) = k + m
  OBVIOUS
<1> HIDE DEF said, m
<1>3. 0 \in T
  BY <1>2
<1>4. ASSUME NEW d \in 1..m, d - 1 \in T PROVE d \in T
  <2>0. PICK i \in 1..Len(lines) : i = k + d
    BY <1>2
  <2>1. i - 1 = k + (d - 1) /\ i - 1 \in 0..Len(lines)
    BY <1>2, <2>0
  <2>2. /\ said[k] \in Seq(Piece) /\ said[i - 1] \in Seq(Piece)
        /\ lines[i].value \in Piece
    BY <1>1, <2>1
  <2>3. /\ Len(said[k]) <= Len(said[i - 1])
        /\ \A j \in 1..Len(said[k]) : said[i - 1][j] = said[k][j]
    BY <1>4, <2>1
  <2>4. /\ Len(said[k]) <= Len(said[i])
        /\ \A j \in 1..Len(said[k]) : said[i][j] = said[k][j]
    <3>1. CASE i \in chosen
      <4>1. said[i] = Append(said[i - 1], lines[i].value)
        BY <1>1, <3>1
      <4> QED
        BY <2>2, <2>3, <4>1
    <3>2. CASE i \notin chosen
      <4>1. said[i] = said[i - 1]
        BY <1>1, <3>2
      <4> QED
        BY <2>3, <4>1
    <3> QED
      BY <3>1, <3>2
  <2> QED
    BY <2>0, <2>4
<1> HIDE DEF T
<1>5. m \in 0..m
  BY <1>2
<1>6. m \in T
  BY <1>2, <1>3, <1>4, <1>5, Upwards
<1> QED
  BY <1>2, <1>6 DEF T, said

\* No line is read as what it is not.
LEMMA AccumulatedType ==
  ASSUME NEW acc \in Calls, NEW l \in Received
  PROVE  Accumulated(acc, l) \in Calls
<1>1. l.index \in 0..MaxCall /\ l.value \in Piece
  BY DEF Received
<1>2. acc[l.index] \in Call
  BY <1>1 DEF Calls
<1>3. acc[l.index].name \in Piece \cup {""} /\ acc[l.index].args \in Seq(Piece)
  BY <1>2 DEF Call
<1>4. [name |-> l.value, args |-> acc[l.index].args] \in Call
  BY <1>1, <1>3 DEF Call
<1>5. [name |-> acc[l.index].name, args |-> Append(acc[l.index].args, l.value)] \in Call
  <2>1. \A s \in Seq(Piece), v \in Piece : Append(s, v) \in Seq(Piece)
    OBVIOUS
  <2>2. Append(acc[l.index].args, l.value) \in Seq(Piece)
    BY <1>1, <1>3, <2>1, Zenon
  <2> QED
    BY <1>3, <2>2 DEF Call
<1> QED
  BY <1>4, <1>5 DEF Accumulated, Calls

\* What Accumulation defines: every line is added to the calls.
LEMMA AccumulationSteps ==
  ASSUME NEW lines \in Seq(Received), calls \in Calls
  PROVE  /\ Accumulation(lines)[0] = calls
         /\ \A k \in 1..Len(lines) :
              Accumulation(lines)[k] = Accumulated(Accumulation(lines)[k - 1], lines[k])
<1> DEFINE m == Len(lines)
           step == [p \in Calls \X (1..m) |-> Accumulated(p[1], lines[p[2]])]
           Eq(f) == f = [k \in 0..m |-> IF k = 0 THEN calls ELSE Accumulated(f[k - 1], lines[k])]
<1>1. m \in Nat /\ \A k \in 1..m : lines[k] \in Received
  OBVIOUS
<1> HIDE DEF m
<1>2. step \in [Calls \X (1..m) -> Calls]
  <2>1. ASSUME NEW p \in Calls \X (1..m) PROVE Accumulated(p[1], lines[p[2]]) \in Calls
    <3>1. p[1] \in Calls /\ p[2] \in 1..m
      OBVIOUS
    <3> QED
      BY <1>1, <3>1, AccumulatedType
  <2> QED
    BY <2>1
<1>3. \A x \in Calls, k \in 1..m : step[<<x, k>>] = Accumulated(x, lines[k])
  OBVIOUS
<1> HIDE DEF step
<1>4. PICK f \in [0..m -> Calls] : Follows(f, m, calls, step)
  BY <1>1, <1>2, Recursion
<1>5. Eq(f)
  <2>1. ASSUME NEW k \in 0..m
        PROVE  f[k] = IF k = 0 THEN calls ELSE Accumulated(f[k - 1], lines[k])
    <3>1. CASE k = 0
      BY <1>4, <3>1 DEF Follows
    <3>2. CASE k # 0
      <4>1. k \in 1..m /\ f[k - 1] \in Calls
        BY <1>1, <3>2
      <4> QED
        BY <1>3, <1>4, <3>2, <4>1 DEF Follows
    <3> QED
      BY <3>1, <3>2
  <2> QED
    BY <2>1
<1> DEFINE after == CHOOSE g : Eq(g)
<1>6. Eq(after)
  BY <1>5
<1>7. Accumulation(lines) = after
  BY DEF Accumulation, m
<1> HIDE DEF after
<1>8. /\ 0 \in 0..m
      /\ \A k \in 1..m : k \in 0..m /\ k # 0
  BY <1>1
<1> QED
  BY <1>6, <1>7, <1>8 DEF m

\* The calls that one more line names: what the parser makes of it.
LEMMA CallsUpToSteps ==
  ASSUME NEW lines \in Seq(Received)
  PROVE  /\ CallsUpTo(lines, 0) = NoCalls
         /\ \A k \in 0..Len(lines) : CallsUpTo(lines, k) \in Calls
         /\ \A k \in 1..Len(lines) :
              CallsUpTo(lines, k) = Accumulated(CallsUpTo(lines, k - 1), lines[k])
<1> DEFINE names(n) == Said(lines, OfCall(lines, "name", n))
           args(n) == Said(lines, OfCall(lines, "args", n))
           Name(s) == IF s = <<>> THEN "" ELSE s[Len(s)]
<1>1. \A r \in Received : r.value \in Piece
  BY DEF Received
<1>2. ASSUME NEW n \in 0..MaxCall
      PROVE  /\ names(n) \in [0..Len(lines) -> Seq(Piece)]
             /\ args(n) \in [0..Len(lines) -> Seq(Piece)]
             /\ names(n)[0] = <<>> /\ args(n)[0] = <<>>
             /\ \A k \in 1..Len(lines) :
                  /\ names(n)[k] = IF k \in OfCall(lines, "name", n)
                                   THEN Append(names(n)[k - 1], lines[k].value) ELSE names(n)[k - 1]
                  /\ args(n)[k] = IF k \in OfCall(lines, "args", n)
                                  THEN Append(args(n)[k - 1], lines[k].value) ELSE args(n)[k - 1]
  BY SaidSteps
<1>3. \A k : CallsUpTo(lines, k) =
        [n \in 0..MaxCall |-> [name |-> Name(names(n)[k]), args |-> args(n)[k]]]
  BY DEF CallsUpTo
<1>4. \A k \in 1..Len(lines), n \in 0..MaxCall :
        /\ k \in OfCall(lines, "name", n)
             <=> lines[k].kind = "name" /\ lines[k].index = n /\ Says(lines[k])
        /\ k \in OfCall(lines, "args", n)
             <=> lines[k].kind = "args" /\ lines[k].index = n /\ Says(lines[k])
  BY DEF OfCall, Telling
<1> HIDE DEF names, args
<1>5. CallsUpTo(lines, 0) = NoCalls
  <2>1. \A n \in 0..MaxCall : Name(names(n)[0]) = "" /\ args(n)[0] = <<>>
    BY <1>2
  <2> HIDE DEF Name
  <2> QED
    BY <1>3, <2>1 DEF NoCalls
<1>6. ASSUME NEW k \in 0..Len(lines) PROVE CallsUpTo(lines, k) \in Calls
  <2>1. ASSUME NEW n \in 0..MaxCall
        PROVE  [name |-> Name(names(n)[k]), args |-> args(n)[k]] \in Call
    <3>1. names(n)[k] \in Seq(Piece) /\ args(n)[k] \in Seq(Piece)
      BY <1>2
    <3>2. \A s \in Seq(Piece) : s # <<>> => Len(s) \in DOMAIN s /\ s[Len(s)] \in Piece
      OBVIOUS
    <3> QED
      BY <3>1, <3>2 DEF Call
  <2> HIDE DEF Name
  <2> QED
    BY <1>3, <2>1 DEF Calls
<1>7. ASSUME NEW s \in Seq(Piece), NEW v \in Piece PROVE Name(Append(s, v)) = v
  <2>1. Len(Append(s, v)) = Len(s) + 1 /\ Append(s, v)[Len(s) + 1] = v /\ Len(s) \in Nat
    OBVIOUS
  <2>2. Append(s, v) # <<>>
    BY <2>1
  <2> QED
    BY <2>1, <2>2
<1> HIDE DEF Name
<1>8. ASSUME NEW k \in 1..Len(lines)
      PROVE  CallsUpTo(lines, k) = Accumulated(CallsUpTo(lines, k - 1), lines[k])
  <2>1. /\ lines[k] \in Received /\ lines[k].index \in 0..MaxCall /\ lines[k].value \in Piece
        /\ k - 1 \in 0..Len(lines) /\ k \in 0..Len(lines)
    BY LineType
  <2> DEFINE old == CallsUpTo(lines, k - 1)
             new == Accumulated(old, lines[k])
  <2>2. old \in Calls /\ CallsUpTo(lines, k) \in Calls
    BY <1>6, <2>1
  <2>3. new \in Calls
    BY <2>1, <2>2, AccumulatedType
  <2>4. ASSUME NEW n \in 0..MaxCall
        PROVE  CallsUpTo(lines, k)[n] = new[n]
    <3>1. old[n] = [name |-> Name(names(n)[k - 1]), args |-> args(n)[k - 1]]
      BY <1>3
    <3>2. CallsUpTo(lines, k)[n] = [name |-> Name(names(n)[k]), args |-> args(n)[k]]
      BY <1>3
    <3>3. /\ names(n)[k - 1] \in Seq(Piece)
          /\ names(n)[k] = IF k \in OfCall(lines, "name", n)
                           THEN Append(names(n)[k - 1], lines[k].value) ELSE names(n)[k - 1]
          /\ args(n)[k] = IF k \in OfCall(lines, "args", n)
                          THEN Append(args(n)[k - 1], lines[k].value) ELSE args(n)[k - 1]
      BY <1>2, <2>1
    <3>4. /\ k \in OfCall(lines, "name", n)
               <=> lines[k].kind = "name" /\ lines[k].index = n /\ Says(lines[k])
          /\ k \in OfCall(lines, "args", n)
               <=> lines[k].kind = "args" /\ lines[k].index = n /\ Says(lines[k])
      BY <1>4
    <3>5. /\ old[n].name = Name(names(n)[k - 1]) /\ old[n].args = args(n)[k - 1]
          /\ old \in [0..MaxCall -> Call]
      BY <2>2, <3>1 DEF Calls
    <3> HIDE DEF old
    <3>6. CASE lines[k].kind = "name" /\ lines[k].index = n /\ Says(lines[k])
      <4>1. Name(names(n)[k]) = lines[k].value /\ args(n)[k] = args(n)[k - 1]
        BY <1>7, <2>1, <3>3, <3>4, <3>6
      <4>2. new[n] = [name |-> lines[k].value, args |-> old[n].args]
        BY <3>5, <3>6 DEF Accumulated
      <4> QED
        BY <3>2, <3>5, <4>1, <4>2
    <3>7. CASE lines[k].kind = "args" /\ lines[k].index = n /\ Says(lines[k])
      <4>1. args(n)[k] = Append(args(n)[k - 1], lines[k].value) /\ names(n)[k] = names(n)[k - 1]
        BY <3>3, <3>4, <3>7
      <4>2. new[n] = [name |-> old[n].name, args |-> Append(old[n].args, lines[k].value)]
        BY <3>5, <3>7 DEF Accumulated
      <4> QED
        BY <3>2, <3>5, <4>1, <4>2
    <3>8. CASE ~(lines[k].kind \in {"name", "args"} /\ lines[k].index = n /\ Says(lines[k]))
      <4>1. args(n)[k] = args(n)[k - 1] /\ names(n)[k] = names(n)[k - 1]
        BY <3>3, <3>4, <3>8
      <4>2. new[n] = old[n]
        BY <2>1, <3>5, <3>8 DEF Accumulated
      <4> QED
        BY <3>1, <3>2, <4>1, <4>2
    <3> QED
      BY <3>6, <3>7, <3>8
  <2> HIDE DEF new, old
  <2>5. CallsUpTo(lines, k) = new
    <3>1. new \in [0..MaxCall -> Call] /\ CallsUpTo(lines, k) \in [0..MaxCall -> Call]
      BY <2>2, <2>3 DEF Calls
    <3> QED
      <4> DEFINE f == CallsUpTo(lines, k)
      <4>1. f \in [0..MaxCall -> Call] /\ new \in [0..MaxCall -> Call] /\ \A n \in 0..MaxCall : f[n] = new[n]
        BY <2>4, <3>1
      <4> HIDE DEF f
      <4>2. f = [n \in 0..MaxCall |-> f[n]] /\ new = [n \in 0..MaxCall |-> new[n]]
        BY <4>1
      <4>3. f = new
        BY <4>1, <4>2
      <4> QED
        BY <4>3 DEF f
  <2> QED
    BY <2>5 DEF new, old
<1> QED
  BY <1>5, <1>6, <1>8

\* Up to damaged characters two sets of calls say the same, also of those that
\* have no name yet.
Alike(a, b) ==
  \A n \in 0..MaxCall :
    /\ b[n].name = "" <=> a[n].name = ""
    /\ a[n].name \in {b[n].name, Damaged}
    /\ Agrees(a[n].args, b[n].args)

\* A stream: up to damaged characters, the text so far is what the complete
\* lines say and the calls are what they name.  Of the mock only words arrive.
StreamInv ==
  /\ text \in Seq(Piece) /\ calls \in Calls
  /\ outcome = "asking" =>
       LET k == arrived \div 2
       IN /\ script \in Scripts
          /\ Asked # Mock => /\ Agrees(text, Said(script, Telling(script, "text"))[k])
                             /\ Alike(calls, CallsUpTo(script, k))

LEMMA ScriptsReceived == Scripts \subseteq Seq(Received)
<1>1. Line \subseteq Received
  BY DEF Line, Received, Piece
<1>2. Seq(Line) \subseteq Seq(Received)
  BY <1>1
<1> QED
  BY <1>2, ProviderAssumption

\* What a chunk completes: the next lines of the script, in their order; only
\* what they say may be damaged.
LEMMA JoinedLines ==
  ASSUME script \in Seq(Received), NEW from \in Nat, NEW to \in from..(2 * Len(script))
  PROVE  LET lines == Joined(Completed(from, to))
             f == from \div 2
         IN /\ lines \in Seq(Received)
            /\ Len(lines) = (to \div 2) - f
            /\ \A i \in 1..Len(lines) :
                 /\ f + i \in 1..Len(script)
                 /\ lines[i].kind = script[f + i].kind
                 /\ lines[i].index = script[f + i].index
                 /\ \/ lines[i].value = script[f + i].value
                    \/ lines[i].value = Damaged /\ Says(script[f + i])
<1> DEFINE f == from \div 2
           e == to \div 2
           done == SubSeq(script, f + 1, e)
           lines == Joined(done)
<1>1. /\ f \in Nat /\ e \in Nat /\ f <= e /\ e <= Len(script) /\ Len(script) \in Nat
  OBVIOUS
<1>2. Completed(from, to) = done
  BY DEF Completed
<1> HIDE DEF f, e
<1>3. /\ done \in Seq(Received) /\ Len(done) = e - f
      /\ \A i \in 1..(e - f) : done[i] = script[f + i] /\ f + i \in 1..Len(script)
  BY <1>1
<1> HIDE DEF done
<1>4. CASE split /\ done # <<>> /\ Says(done[1])
  <2>1. 1 \in 1..Len(done) /\ Len(done) \in Nat
    BY <1>3, <1>4
  <2>2. done[1] \in Received
    BY <1>3, <2>1
  <2>3. lines = [done EXCEPT ![1] = [@ EXCEPT !.value = Damaged]]
    BY <1>4 DEF Joined
  <2> DEFINE first == [done[1] EXCEPT !.value = Damaged]
  <2>4. /\ first \in Received /\ first.kind = done[1].kind /\ first.value = Damaged
        /\ first.index = done[1].index
    BY <2>2 DEF Received, Piece
  <2>5. lines = [done EXCEPT ![1] = first]
    BY <2>3
  <2> HIDE DEF first, lines
  <2>6. /\ lines \in Seq(Received) /\ Len(lines) = Len(done)
        /\ lines[1] = first
        /\ \A i \in 1..Len(done) : i # 1 => lines[i] = done[i]
    BY <1>3, <2>1, <2>4, <2>5
  <2>7. ASSUME NEW i \in 1..Len(lines)
        PROVE  /\ f + i \in 1..Len(script)
               /\ lines[i].kind = script[f + i].kind
               /\ lines[i].index = script[f + i].index
               /\ \/ lines[i].value = script[f + i].value
                  \/ lines[i].value = Damaged /\ Says(script[f + i])
    <3>1. done[i] = script[f + i] /\ f + i \in 1..Len(script)
      BY <1>3, <2>6
    <3>2. CASE i = 1
      BY <1>4, <2>2, <2>4, <2>6, <3>1, <3>2
    <3>3. CASE i # 1
      BY <2>6, <3>1, <3>3
    <3> QED
      BY <3>2, <3>3
  <2> QED
    BY <1>2, <1>3, <2>6, <2>7 DEF lines, f, e
<1>5. CASE ~(split /\ done # <<>> /\ Says(done[1]))
  <2>1. lines = done
    BY <1>5 DEF Joined
  <2> HIDE DEF lines
  <2> QED
    BY <1>2, <1>3, <2>1 DEF lines, f, e
<1> QED
  BY <1>4, <1>5

LEMMA AppendLast ==
  ASSUME NEW V, NEW a \in Seq(V), NEW b \in Seq(V), NEW v \in V
  PROVE  a \o Append(b, v) = Append(a \o b, v)
  OBVIOUS

\* Calls that say the same still do after lines that say the same.
LEMMA SameAccumulated ==
  ASSUME NEW a \in Calls, NEW b \in Calls, Alike(a, b),
         NEW l \in Received, NEW s \in Received,
         l.kind = s.kind, l.index = s.index,
         l.value = s.value \/ (l.value = Damaged /\ Says(s))
  PROVE  Alike(Accumulated(a, l), Accumulated(b, s))
<1> DEFINE x == Accumulated(a, l)
           y == Accumulated(b, s)
<1>1. /\ l.index \in 0..MaxCall /\ l.value \in Piece /\ s.value \in Piece
      /\ Says(l) <=> Says(s)
  BY DamagedAssumption DEF Received, Says
<1> SUFFICES ASSUME NEW n \in 0..MaxCall
             PROVE  /\ y[n].name = "" <=> x[n].name = ""
                    /\ x[n].name \in {y[n].name, Damaged} /\ Agrees(x[n].args, y[n].args)
  BY DEF Alike
<1>2. /\ b[n].name = "" <=> a[n].name = ""
      /\ a[n].name \in {b[n].name, Damaged} /\ Agrees(a[n].args, b[n].args)
  BY DEF Alike
<1>3. a[n].args \in Seq(Piece) /\ b[n].args \in Seq(Piece)
  <2>1. a[n] \in Call /\ b[n] \in Call
    BY DEF Calls
  <2> QED
    BY <2>1 DEF Call
<1>4. CASE l.index = n /\ l.kind = "name" /\ Says(l)
  <2>1. x[n] = [name |-> l.value, args |-> a[n].args] /\ y[n] = [name |-> s.value, args |-> b[n].args]
    BY <1>1, <1>4 DEF Accumulated, Calls
  <2> HIDE DEF x, y
  <2>2. /\ x[n].name = l.value /\ y[n].name = s.value
        /\ x[n].args = a[n].args /\ y[n].args = b[n].args
    BY <2>1
  <2>3. y[n].name = "" <=> x[n].name = ""
    BY <1>1, <2>2, Zenon DEF Says
  <2>4. x[n].name \in {y[n].name, Damaged}
    BY <2>2, Zenon
  <2> QED
    BY <1>2, <2>2, <2>3, <2>4, Zenon
<1>5. CASE l.index = n /\ l.kind = "args" /\ Says(l)
  <2>1. /\ x[n] = [name |-> a[n].name, args |-> Append(a[n].args, l.value)]
        /\ y[n] = [name |-> b[n].name, args |-> Append(b[n].args, s.value)]
    BY <1>1, <1>5 DEF Accumulated, Calls
  <2>2. Agrees(Append(a[n].args, l.value), Append(b[n].args, s.value))
    <3>1. PICK p \in Seq(Piece), q \in Seq(Piece) : p = a[n].args /\ q = b[n].args
      BY <1>3
    <3>2. Agrees(Append(p, l.value), Append(q, s.value))
      BY <1>1, <1>2, <3>1, AgreesAppend
    <3> QED
      BY <3>1, <3>2
  <2> HIDE DEF x, y
  <2>3. /\ x[n].name = a[n].name /\ y[n].name = b[n].name
        /\ x[n].args = Append(a[n].args, l.value) /\ y[n].args = Append(b[n].args, s.value)
    BY <2>1
  <2> QED
    BY <1>2, <2>2, <2>3, Zenon
<1>6. CASE ~(l.index = n /\ l.kind \in {"name", "args"} /\ Says(l))
  <2>1. x[n] = a[n] /\ y[n] = b[n]
    BY <1>1, <1>6 DEF Accumulated, Calls
  <2> HIDE DEF x, y
  <2> QED
    BY <1>2, <2>1
<1> QED
  BY <1>4, <1>5, <1>6

\* A chunk brings the text and the calls to where its lines bring them.
LEMMA ChunkParsed ==
  ASSUME StreamInv, outcome = "asking", Asked # Mock, NEW to \in (arrived + 1)..(2 * Len(script)),
         arrived \in Nat, NEW lines, lines = Joined(Completed(arrived, to))
  PROVE  /\ Texts(lines) \in Seq(Piece)
         /\ Agrees(text \o Texts(lines), Said(script, Telling(script, "text"))[to \div 2])
         /\ Accumulation(lines)[Len(lines)] \in Calls
         /\ Alike(Accumulation(lines)[Len(lines)], CallsUpTo(script, to \div 2))
<1>1. PICK f \in Nat : f = arrived \div 2
  OBVIOUS
<1>2. script \in Seq(Received) /\ text \in Seq(Piece)
  BY ScriptsReceived DEF StreamInv
<1>3. /\ lines \in Seq(Received)
      /\ Len(lines) = (to \div 2) - f
      /\ \A i \in 1..Len(lines) :
           /\ f + i \in 1..Len(script)
           /\ lines[i].kind = script[f + i].kind
           /\ lines[i].index = script[f + i].index
           /\ \/ lines[i].value = script[f + i].value
              \/ lines[i].value = Damaged /\ Says(script[f + i])
  <2>1. to \in arrived..(2 * Len(script))
    OBVIOUS
  <2> QED
    BY <1>1, <1>2, <2>1, JoinedLines
<1>4. Len(lines) \in Nat /\ f + Len(lines) = to \div 2 /\ f + Len(lines) <= Len(script)
  <2>1. Len(lines) \in Nat /\ Len(script) \in Nat
    BY <1>2, <1>3
  <2> QED
    BY <1>3, <2>1
<1> DEFINE got == Said(lines, Telling(lines, "text"))
           said == Said(script, Telling(script, "text"))
           after == Accumulation(lines)
<1>5. /\ \A i \in 0..Len(lines) : got[i] \in Seq(Piece)
      /\ got[0] = <<>>
      /\ \A i \in 1..Len(lines) :
           got[i] = IF lines[i].kind = "text" /\ Says(lines[i])
                    THEN Append(got[i - 1], lines[i].value) ELSE got[i - 1]
  <2>1. /\ got \in [0..Len(lines) -> Seq(Piece)] /\ got[0] = <<>>
        /\ \A i \in 1..Len(lines) :
             got[i] = IF i \in Telling(lines, "text") THEN Append(got[i - 1], lines[i].value)
                      ELSE got[i - 1]
    <3>1. lines \in Seq(Received)
      BY <1>3
    <3> QED
      BY <3>1, SaidSteps
  <2>2. \A i \in 1..Len(lines) : i \in Telling(lines, "text")
                                <=> lines[i].kind = "text" /\ Says(lines[i])
    BY <1>3 DEF Telling
  <2> HIDE DEF got
  <2> QED
    BY <2>1, <2>2
<1>6. /\ \A i \in 0..Len(script) : said[i] \in Seq(Piece)
      /\ \A i \in 1..Len(script) :
           said[i] = IF script[i].kind = "text" /\ Says(script[i])
                     THEN Append(said[i - 1], script[i].value) ELSE said[i - 1]
  <2>1. /\ said \in [0..Len(script) -> Seq(Piece)]
        /\ \A i \in 1..Len(script) :
             said[i] = IF i \in Telling(script, "text") THEN Append(said[i - 1], script[i].value)
                       ELSE said[i - 1]
    BY <1>2, SaidSteps
  <2>2. \A i \in 1..Len(script) : i \in Telling(script, "text")
                                 <=> script[i].kind = "text" /\ Says(script[i])
    BY <1>2 DEF Telling
  <2> HIDE DEF said
  <2> QED
    BY <2>1, <2>2
<1>7. /\ after[0] = calls
      /\ \A i \in 1..Len(lines) : after[i] = Accumulated(after[i - 1], lines[i])
  BY <1>3, AccumulationSteps DEF StreamInv
<1>8. /\ \A k \in 0..Len(script) : CallsUpTo(script, k) \in Calls
      /\ \A k \in 1..Len(script) :
           CallsUpTo(script, k) = Accumulated(CallsUpTo(script, k - 1), script[k])
  BY <1>2, CallsUpToSteps
<1>9. Agrees(text, said[f]) /\ calls \in Calls /\ Alike(calls, CallsUpTo(script, f))
  BY <1>1 DEF StreamInv
<1> HIDE DEF got, said, after
<1> DEFINE T == {i \in 0..Len(lines) : /\ Agrees(text \o got[i], said[f + i])
                                       /\ after[i] \in Calls
                                       /\ Alike(after[i], CallsUpTo(script, f + i))}
<1>10. 0 \in T
  <2>1. text \o <<>> = text /\ f + 0 = f
    BY <1>2
  <2>2. text \o got[0] = text
    BY <1>5, <2>1
  <2>3. /\ Agrees(text \o got[0], said[f + 0])
        /\ after[0] \in Calls /\ Alike(after[0], CallsUpTo(script, f + 0))
    BY <1>7, <1>9, <2>1, <2>2
  <2>4. 0 \in 0..Len(lines)
    BY <1>4
  <2> QED
    BY <2>3, <2>4
<1>11. ASSUME NEW i \in 1..Len(lines), i - 1 \in T PROVE i \in T
  <2>1. PICK k \in 1..Len(script) : k = f + i
    BY <1>3
  <2>2. PICK h \in 0..Len(lines) : h = i - 1
    BY <1>4
  <2>3. k - 1 = f + h /\ k - 1 \in 0..Len(script)
    BY <1>4, <2>1, <2>2
  <2>4. /\ lines[i].kind = script[k].kind /\ lines[i].index = script[k].index
        /\ \/ lines[i].value = script[k].value
           \/ lines[i].value = Damaged /\ Says(script[k])
        /\ Says(lines[i]) <=> Says(script[k])
    BY <1>3, <2>1, DamagedAssumption DEF Says
  <2>5. lines[i].value \in Piece /\ script[k].value \in Piece
    BY <1>2, <1>3, LineType
  <2>6. /\ Agrees(text \o got[h], said[k - 1])
        /\ after[h] \in Calls /\ Alike(after[h], CallsUpTo(script, k - 1))
    BY <1>11, <2>2, <2>3
  <2>7. got[h] \in Seq(Piece) /\ said[k - 1] \in Seq(Piece) /\ text \o got[h] \in Seq(Piece)
    BY <1>2, <1>5, <1>6, <2>3
  <2>8. Agrees(text \o got[i], said[k])
    <3>1. CASE lines[i].kind = "text" /\ Says(lines[i])
      <4>1. got[i] = Append(got[h], lines[i].value) /\ said[k] = Append(said[k - 1], script[k].value)
        BY <1>5, <1>6, <2>2, <2>4, <3>1
      <4>2. text \o got[i] = Append(text \o got[h], lines[i].value)
        <5>1. \A a, b \in Seq(Piece), v \in Piece : a \o Append(b, v) = Append(a \o b, v)
          BY AppendLast
        <5>2. text \o Append(got[h], lines[i].value) = Append(text \o got[h], lines[i].value)
          BY <1>2, <2>5, <2>7, <5>1, Zenon
        <5> QED
          BY <4>1, <5>2
      <4> QED
        BY <2>4, <2>5, <2>6, <2>7, <4>1, <4>2, AgreesAppend
    <3>2. CASE ~(lines[i].kind = "text" /\ Says(lines[i]))
      <4>1. got[i] = got[h] /\ said[k] = said[k - 1]
        BY <1>5, <1>6, <2>2, <2>4, <3>2
      <4> QED
        BY <2>6, <4>1
    <3> QED
      BY <3>1, <3>2
  <2>9. after[i] \in Calls /\ Alike(after[i], CallsUpTo(script, k))
    <3>1. after[i] = Accumulated(after[h], lines[i])
      BY <1>7, <2>2
    <3>2. CallsUpTo(script, k) = Accumulated(CallsUpTo(script, k - 1), script[k])
      BY <1>8
    <3>3. CallsUpTo(script, k - 1) \in Calls
      BY <1>8, <2>3
    <3>4. lines[i] \in Received /\ script[k] \in Received
      BY <1>2, <1>3, LineType
    <3>5. Alike(Accumulated(after[h], lines[i]), Accumulated(CallsUpTo(script, k - 1), script[k]))
      BY <2>4, <2>6, <3>3, <3>4, SameAccumulated
    <3>6. Accumulated(after[h], lines[i]) \in Calls
      BY <2>6, <3>4, AccumulatedType
    <3> QED
      BY <3>1, <3>2, <3>5, <3>6
  <2> QED
    BY <2>1, <2>8, <2>9
<1> HIDE DEF T
<1>12. Len(lines) \in 0..Len(lines)
  BY <1>4
<1>13. Len(lines) \in T
  BY <1>4, <1>10, <1>11, <1>12, Upwards
<1>14. /\ Agrees(text \o got[Len(lines)], said[to \div 2])
       /\ after[Len(lines)] \in Calls
       /\ Alike(after[Len(lines)], CallsUpTo(script, to \div 2))
  BY <1>4, <1>13 DEF T
<1>15. Texts(lines) = got[Len(lines)] /\ got[Len(lines)] \in Seq(Piece)
  BY <1>5, <1>12 DEF Texts, got
<1> QED
  BY <1>14, <1>15 DEF said, after

\* The text of a whole answer is what its lines say.
LEMMA WholeReply ==
  ASSUME NEW lines \in Seq(Received)
  PROVE  Texts(lines) \in Seq(Piece)
<1>1. Said(lines, Telling(lines, "text")) \in [0..Len(lines) -> Seq(Piece)]
  BY SaidSteps
<1>2. Len(lines) \in 0..Len(lines)
  OBVIOUS
<1> QED
  BY <1>1, <1>2 DEF Texts

LEMMA SameReflexive ==
  ASSUME NEW a \in Calls
  PROVE  SameCalls(a, a) /\ Alike(a, a)
  BY DEF SameCalls, Alike, Agrees, SameOrDamaged

\* What is left of calls that say the same, when those without a name go.
LEMMA NamedCalls ==
  ASSUME NEW a \in Calls, NEW b \in Calls, Alike(a, b)
  PROVE  Named(a) \in Calls /\ SameCalls(Named(a), b)
<1>1. NoCalls \in Calls
  <2>1. <<>> \in Seq(Piece)
    OBVIOUS
  <2> QED
    BY <2>1 DEF NoCalls, Calls, Call
<1>2. Named(a) \in Calls
  BY <1>1 DEF Named, Calls
<1>3. ASSUME NEW n \in 0..MaxCall
      PROVE  Named(a)[n] = IF a[n].name = "" THEN NoCalls[n] ELSE a[n]
  BY DEF Named
<1>4. \A n \in 0..MaxCall : NoCalls[n].name = ""
  BY DEF NoCalls
<1> QED
  BY <1>2, <1>3, <1>4, DamagedAssumption DEF SameCalls, Alike

\* Before its first cell a stream says nothing.
LEMMA NothingYet ==
  ASSUME NEW lines \in Seq(Received)
  PROVE  /\ Agrees(<<>>, Said(lines, Telling(lines, "text"))[0 \div 2])
         /\ NoCalls \in Calls /\ Alike(NoCalls, CallsUpTo(lines, 0 \div 2))
<1>1. 0 \div 2 = 0
  OBVIOUS
<1>2. Said(lines, Telling(lines, "text"))[0] = <<>> /\ CallsUpTo(lines, 0) = NoCalls
  BY SaidSteps, CallsUpToSteps
<1>3. 0 \in 0..Len(lines)
  OBVIOUS
<1>4. NoCalls \in Calls
  BY <1>2, <1>3, CallsUpToSteps
<1>5. Alike(NoCalls, NoCalls)
  BY <1>4, SameReflexive
<1> QED
  BY <1>1, <1>2, <1>4, <1>5 DEF Agrees, SameOrDamaged

\* A provider that is asked has said nothing.
LEMMA PostStream ==
  ASSUME NEW place, Post(place)
  PROVE  StreamInv'
<1>1. script' \in Scripts /\ arrived' = 0 /\ split' = FALSE /\ text' = <<>> /\ calls' = NoCalls
  BY DEF Post
<1>2. script' \in Seq(Received)
  BY <1>1, ScriptsReceived
<1>3. PICK lines \in Seq(Received) : lines = script'
  BY <1>2
<1>4. /\ Agrees(<<>>, Said(lines, Telling(lines, "text"))[0 \div 2])
      /\ NoCalls \in Calls /\ Alike(NoCalls, CallsUpTo(lines, 0 \div 2))
  BY NothingYet
<1>5. <<>> \in Seq(Piece)
  OBVIOUS
<1> QED
  BY <1>1, <1>3, <1>4, <1>5 DEF StreamInv

LEMMA StreamStep ==
  ASSUME StreamInv, ReplyAsSent, arrived \in 0..(2 * Len(script)), CallStep, chain' = chain
  PROVE  StreamInv' /\ ReplyAsSent'
<1>1. ASSUME outcome = "asking"
      PROVE  script \in Seq(Received) /\ text \in Seq(Piece)
  BY <1>1, ScriptsReceived DEF StreamInv
<1>2. CASE Complete
  <2>1. Post(1) /\ outcome' = "asking"
    BY <1>2 DEF Complete
  <2> QED
    BY <2>1, PostStream DEF ReplyAsSent
<1>3. CASE Chunk
  <2>1. /\ outcome = "asking" /\ outcome' = "asking" /\ Asked # Mock
        /\ UNCHANGED <<script, at>>
    BY <1>3 DEF Chunk, Waiting
  <2>2. PICK to \in (arrived + 1)..(2 * Len(script)) :
          /\ arrived' = to
          /\ text' = text \o Texts(Joined(Completed(arrived, to)))
          /\ calls' = Accumulation(Joined(Completed(arrived, to)))[Len(Joined(Completed(arrived, to)))]
    BY <1>3 DEF Chunk
  <2>3. PICK lines : lines = Joined(Completed(arrived, to))
    OBVIOUS
  <2>4. /\ Texts(lines) \in Seq(Piece)
        /\ Agrees(text \o Texts(lines), Said(script, Telling(script, "text"))[to \div 2])
        /\ Accumulation(lines)[Len(lines)] \in Calls
        /\ Alike(Accumulation(lines)[Len(lines)], CallsUpTo(script, to \div 2))
    BY <2>1, <2>3, ChunkParsed
  <2>5. text' \in Seq(Piece)
    BY <1>1, <2>1, <2>2, <2>3, <2>4
  <2>6. /\ Agrees(text', Said(script, Telling(script, "text"))[to \div 2])
        /\ calls' \in Calls /\ Alike(calls', CallsUpTo(script, to \div 2))
    BY <2>2, <2>3, <2>4
  <2>8. StreamInv'
    <3>1. script \in Scripts /\ Asked' = Asked
      BY <2>1 DEF StreamInv, Asked
    <3> QED
      BY <2>1, <2>2, <2>5, <2>6, <3>1 DEF StreamInv, Asked
  <2> QED
    BY <2>1, <2>8 DEF ReplyAsSent
<1>4. CASE StreamEnds
  <2>1. /\ outcome = "asking" /\ outcome' = "ok" /\ UNCHANGED <<text, script>>
        /\ calls' = Named(calls) /\ Asked # Mock
        /\ cut' = (arrived < 2 * Len(script))
    BY <1>4 DEF StreamEnds, Answered, Waiting
  <2>2. script \in Seq(Received) /\ text \in Seq(Piece)
    BY <1>1, <2>1
  <2>3. PICK k \in Nat : k = arrived \div 2
    OBVIOUS
  <2> DEFINE said == Said(script, Telling(script, "text"))
  <2>4. Agrees(text, said[k]) /\ calls \in Calls /\ Alike(calls, CallsUpTo(script, k))
    BY <2>1, <2>3 DEF StreamInv
  <2>5. k \in 0..Len(script) /\ (~cut' => k = Len(script)) /\ Len(script) \in 0..Len(script)
    <3>1. arrived \in Nat /\ Len(script) \in Nat /\ arrived <= 2 * Len(script)
      BY <2>2
    <3>2. ~cut' => ~(arrived < 2 * Len(script))
      BY <2>1, Zenon
    <3> QED
      BY <2>3, <3>1, <3>2
  <2>6. /\ Len(said[k]) <= Len(said[Len(script)])
        /\ \A j \in 1..Len(said[k]) : said[Len(script)][j] = said[k][j]
    BY <2>2, <2>5, SaidGrows
  <2>7. Texts(script) = said[Len(script)] /\ CallsOf(script) = CallsUpTo(script, Len(script))
    BY DEF Texts, CallsOf
  <2> HIDE DEF said
  <2>8. DOMAIN text = 1..Len(said[k]) /\ Len(text) = Len(said[k])
    BY <2>2, <2>4 DEF Agrees
  <2>9. SameOrDamaged(text, Texts(script)) /\ Len(text) <= Len(Texts(script))
    BY <2>4, <2>6, <2>7, <2>8 DEF Agrees, SameOrDamaged
  <2>10. calls' \in Calls /\ SameCalls(calls', CallsUpTo(script, k))
    <3>1. CallsUpTo(script, k) \in Calls
      BY <2>2, <2>5, CallsUpToSteps
    <3>2. Named(calls) \in Calls /\ SameCalls(Named(calls), CallsUpTo(script, k))
      BY <2>4, <3>1, NamedCalls
    <3> QED
      BY <2>1, <3>2
  <2>11. ~cut' => Len(text) = Len(Texts(script)) /\ SameCalls(calls', CallsOf(script))
    BY <2>4, <2>5, <2>7, <2>8, <2>10
  <2>12. ReplyAsSent'
    BY <2>1, <2>9, <2>11 DEF ReplyAsSent
  <2>13. StreamInv'
    BY <2>1, <2>2, <2>10 DEF StreamInv
  <2> QED
    BY <2>12, <2>13
<1>5. CASE Whole \/ MockAnswers
  <2>1. /\ outcome = "asking" /\ outcome' = "ok" /\ script' = script
        /\ text' = Texts(script) /\ calls' = CallsOf(script)
    BY <1>5 DEF Whole, MockAnswers, Answered, Waiting
  <2>2. Texts(script) \in Seq(Piece)
    BY <1>1, <2>1, WholeReply
  <2>3. CallsOf(script) \in Calls /\ SameCalls(CallsOf(script), CallsOf(script))
    <3>1. script \in Seq(Received) /\ Len(script) \in 0..Len(script)
      BY <1>1, <2>1
    <3> QED
      BY <3>1, CallsUpToSteps, SameReflexive DEF CallsOf
  <2>4. StreamInv'
    BY <2>1, <2>2, <2>3 DEF StreamInv
  <2>5. PICK whole \in Seq(Piece) : whole = Texts(script)
    BY <2>2
  <2>6. Len(whole) <= Len(whole) /\ SameOrDamaged(whole, whole)
    BY DEF SameOrDamaged
  <2>7. Texts(script') = whole /\ CallsOf(script') = CallsOf(script) /\ text' = whole
    BY <2>1, <2>5
  <2> QED
    BY <2>1, <2>3, <2>6, <2>7, <2>4 DEF ReplyAsSent
<1>6. ASSUME PassOver, outcome = "asking" PROVE StreamInv' /\ ReplyAsSent'
  <2>1. CASE at < Len(chain)
    BY <1>6, <2>1, PostStream DEF PassOver, ReplyAsSent
  <2>2. CASE ~(at < Len(chain))
    BY <1>6, <2>2 DEF PassOver, stream, StreamInv, ReplyAsSent
  <2> QED
    BY <2>1, <2>2
<1>7. CASE Tick \/ (RequestTimesOut /\ outcome = "asking")
  <2>1. /\ UNCHANGED <<at, script, arrived, split, text, calls, cut>> /\ outcome = "asking"
        /\ outcome' \in {outcome, "timed_out"}
    BY <1>7 DEF Tick, RequestTimesOut, Waiting, stream
  <2>2. Asked' = Asked
    BY <2>1 DEF Asked
  <2> QED
    BY <2>1, <2>2 DEF StreamInv, ReplyAsSent
<1>8. CASE ToolsTake \/ (RequestTimesOut /\ outcome # "asking")
  <2>1. /\ UNCHANGED stream /\ outcome # "asking" /\ outcome' \in {outcome, "timed_out"}
    BY <1>8 DEF ToolsTake, RequestTimesOut, More
  <2> QED
    BY <2>1 DEF stream, StreamInv, ReplyAsSent
<1>9. CASE NextCompletion
  <2>1. Post(1) /\ outcome' = "asking"
    BY <1>9 DEF NextCompletion
  <2> QED
    BY <2>1, PostStream DEF ReplyAsSent
<1>10. CASE MockWord
  <2>1. /\ outcome = "asking" /\ outcome' = "asking" /\ Asked = Mock
        /\ UNCHANGED <<at, script, calls>> /\ Len(text) < Len(Texts(script))
        /\ text' = Append(text, Texts(script)[Len(text) + 1])
    BY <1>10 DEF MockWord, Waiting
  <2>2. text \in Seq(Piece) /\ Asked' = Mock
    BY <1>1, <2>1 DEF Asked
  <2>3. PICK pieces \in Seq(Piece) : pieces = Texts(script)
    BY <1>1, <2>1, WholeReply
  <2>4. PICK piece \in Piece : piece = Texts(script)[Len(text) + 1]
    <3>1. Len(text) + 1 \in 1..Len(pieces)
      BY <2>1, <2>2, <2>3
    <3> QED
      BY <2>3, <3>1
  <2>5. text' \in Seq(Piece)
    BY <2>1, <2>2, <2>4
  <2> QED
    BY <2>1, <2>2, <2>5 DEF StreamInv, ReplyAsSent
<1> QED
  BY <1>2, <1>3, <1>4, <1>5, <1>6, <1>7, <1>8, <1>9, <1>10 DEF CallStep, ProviderFails, HttpTimesOut, Waiting

LEMMA StreamAlways == Spec => [](StreamInv /\ ReplyAsSent)
<1>1. Init => StreamInv /\ ReplyAsSent
  <2>1. <<>> \in Seq(Piece)
    OBVIOUS
  <2>2. NoCalls \in Calls
    BY <2>1 DEF NoCalls, Calls, Call
  <2> QED
    BY <2>1, <2>2 DEF Init, InitCall, StreamInv, ReplyAsSent
<1>2. IInv /\ TypesInv /\ StreamInv /\ ReplyAsSent /\ [Next]_vars => StreamInv' /\ ReplyAsSent'
  <2> SUFFICES ASSUME IInv, TypesInv, StreamInv, ReplyAsSent, [Next]_vars
               PROVE  StreamInv' /\ ReplyAsSent'
    OBVIOUS
  <2>1. CASE Completion
    <3>1. CallStep /\ chain' = chain /\ arrived \in 0..(2 * Len(script))
      BY <2>1 DEF Completion, TypesInv, CallTypes
    <3> QED
      BY <3>1, StreamStep
  <2>2. CASE ~Completion
    <3>1. UNCHANGED call
      BY <2>2 DEF Next, vars, Open, Demo, BuildProvider, Built, Serve, Exit
    <3>2. outcome = "asking" => phase = "serving"
      BY DEF IInv, PhaseInv
    <3>3. outcome = "asking" => chain' = chain
      BY <2>2, <3>2 DEF Next, vars, Open, Demo, BuildProvider, Serve
    <3> QED
      BY <3>1, <3>3 DEF call, stream, StreamInv, ReplyAsSent, Asked
  <2> QED
    BY <2>1, <2>2
<1> QED
  BY <1>1, <1>2, Invariant, InitTypes, StepTypes, PTL DEF Spec

\* However a stream is cut into chunks, its answer is what its lines say.
THEOREM RepliesAreAsSent == Spec => []ReplyAsSent
  BY StreamAlways, PTL

\* What the console was shown: pieces, each with its place.
Pieces == [place : Nat, piece : Piece]

ShownInv ==
  /\ shown \in Seq(Pieces)
  /\ outcome \in {"asking", "ok"} /\ streaming => OwnPiecesLast

LEMMA Together ==
  ASSUME NEW V, NEW a \in Seq(V), NEW b \in Seq(V)
  PROVE  /\ Len(a \o b) = Len(a) + Len(b) /\ DOMAIN (a \o b) = 1..(Len(a) + Len(b))
         /\ \A i \in 1..Len(a) : (a \o b)[i] = a[i]
         /\ \A i \in 1..Len(b) : (a \o b)[Len(a) + i] = b[i]
  OBVIOUS

\* The pieces of the one being asked are put behind those shown before.
LEMMA ShowPieces ==
  ASSUME NEW pieces \in Seq(Piece), text \in Seq(Piece), shown \in Seq(Pieces), OwnPiecesLast,
         at \in Nat, at' = at, text' = text \o pieces,
         shown' = shown \o [i \in DOMAIN pieces |-> [place |-> at, piece |-> pieces[i]]]
  PROVE  OwnPiecesLast'
<1> DEFINE more == [i \in DOMAIN pieces |-> [place |-> at, piece |-> pieces[i]]]
           before == Len(shown) - Len(text)
<1>1. /\ before \in Int /\ before >= 0 /\ Len(shown) = before + Len(text)
      /\ Len(text) \in Nat /\ Len(pieces) \in Nat /\ Len(shown) \in Nat
      /\ DOMAIN shown = 1..Len(shown) /\ DOMAIN text = 1..Len(text)
  BY DEF OwnPiecesLast
<1>2. more \in Seq(Pieces) /\ Len(more) = Len(pieces)
  <2>1. \A i \in 1..Len(pieces) : [place |-> at, piece |-> pieces[i]] \in Pieces
    BY DEF Pieces
  <2>2. DOMAIN pieces = 1..Len(pieces)
    OBVIOUS
  <2> HIDE DEF Pieces
  <2> QED
    BY <1>1, <2>1, <2>2
<1>3. /\ Len(shown') = Len(shown) + Len(pieces) /\ Len(text') = Len(text) + Len(pieces)
      /\ DOMAIN shown' = 1..(Len(shown) + Len(pieces)) /\ DOMAIN text' = 1..(Len(text) + Len(pieces))
      /\ \A i \in 1..Len(shown) : shown'[i] = shown[i]
      /\ \A i \in 1..Len(pieces) : shown'[Len(shown) + i] = more[i]
      /\ \A i \in 1..Len(text) : text'[i] = text[i]
      /\ \A i \in 1..Len(pieces) : text'[Len(text) + i] = pieces[i]
  <2> HIDE DEF more
  <2>1. shown' = shown \o more
    BY DEF more
  <2>2. /\ Len(shown') = Len(shown) + Len(pieces)
        /\ DOMAIN shown' = 1..(Len(shown) + Len(pieces))
        /\ \A i \in 1..Len(shown) : shown'[i] = shown[i]
        /\ \A i \in 1..Len(pieces) : shown'[Len(shown) + i] = more[i]
    <3>0. PICK m \in Seq(Pieces) : m = more
      BY <1>2
    <3>1. \A a, b \in Seq(Pieces) :
            /\ Len(a \o b) = Len(a) + Len(b) /\ DOMAIN (a \o b) = 1..(Len(a) + Len(b))
            /\ \A i \in 1..Len(a) : (a \o b)[i] = a[i]
            /\ \A i \in 1..Len(b) : (a \o b)[Len(a) + i] = b[i]
      BY Together
    <3>2. shown' = shown \o m /\ Len(m) = Len(pieces)
      BY <1>2, <2>1, <3>0
    <3>3. /\ Len(shown') = Len(shown) + Len(m)
          /\ DOMAIN shown' = 1..(Len(shown) + Len(m))
          /\ \A i \in 1..Len(shown) : shown'[i] = shown[i]
          /\ \A i \in 1..Len(m) : shown'[Len(shown) + i] = m[i]
      <4>1. /\ Len(shown \o m) = Len(shown) + Len(m)
            /\ DOMAIN (shown \o m) = 1..(Len(shown) + Len(m))
            /\ \A i \in 1..Len(shown) : (shown \o m)[i] = shown[i]
            /\ \A i \in 1..Len(m) : (shown \o m)[Len(shown) + i] = m[i]
        BY <3>1
      <4> QED
        BY <3>2, <4>1, Zenon
    <3> QED
      BY <3>0, <3>2, <3>3, Zenon
  <2>3. /\ Len(text') = Len(text) + Len(pieces)
        /\ DOMAIN text' = 1..(Len(text) + Len(pieces))
        /\ \A i \in 1..Len(text) : text'[i] = text[i]
        /\ \A i \in 1..Len(pieces) : text'[Len(text) + i] = pieces[i]
    <3>1. \A a, b \in Seq(Piece) :
            /\ Len(a \o b) = Len(a) + Len(b) /\ DOMAIN (a \o b) = 1..(Len(a) + Len(b))
            /\ \A i \in 1..Len(a) : (a \o b)[i] = a[i]
            /\ \A i \in 1..Len(b) : (a \o b)[Len(a) + i] = b[i]
      BY Together
    <3> QED
      BY <3>1, Zenon
  <2> QED
    BY <2>2, <2>3
<1>4. Len(shown') - Len(text') = before
  BY <1>1, <1>3
<1>5. \A i \in 1..Len(pieces) : more[i] = [place |-> at, piece |-> pieces[i]]
  OBVIOUS
<1> HIDE DEF more
<1>6. /\ \A i \in DOMAIN text : shown[before + i] = [place |-> at, piece |-> text[i]]
      /\ \A i \in 1..before : shown[i].place < at
      /\ \A i, j \in DOMAIN shown : i < j => shown[i].place <= shown[j].place
  BY DEF OwnPiecesLast
<1> HIDE DEF before
<1>7. ASSUME NEW i \in DOMAIN text' PROVE shown'[before + i] = [place |-> at', piece |-> text'[i]]
  <2>1. CASE i <= Len(text)
    <3>1. i \in 1..Len(text) /\ before + i \in 1..Len(shown)
      BY <1>1, <1>3, <2>1
    <3> QED
      BY <1>1, <1>3, <1>6, <3>1
  <2>2. CASE i > Len(text)
    <3>1. PICK k \in 1..Len(pieces) : i = Len(text) + k /\ before + i = Len(shown) + k
      <4>1. i - Len(text) \in 1..Len(pieces) /\ i = Len(text) + (i - Len(text))
            /\ before + i = Len(shown) + (i - Len(text))
        BY <1>1, <1>3, <2>2
      <4> QED
        BY <4>1
    <3> QED
      BY <1>3, <1>5, <3>1
  <2> QED
    BY <1>1, <1>3, <2>1, <2>2
<1>8. ASSUME NEW i \in 1..before PROVE shown'[i].place < at'
  <2>1. i \in 1..Len(shown)
    BY <1>1
  <2> QED
    BY <1>3, <1>6, <2>1
<1>9. \A i \in 1..Len(shown) : shown'[i].place <= at
  <2>1. ASSUME NEW i \in 1..Len(shown) PROVE shown[i].place <= at
    <3>1. CASE i <= before
      <4>1. shown[i].place < at /\ shown[i].place \in Nat
        <5>1. shown[i] \in Pieces /\ i \in 1..before
          BY <1>1, <3>1
        <5> QED
          BY <1>6, <5>1 DEF Pieces
      <4> QED
        BY <4>1
    <3>2. CASE i > before
      <4>1. PICK k \in DOMAIN text : i = before + k
        <5>1. i - before \in 1..Len(text) /\ i = before + (i - before)
          BY <1>1, <3>2
        <5> QED
          BY <1>1, <5>1
      <4>2. shown[before + k] = [place |-> at, piece |-> text[k]]
        BY <1>6
      <4>3. shown[i].place = at
        BY <4>1, <4>2
      <4> QED
        BY <4>3
    <3> QED
      BY <1>1, <3>1, <3>2
  <2> QED
    BY <1>3, <2>1
<1>10. \A i \in (Len(shown) + 1)..(Len(shown) + Len(pieces)) : shown'[i].place = at
  <2> TAKE i \in (Len(shown) + 1)..(Len(shown) + Len(pieces))
  <2>1. PICK k \in 1..Len(pieces) : i = Len(shown) + k
    <3>1. i - Len(shown) \in 1..Len(pieces) /\ i = Len(shown) + (i - Len(shown))
      BY <1>1
    <3> QED
      BY <3>1
  <2> QED
    BY <1>3, <1>5, <2>1
<1>11. ASSUME NEW i \in DOMAIN shown', NEW j \in DOMAIN shown', i < j
       PROVE  shown'[i].place <= shown'[j].place
  <2>1. CASE j <= Len(shown)
    <3>1. i \in 1..Len(shown) /\ j \in 1..Len(shown)
      BY <1>1, <1>3, <1>11, <2>1
    <3> QED
      BY <1>1, <1>3, <1>6, <1>11, <3>1
  <2>2. CASE j > Len(shown)
    <3>1. shown'[j].place = at
      BY <1>1, <1>3, <1>10, <2>2
    <3>2. shown'[i].place <= at
      BY <1>1, <1>3, <1>9, <1>10
    <3> QED
      BY <3>1, <3>2
  <2> QED
    BY <1>1, <1>3, <2>1, <2>2
<1> QED
  BY <1>1, <1>4, <1>7, <1>8, <1>11 DEF OwnPiecesLast

\* The next one begins behind all that was shown.
LEMMA ShowBehind ==
  ASSUME text \in Seq(Piece), shown \in Seq(Pieces), OwnPiecesLast, at \in Nat,
         at' = at + 1, text' = <<>>, shown' = shown
  PROVE  OwnPiecesLast'
<1> DEFINE before == Len(shown) - Len(text)
<1>1. /\ before \in Int /\ before >= 0 /\ Len(shown) = before + Len(text)
      /\ Len(text) \in Nat /\ Len(shown) \in Nat
      /\ DOMAIN shown = 1..Len(shown) /\ DOMAIN text = 1..Len(text)
  BY DEF OwnPiecesLast
<1>2. /\ \A i \in DOMAIN text : shown[before + i] = [place |-> at, piece |-> text[i]]
      /\ \A i \in 1..before : shown[i].place < at
      /\ \A i, j \in DOMAIN shown : i < j => shown[i].place <= shown[j].place
  BY DEF OwnPiecesLast
<1> HIDE DEF before
<1>3. ASSUME NEW i \in 1..Len(shown) PROVE shown[i].place < at + 1
  <2>1. CASE i <= before
    <3>1. shown[i] \in Pieces /\ i \in 1..before
      BY <1>1, <2>1
    <3>2. shown[i].place \in Nat /\ shown[i].place < at
      BY <1>2, <3>1 DEF Pieces
    <3> QED
      BY <3>2
  <2>2. CASE i > before
    <3>1. PICK k \in DOMAIN text : i = before + k
      <4>1. i - before \in 1..Len(text) /\ i = before + (i - before)
        BY <1>1, <2>2
      <4> QED
        BY <1>1, <4>1
    <3>2. shown[before + k] = [place |-> at, piece |-> text[k]]
      BY <1>2
    <3>3. shown[i].place = at
      BY <3>1, <3>2
    <3> QED
      BY <3>3
  <2> QED
    BY <1>1, <2>1, <2>2
<1>4. Len(<<>>) = 0 /\ DOMAIN <<>> = {}
  OBVIOUS
<1>5. Len(shown') - Len(text') = Len(shown)
  BY <1>1, <1>4
<1> QED
  BY <1>1, <1>2, <1>3, <1>4, <1>5 DEF OwnPiecesLast

LEMMA ShownStep ==
  ASSUME IInv, CallTypes, StreamInv, ShownInv, CallStep, chain' = chain
  PROVE  ShownInv'
<1>1. at \in Nat /\ text \in Seq(Piece) /\ shown \in Seq(Pieces)
  BY DEF IInv, CallInv, StreamInv, ShownInv
<1>2. ASSUME NEW pieces \in Seq(Piece)
      PROVE  [i \in DOMAIN pieces |-> [place |-> at, piece |-> pieces[i]]] \in Seq(Pieces)
  <2>1. \A i \in 1..Len(pieces) : [place |-> at, piece |-> pieces[i]] \in Pieces
    BY <1>1 DEF Pieces
  <2>2. DOMAIN pieces = 1..Len(pieces) /\ Len(pieces) \in Nat
    OBVIOUS
  <2> HIDE DEF Pieces
  <2> QED
    BY <2>1, <2>2
<1>3. ASSUME NEW pieces \in Seq(Piece), OwnPiecesLast, at' = at, text' = text \o pieces,
             shown' = shown \o [i \in DOMAIN pieces |-> [place |-> at, piece |-> pieces[i]]]
      PROVE  ShownInv'
  <2>1. OwnPiecesLast'
    BY <1>1, <1>3, ShowPieces
  <2>2. PICK more \in Seq(Pieces) :
          more = [i \in DOMAIN pieces |-> [place |-> at, piece |-> pieces[i]]]
    BY <1>2
  <2>3. shown' \in Seq(Pieces)
    BY <1>1, <1>3, <2>2
  <2> QED
    BY <2>1, <2>3 DEF ShownInv
<1>4. CASE Complete \/ NextCompletion
  <2>1. shown' = <<>> /\ text' = <<>>
    BY <1>4 DEF Complete, NextCompletion, Post
  <2>2. <<>> \in Seq(Pieces)
    OBVIOUS
  <2> QED
    BY <2>1, <2>2 DEF ShownInv, OwnPiecesLast
<1>5. CASE Chunk
  <2>1. PICK to \in (arrived + 1)..(2 * Len(script)) :
          /\ text' = text \o Texts(Joined(Completed(arrived, to)))
          /\ shown' = shown \o [i \in DOMAIN Texts(Joined(Completed(arrived, to))) |->
                                  [place |-> at, piece |-> Texts(Joined(Completed(arrived, to)))[i]]]
    BY <1>5 DEF Chunk
  <2>2. PICK pieces : pieces = Texts(Joined(Completed(arrived, to)))
    OBVIOUS
  <2>3. pieces \in Seq(Piece)
    <3>1. PICK lines : lines = Joined(Completed(arrived, to))
      OBVIOUS
    <3>2. arrived \in Nat /\ outcome = "asking" /\ Asked # Mock
      BY <1>5 DEF CallTypes, Chunk, Waiting
    <3> QED
      BY <2>2, <3>1, <3>2, ChunkParsed
  <2>4. OwnPiecesLast /\ at' = at
    BY <1>5 DEF ShownInv, Chunk, Waiting
  <2> QED
    BY <1>3, <2>1, <2>2, <2>3, <2>4
<1>6. CASE StreamEnds
  <2>1. OwnPiecesLast /\ UNCHANGED <<at, text, shown>>
    BY <1>6 DEF ShownInv, StreamEnds, Answered, Waiting
  <2> QED
    BY <2>1 DEF ShownInv, OwnPiecesLast
<1>7. CASE Whole
  BY <1>7 DEF Whole, Answered, ShownInv
<1>8. CASE MockAnswers
  <2>1. /\ outcome = "asking" /\ UNCHANGED <<at, streaming, shown>>
        /\ streaming => text' = text
    BY <1>8 DEF MockAnswers, Answered, Waiting
  <2> QED
    BY <2>1 DEF ShownInv, OwnPiecesLast
<1>9. ASSUME PassOver, outcome = "asking" PROVE ShownInv'
  <2>1. CASE at < Len(chain)
    <3>1. at' = at + 1 /\ text' = <<>> /\ shown' = shown /\ streaming' = streaming
      BY <1>9, <2>1 DEF PassOver, Post
    <3>2. streaming => OwnPiecesLast
      BY <1>9 DEF ShownInv
    <3>3. streaming => OwnPiecesLast'
      BY <1>1, <3>1, <3>2, ShowBehind
    <3> QED
      BY <1>1, <3>1, <3>3 DEF ShownInv
  <2>2. CASE ~(at < Len(chain))
    <3>1. outcome' = "error" /\ shown' = shown
      BY <1>9, <2>2 DEF PassOver
    <3> QED
      BY <1>1, <3>1 DEF ShownInv
  <2> QED
    BY <2>1, <2>2
<1>10. CASE Tick \/ ToolsTake \/ RequestTimesOut
  <2>1. /\ UNCHANGED <<at, text, shown, streaming>> /\ outcome \in {"asking", "ok"}
        /\ outcome' \in {outcome, "timed_out"}
    BY <1>10 DEF Tick, ToolsTake, RequestTimesOut, Waiting, More, stream
  <2> QED
    BY <2>1 DEF ShownInv, OwnPiecesLast
<1>11. CASE MockWord
  <2>1. /\ outcome = "asking" /\ at' = at /\ streaming /\ Len(text) < Len(Texts(script))
        /\ text' = Append(text, Texts(script)[Len(text) + 1])
        /\ shown' = Append(shown, [place |-> at, piece |-> Texts(script)[Len(text) + 1]])
    BY <1>11 DEF MockWord, Waiting
  <2>2. PICK pieces \in Seq(Piece) : pieces = Texts(script)
    <3>1. script \in Seq(Received)
      BY <2>1, ScriptsReceived DEF StreamInv
    <3> QED
      BY <3>1, WholeReply
  <2>3. PICK piece \in Piece : piece = Texts(script)[Len(text) + 1]
    <3>1. Len(text) + 1 \in 1..Len(pieces)
      BY <1>1, <2>1, <2>2
    <3> QED
      BY <2>2, <3>1
  <2>4. PICK one \in Seq(Piece) : one = <<piece>>
    <3>1. <<piece>> \in Seq(Piece)
      OBVIOUS
    <3> QED
      BY <3>1
  <2>5. [i \in DOMAIN one |-> [place |-> at, piece |-> one[i]]] = <<[place |-> at, piece |-> piece]>>
    BY <2>4
  <2>6. text' = text \o one
    BY <1>1, <2>1, <2>3, <2>4
  <2>7. [place |-> at, piece |-> piece] \in Pieces
    BY <1>1 DEF Pieces
  <2>8. shown' = shown \o <<[place |-> at, piece |-> piece]>>
    <3>1. PICK last \in Pieces : last = [place |-> at, piece |-> piece]
      BY <2>7
    <3>2. shown' = Append(shown, last)
      BY <2>1, <2>3, <3>1
    <3>3. Append(shown, last) = shown \o <<last>>
      BY <1>1
    <3> QED
      BY <3>1, <3>2, <3>3
  <2>9. OwnPiecesLast
    BY <2>1 DEF ShownInv
  <2> QED
    BY <1>3, <2>1, <2>5, <2>6, <2>8, <2>9
<1> QED
  BY <1>4, <1>5, <1>6, <1>7, <1>8, <1>9, <1>10, <1>11 DEF CallStep, ProviderFails, HttpTimesOut, Waiting

\* What the console shows last is the answer, whatever was shown of providers
\* that failed half-way.
THEOREM AnswersAreShownLast == Spec => []AnswerShownLast
<1>1. Init => ShownInv
  <2>1. <<>> \in Seq(Pieces)
    OBVIOUS
  <2> QED
    BY <2>1 DEF Init, InitCall, ShownInv
<1>2. IInv /\ TypesInv /\ StreamInv /\ ShownInv /\ [Next]_vars => ShownInv'
  <2> SUFFICES ASSUME IInv, TypesInv, StreamInv, ShownInv, [Next]_vars
               PROVE  ShownInv'
    OBVIOUS
  <2>1. CASE Completion
    <3>1. CallStep /\ chain' = chain /\ CallTypes
      BY <2>1 DEF Completion, TypesInv
    <3> QED
      BY <3>1, ShownStep
  <2>2. CASE ~Completion
    <3>1. UNCHANGED call
      BY <2>2 DEF Next, vars, Open, Demo, BuildProvider, Built, Serve, Exit
    <3> QED
      BY <3>1 DEF call, stream, ShownInv, OwnPiecesLast
  <2> QED
    BY <2>1, <2>2
<1>3. ShownInv => AnswerShownLast
  BY DEF ShownInv, AnswerShownLast
<1> QED
  BY <1>1, <1>2, <1>3, Invariant, InitTypes, StepTypes, StreamAlways, PTL DEF Spec
=============================================================================
