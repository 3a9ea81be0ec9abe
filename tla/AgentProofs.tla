------------------------------ MODULE AgentProofs ------------------------------
(***************************************************************************)
(* Proofs about the agent process, for any number of pools, tasks, tokens, *)
(* blocks, intents and restarts, and any MAX_CONSECUTIVE_FAILURES.  Each   *)
(* invariant is made inductive by what the stages of a run have            *)
(* established: the state an actor keeps across an await.                  *)
(***************************************************************************)
EXTENDS Agent, SequenceTheorems, TLAPS

-----------------------------------------------------------------------------
(* Types.                                                                  *)

Stages == {"idle", "observing", "policy", "simulating", "nonce", "sending", "waiting",
           "recording", "reporting", "burning", "alerting"}
Runs == [stage : Stages, source : Pools \cup Tasks \cup {"none"}, block : 0 .. MaxBlock,
         manual : BOOLEAN, intent : Nat, nonce : Nat, status : Statuses, hash : Nat]
Intents == [source : Pools \cup Tasks, token : Tokens]

\* Stages in which an actor has built the intent of its run; those before it sends.
BeforeSending == {"policy", "simulating", "nonce", "sending"}
WithIntent == BeforeSending \cup {"waiting", "recording", "reporting", "burning"}

SourcesOf(a) == IF a = "pipeline" THEN Pools ELSE Tasks

\* What a run keeps from one await to the next.
RunsFit ==
    \A a \in Actors :
        /\ Busy(a) => run[a].source \in SourcesOf(a)
        /\ run[a].stage \in WithIntent => run[a].intent \in 1 .. Len(intents)
        /\ run[a].stage \in {"recording", "reporting"} => run[a].status \in {"EXECUTED", "FAILED"}

Typed == TypeOK /\ RunsFit

LEMMA IdleTyped == Idle \in Runs
BY AgentAssumption DEF Idle, Runs, Stages, Statuses, NoIntent, NoHash

\* A step of one actor replaces its run and leaves the other's.
LEMMA RunReplaced ==
    ASSUME Typed, NEW a \in Actors, NEW r \in Runs, run' = [run EXCEPT ![a] = r],
           r.stage # "idle" => r.source \in SourcesOf(a),
           intents' \in Seq(Intents), Len(intents') >= Len(intents),
           r.stage \in WithIntent => r.intent \in 1 .. Len(intents'),
           r.stage \in {"recording", "reporting"} => r.status \in {"EXECUTED", "FAILED"}
    PROVE  run' \in [Actors -> Runs] /\ RunsFit'
<1>1. run' \in [Actors -> Runs]
  BY DEF Typed, TypeOK, Runs, Stages
<1>2. ASSUME NEW b \in Actors
      PROVE  /\ Busy(b)' => run'[b].source \in SourcesOf(b)
             /\ run'[b].stage \in WithIntent => run'[b].intent \in 1 .. Len(intents')
             /\ run'[b].stage \in {"recording", "reporting"}
                  => run'[b].status \in {"EXECUTED", "FAILED"}
  <2>1. Len(intents) \in Nat /\ Len(intents') \in Nat
    BY DEF Typed, TypeOK
  <2>2. CASE b = a
    <3>1. run'[b] = r
      BY <2>2 DEF Typed, TypeOK
    <3> QED BY <2>2, <3>1 DEF Busy
  <2>3. CASE b # a
    <3>1. run'[b] = run[b]
      BY <2>3 DEF Typed, TypeOK
    <3>2. run[b].stage \in WithIntent => run[b].intent \in 1 .. Len(intents')
      BY <2>1 DEF Typed, RunsFit
    <3> QED BY <3>1, <3>2 DEF Typed, RunsFit, Busy
  <2> QED BY <2>2, <2>3
<1> QED BY <1>1, <1>2 DEF RunsFit, Busy

\* The part of the process's memory that the steps of an actor change.
ProcessTyped ==
    /\ run \in [Actors -> Runs] /\ RunsFit
    /\ consecutiveFailures \in Nat /\ tripped \in BOOLEAN
    /\ lastProcessedBlock \in [Pools -> 0 .. MaxBlock]
    /\ taskState \in [Tasks -> {"IDLE", "RUNNING", "SKIPPED", "REJECTED", "EXECUTED", "FAILED"}]
    /\ due \subseteq Tasks

\* When the memory keeps its types and the rest does not change, all types are kept.
LEMMA RestUnchanged ==
    ASSUME Typed, ProcessTyped',
           UNCHANGED <<mode, started, replaced, chain, files, manualRuns, restarts>>,
           {verified', requested'} \subseteq SUBSET [call : {"swap", "burn"},
                                                     intent : 1 .. Len(intents)],
           outcomes' \in Seq([status : {"EXECUTED", "FAILED"}, beside : BOOLEAN]),
           afterTrip' \in Nat
    PROVE  Typed'
BY DEF Typed, TypeOK, ProcessTyped, chain, files, Runs, Stages

LEMMA GotoTyped ==
    ASSUME Typed, NEW a \in Actors, NEW stage \in Stages \ {"idle"}, Goto(a, stage), Busy(a),
           stage \in WithIntent => run[a].stage \in WithIntent,
           stage \in {"recording", "reporting"} => run[a].stage \in {"recording", "reporting"},
           UNCHANGED intents
    PROVE  run' \in [Actors -> Runs] /\ RunsFit'
<1> DEFINE r == [run[a] EXCEPT !.stage = stage]
<1>1. run[a] \in Runs
  BY DEF Typed, TypeOK, Runs, Stages
<1>2. r \in Runs /\ r.stage = stage /\ r.source = run[a].source /\ r.intent = run[a].intent
      /\ r.status = run[a].status
  BY <1>1 DEF Runs
<1>3. run' = [run EXCEPT ![a] = r]
  BY <1>1 DEF Goto, Typed, TypeOK
<1>4. intents' \in Seq(Intents) /\ Len(intents') >= Len(intents)
  BY DEF Typed, TypeOK, Intents
<1>5. /\ run[a].source \in SourcesOf(a)
      /\ run[a].stage \in WithIntent => run[a].intent \in 1 .. Len(intents)
      /\ run[a].stage \in {"recording", "reporting"} => run[a].status \in {"EXECUTED", "FAILED"}
  BY DEF Typed, RunsFit
<1> HIDE DEF r
<1> QED BY <1>2, <1>3, <1>4, <1>5, RunReplaced

LEMMA EndTyped ==
    ASSUME Typed, NEW a \in Actors, NEW state \in {"SKIPPED", "REJECTED", "EXECUTED", "FAILED"},
           Busy(a), End(a, state), UNCHANGED intents
    PROVE  /\ run' \in [Actors -> Runs] /\ RunsFit'
           /\ lastProcessedBlock' \in [Pools -> 0 .. MaxBlock]
           /\ taskState' \in [Tasks -> {"IDLE", "RUNNING", "SKIPPED", "REJECTED", "EXECUTED",
                                        "FAILED"}]
           /\ due' \subseteq Tasks
<1>1. run' \in [Actors -> Runs] /\ RunsFit'
  <2>1. run' = [run EXCEPT ![a] = Idle] /\ Idle \in Runs /\ Idle.stage = "idle"
    BY IdleTyped DEF End, Idle
  <2>2. intents' \in Seq(Intents) /\ Len(intents') >= Len(intents)
    BY DEF Typed, TypeOK, Intents
  <2> QED BY <2>1, <2>2, RunReplaced DEF WithIntent, BeforeSending
<1>2. run[a] \in Runs /\ run[a].source \in SourcesOf(a)
  BY DEF Typed, TypeOK, Runs, Stages, RunsFit
<1>3. run[a].block \in 0 .. MaxBlock
  BY <1>2 DEF Runs
<1>4. CASE a = "pipeline"
  BY <1>1, <1>2, <1>3, <1>4 DEF End, Processed, SourcesOf, Typed, TypeOK
<1>5. CASE a # "pipeline"
  BY <1>1, <1>2, <1>5 DEF End, SourcesOf, Typed, TypeOK
<1> QED BY <1>4, <1>5

LEMMA FailAndEndTyped ==
    ASSUME Typed, NEW a \in Actors, Busy(a), FailAndEnd(a), UNCHANGED intents
    PROVE  ProcessTyped'
<1>1. consecutiveFailures' \in Nat /\ tripped' \in BOOLEAN
  BY AgentAssumption DEF FailAndEnd, RecordFailure, FailureTrips, Typed, TypeOK
<1>2. CASE FailureTrips
  <2>1. run' \in [Actors -> Runs] /\ RunsFit'
    BY <1>2, GotoTyped DEF FailAndEnd, Stages, WithIntent, BeforeSending
  <2> QED BY <1>1, <1>2, <2>1 DEF FailAndEnd, ProcessTyped, Typed, TypeOK
<1>3. CASE ~FailureTrips
  BY <1>1, <1>3, EndTyped DEF FailAndEnd, ProcessTyped
<1> QED BY <1>2, <1>3

\* A run that waits on the chain goes on to record what it made of it.
LEMMA ExecuteThrowsTyped ==
    ASSUME Typed, NEW a \in Actors, run[a].stage \in WithIntent, UNCHANGED intents,
           NEW status \in {"EXECUTED", "FAILED"}, NEW hash \in Nat,
           run' = [run EXCEPT ![a].stage = "recording", ![a].status = status, ![a].hash = hash]
    PROVE  run' \in [Actors -> Runs] /\ RunsFit'
<1> DEFINE r == [run[a] EXCEPT !.stage = "recording", !.status = status, !.hash = hash]
<1>1. run[a] \in Runs /\ Busy(a)
  BY DEF Typed, TypeOK, Runs, Stages, WithIntent, BeforeSending, Busy
<1>2. r \in Runs /\ r.stage = "recording" /\ r.source = run[a].source
      /\ r.intent = run[a].intent /\ r.status = status
  BY <1>1 DEF Runs, Stages, Statuses
<1>3. run' = [run EXCEPT ![a] = r]
  BY <1>1 DEF Typed, TypeOK
<1>4. intents' \in Seq(Intents) /\ Len(intents') >= Len(intents)
  BY DEF Typed, TypeOK, Intents
<1>5. run[a].source \in SourcesOf(a) /\ run[a].intent \in 1 .. Len(intents)
  BY <1>1 DEF Typed, RunsFit
<1> HIDE DEF r
<1> QED BY <1>2, <1>3, <1>4, <1>5, RunReplaced

LEMMA ReadNonceTyped ==
    ASSUME Typed, NEW a \in Actors, run[a].stage \in BeforeSending, UNCHANGED intents,
           run' = [run EXCEPT ![a].stage = "sending", ![a].nonce = Len(sent)]
    PROVE  run' \in [Actors -> Runs] /\ RunsFit'
<1> DEFINE r == [run[a] EXCEPT !.stage = "sending", !.nonce = Len(sent)]
<1>1. run[a] \in Runs /\ Busy(a) /\ run[a].stage \in WithIntent
  BY DEF Typed, TypeOK, Runs, Stages, WithIntent, BeforeSending, Busy
<1>2. r \in Runs /\ r.stage = "sending" /\ r.source = run[a].source
      /\ r.intent = run[a].intent
  <2>1. Len(sent) \in Nat
    BY DEF Typed, TypeOK
  <2> QED BY <1>1, <2>1 DEF Runs, Stages
<1>3. run' = [run EXCEPT ![a] = r]
  BY <1>1 DEF Typed, TypeOK
<1>4. intents' \in Seq(Intents) /\ Len(intents') >= Len(intents)
  BY DEF Typed, TypeOK, Intents
<1>5. run[a].source \in SourcesOf(a) /\ run[a].intent \in 1 .. Len(intents)
  BY <1>1 DEF Typed, RunsFit
<1> HIDE DEF r
<1> QED BY <1>2, <1>3, <1>4, <1>5, RunReplaced

\* Calls are about intents that were built.
LEMMA CallTyped ==
    ASSUME Typed, NEW a \in Actors, run[a].stage \in WithIntent, NEW call \in {"swap", "burn"},
           NEW calls \in {verified, requested}
    PROVE  calls \cup {[call |-> call, intent |-> run[a].intent]}
               \in SUBSET [call : {"swap", "burn"}, intent : 1 .. Len(intents)]
<1>1. run[a].intent \in 1 .. Len(intents)
  BY DEF Typed, RunsFit
<1> QED BY <1>1 DEF Typed, TypeOK

\* A new intent leaves what refers to the older ones well typed.
LEMMA BuildIntentTyped ==
    ASSUME Typed, NEW a \in Actors, NEW k \in Tokens, BuildIntent(a, k)
    PROVE  Typed'
<1> DEFINE new == [source |-> run[a].source, token |-> k]
           r == [run[a] EXCEPT !.stage = "policy", !.intent = Len(intents) + 1]
<1>1. run[a] \in Runs /\ run[a].stage = "observing" /\ run[a].source \in SourcesOf(a)
      /\ Len(intents) \in Nat
  BY DEF BuildIntent, Typed, TypeOK, RunsFit, Busy, Runs, Stages
<1>2. new \in Intents
  BY <1>1 DEF Intents, SourcesOf
<1>3. intents \in Seq(Intents) /\ intents' = Append(intents, new)
  BY DEF BuildIntent, Typed, TypeOK, Intents
<1> HIDE DEF new
<1>4. intents' \in Seq(Intents) /\ Len(intents') = Len(intents) + 1
  BY <1>2, <1>3
<1>5. r \in Runs /\ r.stage = "policy" /\ r.source = run[a].source
      /\ r.intent = Len(intents) + 1
  <2>1. Len(intents) + 1 \in Nat
    BY <1>1
  <2> QED BY <1>1, <2>1 DEF Runs, Stages
<1>6. run' = [run EXCEPT ![a] = r]
  BY <1>1 DEF BuildIntent, Typed, TypeOK
<1> HIDE DEF r
<1>7. run' \in [Actors -> Runs] /\ RunsFit'
  <2>1. Len(intents') >= Len(intents) /\ r.intent \in 1 .. Len(intents')
    BY <1>1, <1>4, <1>5
  <2> QED BY <1>1, <1>4, <1>5, <1>6, <2>1, RunReplaced
<1>8. 1 .. Len(intents) \subseteq 1 .. Len(intents')
  <2>1. Len(intents) \in Nat /\ Len(intents') \in Nat /\ Len(intents) <= Len(intents')
    BY <1>1, <1>4
  <2> QED BY <2>1
<1>9. sent' \in Seq(1 .. Len(intents'))
  <2>1. sent \in Seq(1 .. Len(intents)) /\ sent' = sent
    BY DEF BuildIntent, Typed, TypeOK, chain
  <2> QED BY <1>8, <2>1, SeqMonotonic
<1>10. records' \in Seq([intent : 1 .. Len(intents'), status : {"EXECUTED", "FAILED"},
                         hash : Nat])
  <2> DEFINE R == [intent : 1 .. Len(intents), status : {"EXECUTED", "FAILED"}, hash : Nat]
             S == [intent : 1 .. Len(intents'), status : {"EXECUTED", "FAILED"}, hash : Nat]
  <2>1. records \in Seq(R) /\ records' = records
    BY DEF BuildIntent, Typed, TypeOK
  <2>2. R \subseteq S
    BY <1>8
  <2> HIDE DEF R, S
  <2>3. records' \in Seq(S)
    BY <2>1, <2>2, SeqMonotonic
  <2> QED BY <2>3 DEF S
<1>11. /\ {verified', requested'} \subseteq SUBSET [call : {"swap", "burn"},
                                                     intent : 1 .. Len(intents')]
       /\ replaced' \subseteq 1 .. Len(intents')
  BY <1>8 DEF BuildIntent, Typed, TypeOK, history
<1> QED BY <1>4, <1>7, <1>9, <1>10, <1>11
        DEF BuildIntent, Typed, TypeOK, Intents, breaker, chain, bounds, history, Runs, Stages

LEMMA SendTyped ==
    ASSUME Typed, NEW a \in Actors, Send(a)
    PROVE  Typed'
<1>1. run[a].stage \in WithIntent /\ run[a].intent \in 1 .. Len(intents)
  BY DEF Send, WithIntent, BeforeSending, Typed, RunsFit
<1>2. run' \in [Actors -> Runs] /\ RunsFit'
  <2>1. CASE Goto(a, "waiting")
    BY <1>1, <2>1, GotoTyped DEF Send, files, Stages, WithIntent, Busy, BeforeSending
  <2>2. CASE ExecuteThrows(a)
    BY <1>1, <2>2, ExecuteThrowsTyped DEF Send, files, ExecuteThrows, NoHash
  <2> QED BY <2>1, <2>2 DEF Send
<1>3. /\ sent' \in Seq(1 .. Len(intents)) /\ Len(sent') >= Len(sent)
      /\ replaced' \subseteq 1 .. Len(intents)
  <2> DEFINE S == 1 .. Len(intents)
             i == run[a].intent
             n == run[a].nonce + 1
  <2>1. sent \in Seq(S) /\ i \in S /\ replaced \subseteq S
    BY <1>1 DEF Typed, TypeOK
  <2>2. \/ sent' = Append(sent, i) /\ UNCHANGED replaced
        \/ UNCHANGED <<sent, replaced>>
        \/ /\ n \in 1 .. Len(sent)
           /\ sent' = [sent EXCEPT ![n] = i] /\ replaced' = replaced \cup {sent[n]}
    <3>1. run[a].nonce \in Nat /\ Len(sent) \in Nat /\ mined \in Nat
      BY DEF Typed, TypeOK
    <3> QED BY <3>1 DEF Send, Accepts
  <2> HIDE DEF S, i, n
  <2>3. ASSUME n \in 1 .. Len(sent), sent' = [sent EXCEPT ![n] = i],
               replaced' = replaced \cup {sent[n]}
        PROVE  sent' \in Seq(S) /\ Len(sent') >= Len(sent) /\ replaced' \subseteq S
    <3>1. sent[n] \in S
      BY <2>1, <2>3, ElementOfSeq
    <3>2. sent' \in Seq(S) /\ Len(sent') = Len(sent) /\ Len(sent) \in Nat
      BY <2>1, <2>3, ExceptSeq, LenProperties
    <3> QED BY <2>1, <2>3, <3>1, <3>2
  <2>4. sent' \in Seq(S) /\ Len(sent') >= Len(sent) /\ replaced' \subseteq S
    BY <2>1, <2>2, <2>3, AppendProperties, LenProperties
  <2> QED BY <2>4 DEF S
<1>4. mined' \in 0 .. Len(sent')
  BY <1>3 DEF Send, Typed, TypeOK
<1>5. requested' \in SUBSET [call : {"swap", "burn"}, intent : 1 .. Len(intents)]
  BY <1>1, CallTyped DEF Send
<1>6. afterTrip' \in Nat
  <2>1. afterTrip \in Nat /\ (afterTrip' = afterTrip \/ afterTrip' = afterTrip + 1)
    BY DEF Send, Typed, TypeOK
  <2> QED BY <2>1
<1> QED BY <1>2, <1>3, <1>4, <1>5, <1>6
        DEF Send, Typed, TypeOK, breaker, files, bounds, Runs, Stages

LEMMA WriteRecordTyped ==
    ASSUME Typed, NEW a \in Actors, WriteRecord(a)
    PROVE  Typed'
<1> DEFINE record == [intent |-> run[a].intent, status |-> run[a].status, hash |-> run[a].hash]
           Recs == [intent : 1 .. Len(intents), status : {"EXECUTED", "FAILED"}, hash : Nat]
           Outs == [status : {"EXECUTED", "FAILED"}, beside : BOOLEAN]
<1>1. run[a] \in Runs /\ run[a].intent \in 1 .. Len(intents)
      /\ run[a].status \in {"EXECUTED", "FAILED"}
  BY DEF WriteRecord, WithIntent, BeforeSending, Typed, TypeOK, RunsFit, Runs, Stages
<1>2. run' \in [Actors -> Runs] /\ RunsFit'
  BY GotoTyped DEF WriteRecord, Stages, WithIntent, BeforeSending, Busy
<1>3. records' \in Seq(Recs)
  <2>1. record \in Recs
    BY <1>1 DEF Runs
  <2>2. records' = Append(records, record) \/ records' = records
    BY DEF WriteRecord
  <2>3. records \in Seq(Recs)
    BY DEF Typed, TypeOK
  <2> HIDE DEF record, Recs
  <2> QED BY <2>1, <2>2, <2>3
<1>4. outcomes' \in Seq(Outs)
  <2> DEFINE beside == \E b \in Actors \ {a} :
                           run[b].stage = "reporting" /\ run[b].status = "EXECUTED"
             out == [status |-> run[a].status, beside |-> beside]
  <2>1. beside \in BOOLEAN
    OBVIOUS
  <2>2. outcomes' = Append(outcomes, out)
    BY DEF WriteRecord
  <2>3. outcomes \in Seq(Outs)
    BY DEF Typed, TypeOK
  <2> HIDE DEF beside
  <2>4. out \in Outs
    BY <1>1, <2>1
  <2> HIDE DEF out, Outs
  <2> QED BY <2>2, <2>3, <2>4
<1> QED BY <1>2, <1>3, <1>4
        DEF WriteRecord, Typed, TypeOK, breaker, chain, bounds, Runs, Stages

\* Types are kept by every step of an actor.
LEMMA ActorStepTyped ==
    ASSUME Typed, NEW a \in Actors, ActorStep(a)
    PROVE  Typed'
<1>1. {verified, requested} \subseteq SUBSET [call : {"swap", "burn"}, intent : 1 .. Len(intents)]
      /\ outcomes \in Seq([status : {"EXECUTED", "FAILED"}, beside : BOOLEAN])
      /\ afterTrip \in Nat
      /\ consecutiveFailures \in Nat /\ tripped \in BOOLEAN
      /\ lastProcessedBlock \in [Pools -> 0 .. MaxBlock]
      /\ taskState \in [Tasks -> {"IDLE", "RUNNING", "SKIPPED", "REJECTED", "EXECUTED", "FAILED"}]
      /\ due \subseteq Tasks
  BY DEF Typed, TypeOK
<1> USE DEF breaker, chain, files, bounds, history, WithIntent, BeforeSending, Stages, Busy
<1>2. CASE AlertDone(a)
  <2>1. ProcessTyped'
    BY <1>1, <1>2, EndTyped DEF AlertDone, ProcessTyped
  <2> QED BY <1>1, <1>2, <2>1, RestUnchanged DEF AlertDone
<1>3. CASE ObserveNothing(a)
  <2>1. ProcessTyped'
    BY <1>1, <1>3, EndTyped DEF ObserveNothing, ProcessTyped
  <2> QED BY <1>1, <1>3, <2>1, RestUnchanged DEF ObserveNothing
<1>4. CASE ObserveThrows(a)
  <2>1. CASE FailAndEnd(a)
    <3>1. ProcessTyped'
      BY <1>1, <1>4, <2>1, FailAndEndTyped DEF ObserveThrows
    <3> QED BY <1>1, <1>4, <3>1, RestUnchanged DEF ObserveThrows
  <2>2. CASE End(a, "FAILED") /\ UNCHANGED breaker
    <3>1. ProcessTyped'
      BY <1>1, <1>4, <2>2, EndTyped DEF ObserveThrows, ProcessTyped
    <3> QED BY <1>1, <1>4, <3>1, RestUnchanged DEF ObserveThrows
  <2> QED BY <1>4, <2>1, <2>2 DEF ObserveThrows
<1>5. ASSUME NEW k \in Tokens, BuildIntent(a, k)
      PROVE  Typed'
  BY <1>5, BuildIntentTyped
<1>6. CASE PolicyCheck(a)
  <2>1. ProcessTyped'
    BY <1>1, <1>6, EndTyped, GotoTyped DEF PolicyCheck, ProcessTyped
  <2> QED BY <1>1, <1>6, <2>1, RestUnchanged DEF PolicyCheck
<1>7. CASE SimulationPasses(a)
  <2>1. ProcessTyped'
    BY <1>1, <1>7, EndTyped, GotoTyped DEF SimulationPasses, ProcessTyped
  <2>2. verified' \in SUBSET [call : {"swap", "burn"}, intent : 1 .. Len(intents)]
    BY <1>7, CallTyped DEF SimulationPasses
  <2> QED BY <1>1, <1>7, <2>1, <2>2, RestUnchanged DEF SimulationPasses
<1>8. CASE SimulationFails(a)
  <2>1. CASE FailAndEnd(a)
    <3>1. ProcessTyped'
      BY <1>1, <1>8, <2>1, FailAndEndTyped DEF SimulationFails
    <3> QED BY <1>1, <1>8, <3>1, RestUnchanged DEF SimulationFails
  <2>2. CASE End(a, "REJECTED") /\ UNCHANGED breaker
    <3>1. ProcessTyped'
      BY <1>1, <1>8, <2>2, EndTyped DEF SimulationFails, ProcessTyped
    <3> QED BY <1>1, <1>8, <3>1, RestUnchanged DEF SimulationFails
  <2> QED BY <1>8, <2>1, <2>2 DEF SimulationFails
<1>9. CASE ReadNonce(a)
  <2>0. NoHash \in Nat
    BY DEF NoHash
  <2>1. run' \in [Actors -> Runs] /\ RunsFit'
    BY <1>9, <2>0, ReadNonceTyped, ExecuteThrowsTyped, Zenon DEF ReadNonce, ExecuteThrows
  <2>2. ProcessTyped'
    BY <1>1, <1>9, <2>1 DEF ReadNonce, ProcessTyped
  <2> QED BY <1>1, <1>9, <2>2, RestUnchanged, SMTT(30) DEF ReadNonce
<1>10. CASE Send(a)
  BY <1>10, SendTyped
<1>11. CASE ReceiptArrives(a)
  <2> DEFINE n == run[a].nonce + 1
             status == IF result[n] = "success" THEN "EXECUTED" ELSE "FAILED"
  <2>2. run' = [run EXCEPT ![a].stage = "recording", ![a].status = status, ![a].hash = n]
    BY <1>11 DEF ReceiptArrives, Typed, TypeOK
  <2>3. status \in {"EXECUTED", "FAILED"} /\ n \in Nat
    BY DEF Typed, TypeOK
  <2> HIDE DEF status, n
  <2>4. run' \in [Actors -> Runs] /\ RunsFit'
    BY <1>11, <2>2, <2>3, ExecuteThrowsTyped DEF ReceiptArrives
  <2>5. ProcessTyped'
    BY <1>1, <1>11, <2>4 DEF ReceiptArrives, ProcessTyped
  <2> QED BY <1>1, <1>11, <2>5, RestUnchanged DEF ReceiptArrives
<1>12. CASE WaitTimesOut(a)
  <2>1. run' \in [Actors -> Runs] /\ RunsFit'
    BY <1>12, ExecuteThrowsTyped DEF WaitTimesOut, ExecuteThrows, NoHash
  <2>2. ProcessTyped'
    BY <1>1, <1>12, <2>1 DEF WaitTimesOut, ProcessTyped
  <2> QED BY <1>1, <1>12, <2>2, RestUnchanged DEF WaitTimesOut
<1>13. CASE WriteRecord(a)
  BY <1>13, WriteRecordTyped
<1>14. CASE ReportOutcome(a)
  <2>1. CASE FailAndEnd(a)
    <3>1. ProcessTyped'
      BY <1>1, <1>14, <2>1, FailAndEndTyped DEF ReportOutcome
    <3> QED BY <1>1, <1>14, <3>1, RestUnchanged DEF ReportOutcome
  <2>2. CASE RecordSuccess
    <3>1. consecutiveFailures' \in Nat /\ tripped' \in BOOLEAN
      BY <1>1, <2>2 DEF RecordSuccess
    <3>2. ProcessTyped'
      BY <1>1, <1>14, <2>2, <3>1, EndTyped, GotoTyped
         DEF ReportOutcome, ProcessTyped, FailAndEnd
    <3> QED BY <1>1, <1>14, <3>2, RestUnchanged DEF ReportOutcome
  <2> QED BY <1>14, <2>1, <2>2 DEF ReportOutcome
<1>15. CASE Burn(a)
  <2>1. ProcessTyped'
    BY <1>1, <1>15, EndTyped DEF Burn, ProcessTyped
  <2>2. requested' \in SUBSET [call : {"swap", "burn"}, intent : 1 .. Len(intents)]
    BY <1>1, <1>15, CallTyped DEF Burn
  <2> QED BY <1>1, <1>15, <2>1, <2>2, RestUnchanged DEF Burn
<1> QED BY <1>2, <1>3, <1>4, <1>5, <1>6, <1>7, <1>8, <1>9, <1>10, <1>11, <1>12, <1>13, <1>14,
           <1>15 DEF ActorStep

\* Types are kept by the beginnings of runs and by what happens around the actors.
LEMMA BeginTyped ==
    ASSUME Typed, NEW a \in Actors, NEW r \in Runs, r.stage = "observing",
           r.source \in SourcesOf(a), UNCHANGED intents, run' = [run EXCEPT ![a] = r]
    PROVE  run' \in [Actors -> Runs] /\ RunsFit'
<1>1. intents' \in Seq(Intents) /\ Len(intents') >= Len(intents)
  BY DEF Typed, TypeOK, Intents
<1> QED BY <1>1, RunReplaced DEF WithIntent, BeforeSending

LEMMA BeginTaskTyped ==
    ASSUME Typed, NEW t \in Tasks, NEW manual \in BOOLEAN, BeginTask(t, manual),
           UNCHANGED intents
    PROVE  /\ run' \in [Actors -> Runs] /\ RunsFit'
           /\ taskState' \in [Tasks -> {"IDLE", "RUNNING", "SKIPPED", "REJECTED", "EXECUTED",
                                        "FAILED"}]
<1>1. taskState' \in [Tasks -> {"IDLE", "RUNNING", "SKIPPED", "REJECTED", "EXECUTED", "FAILED"}]
  BY DEF BeginTask, Typed, TypeOK
<1> DEFINE r == [Idle EXCEPT !.stage = "observing", !.source = t, !.manual = manual]
<1>2. /\ "runner" \in Actors /\ t \in SourcesOf("runner")
  BY DEF Actors, SourcesOf
<1>3. r \in Runs /\ r.stage = "observing" /\ r.source = t
  BY IdleTyped DEF Runs, Stages
<1>4. run' = [run EXCEPT !["runner"] = r]
  BY DEF BeginTask
<1> HIDE DEF r
<1> QED BY <1>1, <1>2, <1>3, <1>4, BeginTyped

LEMMA AgentInitial == Init => Typed
<1> SUFFICES ASSUME Init PROVE Typed
  OBVIOUS
<1>1. run \in [Actors -> Runs] /\ RunsFit
  BY IdleTyped DEF Init, IdleRuns, RunsFit, Idle, Busy, WithIntent, BeforeSending
<1>2. lastProcessedBlock \in [Pools -> 0 .. MaxBlock] /\ started \in [Pools -> 0 .. MaxBlock]
  BY AgentAssumption DEF Init, NoBlocks
<1>3. sent = <<>> /\ records = <<>> /\ outcomes = <<>> /\ result = <<>> /\ intents = <<>>
  BY DEF Init
<1>4. /\ sent \in Seq(1 .. Len(intents)) /\ Len(sent) = 0
      /\ result \in Seq({"success", "reverted"}) /\ Len(result) = 0
      /\ intents \in Seq(Intents)
      /\ records \in Seq([intent : 1 .. Len(intents), status : {"EXECUTED", "FAILED"},
                          hash : Nat])
      /\ outcomes \in Seq([status : {"EXECUTED", "FAILED"}, beside : BOOLEAN])
  BY <1>3, EmptySeq
<1>5. /\ mode \in Modes /\ consecutiveFailures \in Nat /\ tripped \in BOOLEAN
      /\ taskState \in [Tasks -> {"IDLE", "RUNNING", "SKIPPED", "REJECTED", "EXECUTED", "FAILED"}]
      /\ due \subseteq Tasks /\ refused \subseteq Tokens
      /\ {verified, requested} \subseteq SUBSET [call : {"swap", "burn"}, intent : 1 .. Len(intents)]
      /\ replaced \subseteq 1 .. Len(intents)
      /\ {manualRuns, restarts, afterTrip} \subseteq Nat
  <2>1. taskState = [t \in Tasks |-> "IDLE"]
    BY DEF Init, IdleTasks
  <2>2. replaced = {} /\ verified = {} /\ requested = {} /\ manualRuns = 0 /\ restarts = 0 /\ afterTrip = 0
        /\ mode \in Modes /\ consecutiveFailures = 0 /\ due = {} /\ refused = {}
    BY DEF Init
  <2>3. tripped \in BOOLEAN
    BY DEF Init
  <2>4. taskState \in [Tasks -> {"IDLE", "RUNNING", "SKIPPED", "REJECTED", "EXECUTED", "FAILED"}]
    BY <2>1
  <2> QED BY <2>2, <2>3, <2>4
<1>6. mined \in 0 .. Len(sent) /\ Len(result) = mined
  BY <1>4 DEF Init
<1> QED BY <1>1, <1>2, <1>4, <1>5, <1>6 DEF Typed, TypeOK, Runs, Stages, Intents

LEMMA AgentStep ==
    ASSUME Typed, [Next]_vars
    PROVE  Typed'
<1> USE DEF breaker, chain, files, bounds, history
<1>1. ASSUME NEW p \in Pools, NEW b \in 1 .. MaxBlock, OnUpdate(p, b)
      PROVE  Typed'
  <2>1. "pipeline" \in Actors /\ p \in SourcesOf("pipeline") /\ b \in 0 .. MaxBlock
    BY DEF Actors, SourcesOf
  <2> DEFINE r == [Idle EXCEPT !.stage = "observing", !.source = p, !.block = b]
  <2>2. r \in Runs /\ r.stage = "observing" /\ r.source = p
    BY <2>1, IdleTyped DEF Runs, Stages
  <2>3. run' \in [Actors -> Runs] /\ RunsFit'
    <3>1. run' = [run EXCEPT !["pipeline"] = r] /\ UNCHANGED intents
      BY <1>1 DEF OnUpdate
    <3> HIDE DEF r
    <3> QED BY <2>1, <2>2, <3>1, BeginTyped
  <2>4. started' \in [Pools -> 0 .. MaxBlock]
    BY <1>1, <2>1 DEF OnUpdate, Typed, TypeOK
  <2> QED BY <1>1, <2>3, <2>4 DEF OnUpdate, Typed, TypeOK, Runs, Stages
<1>2. CASE RunDueTasks
  <2>1. PICK i \in DOMAIN TaskOrder : BeginTask(TaskOrder[i], FALSE)
    BY <1>2 DEF RunDueTasks
  <2>2. TaskOrder[i] \in Tasks
    BY DEF Tasks
  <2>3. run' \in [Actors -> Runs] /\ RunsFit'
        /\ taskState' \in [Tasks -> {"IDLE", "RUNNING", "SKIPPED", "REJECTED", "EXECUTED",
                                     "FAILED"}]
    BY <1>2, <2>1, <2>2, BeginTaskTyped DEF RunDueTasks
  <2> QED BY <1>2, <2>3 DEF RunDueTasks, Typed, TypeOK, Runs, Stages
<1>3. ASSUME NEW t \in Tasks, ManualRun(t)
      PROVE  Typed'
  <2>1. run' \in [Actors -> Runs] /\ RunsFit'
        /\ taskState' \in [Tasks -> {"IDLE", "RUNNING", "SKIPPED", "REJECTED", "EXECUTED",
                                     "FAILED"}]
    <3>1. CASE Busy("runner")
      BY <1>3, <3>1 DEF ManualRun, Typed, TypeOK, RunsFit, Busy, Runs, Stages
    <3>2. CASE ~Busy("runner")
      BY <1>3, <3>2, BeginTaskTyped DEF ManualRun
    <3> QED BY <3>1, <3>2
  <2> QED BY <1>3, <2>1 DEF ManualRun, Typed, TypeOK, Runs, Stages
<1>4. ASSUME NEW a \in Actors, ActorStep(a)
      PROVE  Typed'
  BY <1>4, ActorStepTyped
<1>5. CASE Restart
  <2>1. run' \in [Actors -> Runs] /\ RunsFit'
    BY <1>5, IdleTyped DEF Restart, IdleRuns, RunsFit, Idle, Busy, WithIntent, BeforeSending
  <2>2. lastProcessedBlock' \in [Pools -> 0 .. MaxBlock] /\ started' \in [Pools -> 0 .. MaxBlock]
    BY <1>5, AgentAssumption DEF Restart, NoBlocks
  <2>3. outcomes' \in Seq([status : {"EXECUTED", "FAILED"}, beside : BOOLEAN])
    BY <1>5, EmptySeq DEF Restart
  <2>4. /\ consecutiveFailures' \in Nat /\ tripped' \in BOOLEAN /\ due' \subseteq Tasks
        /\ taskState' \in [Tasks -> {"IDLE", "RUNNING", "SKIPPED", "REJECTED", "EXECUTED",
                                     "FAILED"}]
        /\ {manualRuns', restarts', afterTrip'} \subseteq Nat
    <3>1. taskState' = [t \in Tasks |-> "IDLE"]
      BY <1>5 DEF Restart, IdleTasks
    <3>2. manualRuns \in Nat /\ restarts \in Nat
      BY DEF Typed, TypeOK
    <3>3. tripped' \in BOOLEAN
      BY <1>5 DEF Restart
    <3>4. taskState' \in [Tasks -> {"IDLE", "RUNNING", "SKIPPED", "REJECTED", "EXECUTED",
                                     "FAILED"}]
      BY <3>1
    <3> QED BY <1>5, <3>2, <3>3, <3>4 DEF Restart
  <2> QED BY <1>5, <2>1, <2>2, <2>3, <2>4 DEF Restart, Typed, TypeOK, Runs, Stages
<1>6. ASSUME NEW t \in Tasks, TaskComesDue(t)
      PROVE  Typed'
  BY <1>6 DEF TaskComesDue, Typed, TypeOK, RunsFit, Busy
<1>7. CASE Mine
  <2>1. mined + 1 \in 1 .. Len(sent) /\ mined' = mined + 1
    BY <1>7 DEF Mine, Typed, TypeOK
  <2>2. sent[mined + 1] \in 1 .. Len(intents)
    BY <2>1 DEF Typed, TypeOK
  <2>3. TokenOf(sent[mined + 1]) \in Tokens
    <3> DEFINE i == sent[mined + 1]
    <3>1. i \in 1 .. Len(intents) /\ intents \in Seq(Intents)
      BY <2>2 DEF Typed, TypeOK, Intents
    <3> HIDE DEF i
    <3>2. intents[i] \in Intents
      BY <3>1, ElementOfSeq
    <3> QED BY <3>2 DEF TokenOf, Intents, i
  <2>4. refused' \subseteq Tokens
    <3>1. refused \subseteq Tokens
      BY DEF Typed, TypeOK
    <3> DEFINE k == TokenOf(sent[mined + 1])
    <3>2. refused' = refused \/ refused' = refused \cup {k}
      BY <1>7 DEF Mine
    <3>3. k \in Tokens
      BY <2>3
    <3> HIDE DEF k
    <3> QED BY <3>1, <3>2, <3>3
  <2>5. result' \in Seq({"success", "reverted"}) /\ Len(result') = mined'
    <3>1. result \in Seq({"success", "reverted"}) /\ Len(result) = mined
      BY DEF Typed, TypeOK
    <3>2. result' = Append(result, "success") \/ result' = Append(result, "reverted")
      BY <1>7 DEF Mine
    <3> QED BY <2>1, <3>1, <3>2, AppendProperties
  <2>6. mined' \in 0 .. Len(sent')
    BY <1>7, <2>1 DEF Mine
  <2> QED BY <1>7, <2>4, <2>5, <2>6 DEF Mine, Typed, TypeOK, RunsFit, Busy
<1>8. ASSUME NEW k \in Tokens, GuardRecovers(k)
      PROVE  Typed'
  BY <1>8 DEF GuardRecovers, Typed, TypeOK, RunsFit, Busy
<1>9. CASE UNCHANGED vars
  BY <1>9 DEF vars, Typed, TypeOK, RunsFit, Busy
<1> QED BY <1>1, <1>2, <1>3, <1>4, <1>5, <1>6, <1>7, <1>8, <1>9 DEF Next, Surroundings

LEMMA AlwaysTyped == Spec => []Typed
BY AgentInitial, AgentStep, PTL DEF Spec

\* The agent's memory, the audit file and the chain hold values of their types whatever
\* interleaving, crash or lost answer; each reference to an intent is to one that was
\* built (index.ts, autonomous-task-runner.ts, execution-service.ts).
THEOREM AgentTypeCorrect == Spec => []TypeOK
<1>1. Typed => TypeOK
  BY DEF Typed
<1> QED BY <1>1, AlwaysTyped, PTL

-----------------------------------------------------------------------------
(* The shape of a step.                                                    *)

EndStates == {"SKIPPED", "REJECTED", "EXECUTED", "FAILED"}

\* The run of an actor goes on: it keeps its source, block and kind.
GoesOn(a) ==
    /\ Busy(a)'
    /\ run'[a].source = run[a].source /\ run'[a].block = run[a].block
    /\ run'[a].manual = run[a].manual
    /\ UNCHANGED <<lastProcessedBlock, taskState, due>>

LEMMA GotoGoesOn ==
    ASSUME Typed, NEW a \in Actors, NEW stage \in Stages \ {"idle"}, Goto(a, stage)
    PROVE  /\ run'[a].stage = stage
           /\ run'[a].source = run[a].source /\ run'[a].block = run[a].block
           /\ run'[a].manual = run[a].manual /\ run'[a].intent = run[a].intent
           /\ run'[a].nonce = run[a].nonce
           /\ run'[a].status = run[a].status /\ run'[a].hash = run[a].hash
           /\ \A b \in Actors \ {a} : run'[b] = run[b]
<1>1. run[a] \in Runs
  BY DEF Typed, TypeOK, Runs, Stages
<1> QED BY <1>1 DEF Goto, Typed, TypeOK, Runs

LEMMA EndLeavesOthers ==
    ASSUME Typed, NEW a \in Actors, NEW state \in EndStates, End(a, state)
    PROVE  run'[a] = Idle /\ \A b \in Actors \ {a} : run'[b] = run[b]
BY DEF End, Typed, TypeOK

LEMMA RecordingGoesOn ==
    ASSUME Typed, NEW a \in Actors, NEW status, NEW hash,
           run' = [run EXCEPT ![a].stage = "recording", ![a].status = status, ![a].hash = hash]
    PROVE  /\ run'[a].stage = "recording"
           /\ run'[a].source = run[a].source /\ run'[a].block = run[a].block
           /\ run'[a].manual = run[a].manual /\ run'[a].intent = run[a].intent
           /\ run'[a].status = status /\ run'[a].hash = hash
           /\ \A b \in Actors \ {a} : run'[b] = run[b]
<1>1. run[a] \in Runs
  BY DEF Typed, TypeOK, Runs, Stages
<1> QED BY <1>1 DEF Typed, TypeOK, Runs

\* A failure trips the breaker only while it ends the run.
LEMMA FailAndEndShape ==
    ASSUME Typed, NEW a \in Actors, Busy(a), FailAndEnd(a)
    PROVE  /\ \A b \in Actors \ {a} : run'[b] = run[b]
           /\ End(a, "FAILED") \/ GoesOn(a)
           /\ run'[a].stage \in {"idle", "alerting"}
<1>1. CASE FailureTrips
  <2>1. Goto(a, "alerting") /\ UNCHANGED <<lastProcessedBlock, taskState, due>>
    BY <1>1 DEF FailAndEnd
  <2> QED BY <2>1, GotoGoesOn DEF GoesOn, Stages, Busy
<1>2. CASE ~FailureTrips
  BY <1>2, EndLeavesOthers DEF FailAndEnd, EndStates, Idle
<1> QED BY <1>1, <1>2

\* A step of an actor is one of a run under way, and ends that run or lets it go on.
LEMMA ActorStepShape ==
    ASSUME Typed, NEW a \in Actors, ActorStep(a)
    PROVE  /\ Busy(a)
           /\ UNCHANGED <<mode, started>>
           /\ \A b \in Actors \ {a} : run'[b] = run[b]
           /\ (\E state \in EndStates : End(a, state)) \/ GoesOn(a)
<1> USE DEF breaker, chain, files, bounds, history, EndStates, Stages, Busy
<1>1. ASSUME NEW state \in EndStates, End(a, state)
      PROVE  \A b \in Actors \ {a} : run'[b] = run[b]
  BY <1>1, EndLeavesOthers
<1>2. ASSUME NEW stage \in Stages \ {"idle"}, Goto(a, stage),
             UNCHANGED <<lastProcessedBlock, taskState, due>>
      PROVE  GoesOn(a) /\ \A b \in Actors \ {a} : run'[b] = run[b]
  BY <1>2, GotoGoesOn DEF GoesOn
<1>3. ASSUME NEW status, NEW hash, UNCHANGED <<lastProcessedBlock, taskState, due>>,
             run' = [run EXCEPT ![a].stage = "recording", ![a].status = status, ![a].hash = hash]
      PROVE  GoesOn(a) /\ \A b \in Actors \ {a} : run'[b] = run[b]
  BY <1>3, RecordingGoesOn DEF GoesOn
<1>4. run[a] \in Runs
  BY DEF Typed, TypeOK, Runs
<1>5. CASE AlertDone(a)
  BY <1>1, <1>5 DEF AlertDone
<1>6. CASE ObserveNothing(a)
  BY <1>1, <1>6 DEF ObserveNothing
<1>7. CASE ObserveThrows(a)
  BY <1>1, <1>7, FailAndEndShape DEF ObserveThrows
<1>8. ASSUME NEW k \in Tokens, BuildIntent(a, k)
      PROVE  GoesOn(a) /\ \A b \in Actors \ {a} : run'[b] = run[b]
  BY <1>4, <1>8 DEF BuildIntent, GoesOn, Typed, TypeOK, Runs
<1>9. CASE PolicyCheck(a)
  BY <1>1, <1>2, <1>9 DEF PolicyCheck
<1>10. CASE SimulationPasses(a)
  BY <1>1, <1>2, <1>10 DEF SimulationPasses
<1>11. CASE SimulationFails(a)
  BY <1>1, <1>11, FailAndEndShape DEF SimulationFails
<1>12. CASE ReadNonce(a)
  <2>1. CASE ExecuteThrows(a)
    BY <1>3, <1>12, <2>1 DEF ReadNonce, ExecuteThrows
  <2>2. CASE run' = [run EXCEPT ![a].stage = "sending", ![a].nonce = Len(sent)]
    BY <1>4, <1>12, <2>2 DEF ReadNonce, GoesOn, Typed, TypeOK, Runs
  <2> QED BY <1>12, <2>1, <2>2 DEF ReadNonce
<1>13. CASE Send(a)
  BY <1>2, <1>3, <1>13 DEF Send, ExecuteThrows
<1>14. CASE ReceiptArrives(a)
  <2> DEFINE n == run[a].nonce + 1
             status == IF result[n] = "success" THEN "EXECUTED" ELSE "FAILED"
  <2>2. run' = [run EXCEPT ![a].stage = "recording", ![a].status = status, ![a].hash = n]
    BY <1>14 DEF ReceiptArrives, Typed, TypeOK
  <2> HIDE DEF status, n
  <2> QED BY <1>3, <1>14, <2>2 DEF ReceiptArrives
<1>15. CASE WaitTimesOut(a)
  BY <1>3, <1>15 DEF WaitTimesOut, ExecuteThrows
<1>16. CASE WriteRecord(a)
  BY <1>2, <1>16 DEF WriteRecord
<1>17. CASE ReportOutcome(a)
  BY <1>1, <1>2, <1>17, FailAndEndShape DEF ReportOutcome
<1>18. CASE Burn(a)
  BY <1>1, <1>18 DEF Burn
<1>19. ActorStep(a) => Busy(a) /\ UNCHANGED <<mode, started>>
  BY DEF ActorStep, AlertDone, ObserveNothing, ObserveThrows, BuildIntent, PolicyCheck,
         SimulationPasses, SimulationFails, ReadNonce, Send, ReceiptArrives, WaitTimesOut,
         WriteRecord, ReportOutcome, Burn
<1> QED
  <2>1. /\ \A b \in Actors \ {a} : run'[b] = run[b]
        /\ (\E state \in EndStates : End(a, state)) \/ GoesOn(a)
    <3> HIDE DEF breaker, chain, files, bounds, history, EndStates, Stages, Busy
    <3> QED BY <1>5, <1>6, <1>7, <1>8, <1>9, <1>10, <1>11, <1>12, <1>13, <1>14, <1>15, <1>16,
               <1>17, <1>18 DEF ActorStep
  <2> QED BY <1>19, <2>1

-----------------------------------------------------------------------------
(* Tasks shown as running.                                                 *)

LEMMA RunningStep ==
    ASSUME Typed, RunningIsReal, [Next]_vars
    PROVE  RunningIsReal'
<1> USE DEF RunningIsReal
<1>1. CASE UNCHANGED <<run, taskState>>
  BY <1>1 DEF Busy
<1>2. ASSUME NEW t \in Tasks, NEW manual \in BOOLEAN, ~Busy("runner"), BeginTask(t, manual)
      PROVE  RunningIsReal'
  <2>1. run'["runner"].stage = "observing" /\ run'["runner"].source = t
    BY <1>2 DEF BeginTask, Typed, TypeOK, Actors, Idle
  <2>2. \A u \in Tasks : taskState'[u] = "RUNNING" => u = t
    BY <1>2 DEF BeginTask, Typed, TypeOK
  <2> QED BY <2>1, <2>2 DEF Busy
<1>3. ASSUME NEW p \in Pools, NEW b \in 1 .. MaxBlock, OnUpdate(p, b)
      PROVE  RunningIsReal'
  <2>1. run'["runner"] = run["runner"] /\ taskState' = taskState
    BY <1>3 DEF OnUpdate, Typed, TypeOK, Actors
  <2> QED BY <2>1 DEF Busy
<1>4. CASE RunDueTasks
  <2>1. PICK i \in DOMAIN TaskOrder : BeginTask(TaskOrder[i], FALSE)
    BY <1>4 DEF RunDueTasks
  <2>2. TaskOrder[i] \in Tasks
    BY DEF Tasks
  <2> QED BY <1>2, <1>4, <2>1, <2>2 DEF RunDueTasks
<1>5. ASSUME NEW t \in Tasks, ManualRun(t)
      PROVE  RunningIsReal'
  <2>1. CASE Busy("runner")
    BY <1>5, <2>1 DEF ManualRun, Typed, TypeOK, Busy
  <2>2. CASE ~Busy("runner")
    BY <1>2, <1>5, <2>2 DEF ManualRun
  <2> QED BY <2>1, <2>2
<1>6. ASSUME NEW a \in Actors, ActorStep(a)
      PROVE  RunningIsReal'
  <2>1. CASE GoesOn(a)
    BY <1>6, <2>1, ActorStepShape DEF GoesOn, Actors, Busy
  <2>2. ASSUME NEW state \in EndStates, End(a, state)
        PROVE  RunningIsReal'
    <3>1. CASE a = "pipeline"
      BY <1>6, <2>2, <3>1, ActorStepShape DEF End, Actors, Busy
    <3>2. CASE a = "runner"
      <4>1. \A t \in Tasks : taskState'[t] = "RUNNING"
                              => taskState[t] = "RUNNING" /\ t # run["runner"].source
        BY <2>2, <3>2 DEF End, EndStates, Typed, TypeOK
      <4> QED BY <4>1
    <3> QED BY <3>1, <3>2 DEF Actors
  <2> QED BY <1>6, <2>1, <2>2, ActorStepShape
<1>7. CASE Restart
  BY <1>7 DEF Restart, IdleTasks
<1>8. CASE Mine \/ (\E t \in Tasks : TaskComesDue(t)) \/ (\E k \in Tokens : GuardRecovers(k))
  BY <1>1, <1>8 DEF Mine, TaskComesDue, GuardRecovers
<1>9. CASE UNCHANGED vars
  BY <1>1, <1>9 DEF vars
<1> QED BY <1>3, <1>4, <1>5, <1>6, <1>7, <1>8, <1>9 DEF Next, Surroundings

\* However manual requests, ticks, failures and restarts interleave, a task is shown as
\* running only while the runner runs it (autonomous-task-runner.ts, runTask).
THEOREM RunningAlwaysReal == Spec => []RunningIsReal
<1>1. Init => RunningIsReal
  BY DEF Init, RunningIsReal, IdleTasks
<1> QED BY <1>1, RunningStep, AlwaysTyped, PTL DEF Spec

-----------------------------------------------------------------------------
(* Blocks.                                                                 *)

\* A pool's last run is either under way or noted in lastProcessedBlock.
StartedNoted ==
    \A p \in Pools :
        started[p] = IF Busy("pipeline") /\ run["pipeline"].source = p
                     THEN run["pipeline"].block ELSE lastProcessedBlock[p]

LEMMA StartedStep ==
    ASSUME Typed, StartedNoted, [Next]_vars
    PROVE  StartedNoted'
<1> USE DEF StartedNoted
<1>1. CASE UNCHANGED <<started, lastProcessedBlock>> /\ run'["pipeline"] = run["pipeline"]
  BY <1>1 DEF Busy
<1>2. ASSUME NEW p \in Pools, NEW b \in 1 .. MaxBlock, OnUpdate(p, b)
      PROVE  StartedNoted'
  <2>1. run'["pipeline"].stage = "observing" /\ run'["pipeline"].source = p
        /\ run'["pipeline"].block = b
    BY <1>2 DEF OnUpdate, Typed, TypeOK, Actors, Idle
  <2>2. started' = [started EXCEPT ![p] = b] /\ UNCHANGED lastProcessedBlock /\ ~Busy("pipeline")
    BY <1>2 DEF OnUpdate
  <2> QED BY <2>1, <2>2 DEF Busy, Typed, TypeOK
<1>3. ASSUME NEW t \in Tasks, NEW manual \in BOOLEAN, BeginTask(t, manual)
      PROVE  run'["pipeline"] = run["pipeline"]
  BY <1>3 DEF BeginTask, Typed, TypeOK, Actors
<1>4. CASE RunDueTasks
  <2>1. PICK i \in DOMAIN TaskOrder : BeginTask(TaskOrder[i], FALSE)
    BY <1>4 DEF RunDueTasks
  <2>2. TaskOrder[i] \in Tasks
    BY DEF Tasks
  <2> QED BY <1>1, <1>3, <1>4, <2>1, <2>2 DEF RunDueTasks, history
<1>5. ASSUME NEW t \in Tasks, ManualRun(t)
      PROVE  StartedNoted'
  BY <1>1, <1>3, <1>5 DEF ManualRun, history
<1>6. ASSUME NEW a \in Actors, ActorStep(a)
      PROVE  StartedNoted'
  <2>1. CASE a = "runner"
    <3>1. run'["pipeline"] = run["pipeline"] /\ UNCHANGED started
      BY <1>6, <2>1, ActorStepShape DEF Actors
    <3>2. UNCHANGED lastProcessedBlock
      BY <1>6, <2>1, ActorStepShape DEF End, GoesOn
    <3> QED BY <1>1, <3>1, <3>2
  <2>2. CASE a = "pipeline"
    <3>1. CASE GoesOn(a)
      BY <1>6, <2>2, <3>1, ActorStepShape DEF GoesOn
    <3>2. ASSUME NEW state \in EndStates, End(a, state)
          PROVE  StartedNoted'
      <4>1. lastProcessedBlock' = [lastProcessedBlock EXCEPT ![run[a].source] = run[a].block]
        BY <2>2, <3>2 DEF End, Processed
      <4>2. run'[a] = Idle
        BY <3>2, EndLeavesOthers
      <4> QED BY <1>6, <2>2, <4>1, <4>2, ActorStepShape, SMTT(30) DEF Busy, Idle, Typed, TypeOK
    <3> QED BY <1>6, <3>1, <3>2, ActorStepShape
  <2> QED BY <2>1, <2>2 DEF Actors
<1>7. CASE Restart
  BY <1>7 DEF Restart, IdleRuns, Idle, Busy, NoBlocks, Actors
<1>8. CASE Mine \/ (\E t \in Tasks : TaskComesDue(t)) \/ (\E k \in Tokens : GuardRecovers(k))
  BY <1>1, <1>8 DEF Mine, TaskComesDue, GuardRecovers, history
<1>9. CASE UNCHANGED vars
  BY <1>1, <1>9 DEF vars, history
<1> QED BY <1>2, <1>4, <1>5, <1>6, <1>7, <1>8, <1>9 DEF Next, Surroundings

\* Between restarts the pipeline takes up each block of a pool at most once, and never an
\* older one, in whatever order updates arrive (index.ts, the onUpdate callback).
THEOREM BlocksAdvance == Spec => BlocksOnlyAdvance
<1>1. Init => StartedNoted
  BY DEF Init, StartedNoted, IdleRuns, NoBlocks, Idle, Busy, Actors
<1> DEFINE Advances == (~Busy("pipeline") /\ Busy("pipeline")')
                          => run'["pipeline"].block > started[run'["pipeline"].source]
<1>2. ASSUME Typed, StartedNoted, [Next]_vars, ~Busy("pipeline"), Busy("pipeline")'
      PROVE  run'["pipeline"].block > started[run'["pipeline"].source]
  <2>1. CASE \E p \in Pools, b \in 1 .. MaxBlock : OnUpdate(p, b)
    <3>1. PICK p \in Pools, b \in 1 .. MaxBlock : OnUpdate(p, b)
      BY <2>1
    <3>2. run'["pipeline"].source = p /\ run'["pipeline"].block = b
      BY <1>2, <3>1 DEF OnUpdate, Typed, TypeOK, Actors, Idle
    <3>3. started[p] = lastProcessedBlock[p] /\ lastProcessedBlock[p] < b
      BY <1>2, <3>1 DEF StartedNoted, OnUpdate
    <3>4. started[p] \in Int /\ b \in Int
      BY <1>2, <3>1 DEF Typed, TypeOK
    <3> QED BY <3>2, <3>3, <3>4
  <2>2. CASE ~\E p \in Pools, b \in 1 .. MaxBlock : OnUpdate(p, b)
    <3>1. ASSUME NEW t \in Tasks, NEW manual \in BOOLEAN, BeginTask(t, manual)
          PROVE  run'["pipeline"] = run["pipeline"]
      BY <1>2, <3>1 DEF BeginTask, Typed, TypeOK, Actors
    <3>2. CASE RunDueTasks
      <4>1. PICK i \in DOMAIN TaskOrder : BeginTask(TaskOrder[i], FALSE)
        BY <3>2 DEF RunDueTasks
      <4>2. TaskOrder[i] \in Tasks
        BY DEF Tasks
      <4> QED BY <1>2, <3>1, <4>1, <4>2 DEF Busy
    <3>3. ASSUME NEW t \in Tasks, ManualRun(t) PROVE FALSE
      BY <1>2, <3>1, <3>3 DEF ManualRun, Busy
    <3>4. ASSUME NEW a \in Actors, ActorStep(a) PROVE FALSE
      BY <1>2, <3>4, ActorStepShape DEF Busy, Actors
    <3>5. CASE Restart
      BY <1>2, <3>5 DEF Restart, IdleRuns, Idle, Busy, Actors
    <3>6. CASE Mine \/ (\E t \in Tasks : TaskComesDue(t)) \/ (\E k \in Tokens : GuardRecovers(k))
      BY <1>2, <3>6 DEF Mine, TaskComesDue, GuardRecovers, Busy
    <3>7. CASE UNCHANGED vars
      BY <1>2, <3>7 DEF vars, Busy
    <3> QED BY <1>2, <2>2, <3>2, <3>3, <3>4, <3>5, <3>6, <3>7 DEF Next, Surroundings
  <2> QED BY <2>1, <2>2
<1>3. Typed /\ StartedNoted /\ [Next]_vars => [Advances]_vars
  BY <1>2
<1>4. Spec => []StartedNoted
  BY <1>1, StartedStep, AlwaysTyped, PTL DEF Spec
<1> QED BY <1>3, <1>4, AlwaysTyped, PTL DEF Spec, BlocksOnlyAdvance

-----------------------------------------------------------------------------
(* The breaker stops runs that start by themselves.                        *)

\* A run that started by itself and has not sent its swap yet.
MaySend(a) == ~run[a].manual /\ run[a].stage \in {"observing"} \cup BeforeSending

\* When the breaker trips, the actor that trips it is past sending; nothing starts by
\* itself after that.
AtMostOneLeft ==
    IF tripped
    THEN /\ ~(MaySend("pipeline") /\ MaySend("runner"))
         /\ afterTrip <= 1
         /\ afterTrip = 1 => ~MaySend("pipeline") /\ ~MaySend("runner")
    ELSE afterTrip = 0

\* What a step of an actor does to the breaker and to what may still be sent.
SendsFewer(a) ==
    /\ MaySend(a)' => MaySend(a)
    /\ \/ UNCHANGED <<tripped, afterTrip>>
       \/ tripped' /\ ~MaySend(a)' /\ afterTrip' = afterTrip
       \/ tripped /\ tripped' /\ MaySend(a) /\ ~MaySend(a)' /\ afterTrip' = afterTrip + 1

LEMMA FailAndEndSends ==
    ASSUME Typed, NEW a \in Actors, Busy(a), FailAndEnd(a), UNCHANGED afterTrip
    PROVE  SendsFewer(a)
<1>1. ~MaySend(a)'
  BY FailAndEndShape DEF MaySend, BeforeSending
<1>2. tripped' \/ UNCHANGED tripped
  <2>1. tripped \in BOOLEAN /\ tripped' = (tripped \/ FailureTrips)
    BY DEF FailAndEnd, RecordFailure, Typed, TypeOK
  <2> QED BY <2>1, Zenon
<1> QED BY <1>1, <1>2 DEF SendsFewer

LEMMA ActorStepSends ==
    ASSUME Typed, NEW a \in Actors, ActorStep(a)
    PROVE  SendsFewer(a)
<1> USE DEF breaker, history, BeforeSending, Stages, Busy
<1>1. ASSUME NEW state \in EndStates, End(a, state)
      PROVE  ~MaySend(a)'
  BY <1>1, EndLeavesOthers DEF MaySend, Idle
<1>2. ASSUME NEW stage \in Stages \ {"idle"}, Goto(a, stage), run[a].stage # "idle",
             stage = "observing" => run[a].stage = "observing",
             stage \in BeforeSending => run[a].stage \in {"observing"} \cup BeforeSending
      PROVE  MaySend(a)' => MaySend(a)
  BY <1>2, GotoGoesOn DEF MaySend
<1>3. ASSUME NEW status, NEW hash,
             run' = [run EXCEPT ![a].stage = "recording", ![a].status = status, ![a].hash = hash]
      PROVE  ~MaySend(a)'
  BY <1>3, RecordingGoesOn DEF MaySend
<1>4. run[a] \in Runs
  BY DEF Typed, TypeOK, Runs
<1>5. CASE AlertDone(a)
  BY <1>1, <1>5 DEF AlertDone, SendsFewer, EndStates
<1>6. CASE ObserveNothing(a)
  BY <1>1, <1>6 DEF ObserveNothing, SendsFewer, EndStates
<1>7. CASE ObserveThrows(a)
  BY <1>1, <1>7, FailAndEndSends DEF ObserveThrows, SendsFewer, EndStates
<1>8. ASSUME NEW k \in Tokens, BuildIntent(a, k)
      PROVE  SendsFewer(a)
  BY <1>4, <1>8 DEF BuildIntent, SendsFewer, MaySend, Typed, TypeOK, Runs
<1>9. CASE PolicyCheck(a)
  BY <1>1, <1>2, <1>9 DEF PolicyCheck, SendsFewer, EndStates
<1>10. CASE SimulationPasses(a)
  BY <1>1, <1>2, <1>10 DEF SimulationPasses, SendsFewer, EndStates
<1>11. CASE SimulationFails(a)
  BY <1>1, <1>11, FailAndEndSends DEF SimulationFails, SendsFewer, EndStates
<1>12. CASE ReadNonce(a)
  <2>1. CASE ExecuteThrows(a)
    BY <1>3, <1>12, <2>1 DEF ReadNonce, ExecuteThrows, SendsFewer
  <2>2. CASE run' = [run EXCEPT ![a].stage = "sending", ![a].nonce = Len(sent)]
    BY <1>4, <1>12, <2>2 DEF ReadNonce, SendsFewer, MaySend, Typed, TypeOK, Runs
  <2> QED BY <1>12, <2>1, <2>2 DEF ReadNonce
<1>13. CASE Send(a)
  <2>1. ~MaySend(a)'
    <3>1. CASE Goto(a, "waiting")
      BY <3>1, GotoGoesOn DEF MaySend
    <3>2. CASE ExecuteThrows(a)
      BY <1>3, <3>2 DEF ExecuteThrows
    <3> QED BY <1>13, <3>1, <3>2 DEF Send
  <2>2. CASE tripped /\ ~run[a].manual
    <3>1. MaySend(a) /\ afterTrip' = afterTrip + 1 /\ tripped'
      BY <1>13, <2>2 DEF Send, MaySend
    <3> QED BY <2>1, <2>2, <3>1 DEF SendsFewer
  <2>3. CASE ~(tripped /\ ~run[a].manual)
    <3>1. afterTrip \in Nat
      BY DEF Typed, TypeOK
    <3>2. afterTrip' = afterTrip /\ UNCHANGED tripped
      BY <1>13, <2>3, <3>1 DEF Send
    <3> QED BY <2>1, <3>2 DEF SendsFewer
  <2> QED BY <2>2, <2>3
<1>14. CASE ReceiptArrives(a)
  <2>1. run'[a].stage = "recording"
    BY <1>4, <1>14 DEF ReceiptArrives, Typed, TypeOK, Runs
  <2> QED BY <1>14, <2>1 DEF ReceiptArrives, SendsFewer, MaySend
<1>15. CASE WaitTimesOut(a)
  BY <1>3, <1>15 DEF WaitTimesOut, ExecuteThrows, SendsFewer
<1>16. CASE WriteRecord(a)
  BY <1>2, <1>16 DEF WriteRecord, SendsFewer
<1>17. CASE ReportOutcome(a)
  <2>1. CASE FailAndEnd(a)
    BY <1>17, <2>1, FailAndEndSends DEF ReportOutcome
  <2>2. CASE RecordSuccess
    BY <1>1, <1>2, <1>17, <2>2, FailAndEndSends DEF ReportOutcome, SendsFewer, EndStates, RecordSuccess
  <2> QED BY <1>17, <2>1, <2>2 DEF ReportOutcome
<1>18. CASE Burn(a)
  BY <1>1, <1>18 DEF Burn, SendsFewer, EndStates
<1> HIDE DEF breaker, history, BeforeSending, Stages, Busy
<1> QED BY <1>5, <1>6, <1>7, <1>8, <1>9, <1>10, <1>11, <1>12, <1>13, <1>14, <1>15, <1>16, <1>17,
           <1>18 DEF ActorStep

LEMMA AtMostOneStep ==
    ASSUME Typed, AtMostOneLeft, [Next]_vars
    PROVE  AtMostOneLeft'
<1> USE DEF breaker, chain, files, bounds, history
<1>1. CASE UNCHANGED <<run, tripped, afterTrip>>
  BY <1>1 DEF AtMostOneLeft, MaySend
<1>2. ASSUME NEW p \in Pools, NEW b \in 1 .. MaxBlock, OnUpdate(p, b)
      PROVE  AtMostOneLeft'
  BY <1>2 DEF OnUpdate, IsTripped, AtMostOneLeft
<1>3. CASE RunDueTasks
  BY <1>3 DEF RunDueTasks, IsTripped, AtMostOneLeft
<1>4. ASSUME NEW t \in Tasks, ManualRun(t)
      PROVE  AtMostOneLeft'
  <2>1. CASE Busy("runner")
    BY <1>1, <1>4, <2>1 DEF ManualRun
  <2>2. CASE ~Busy("runner")
    <3>1. ~MaySend("runner")'
      <4> DEFINE r == [Idle EXCEPT !.stage = "observing", !.source = t, !.manual = TRUE]
      <4>1. r.manual
        BY DEF Idle
      <4>2. run' = [run EXCEPT !["runner"] = r]
        BY <1>4, <2>2 DEF ManualRun, BeginTask
      <4> HIDE DEF r
      <4>3. run'["runner"] = r
        BY <4>2 DEF Typed, TypeOK, Actors
      <4> QED BY <4>1, <4>3 DEF MaySend
    <3>2. MaySend("pipeline")' <=> MaySend("pipeline")
      BY <1>4, <2>2 DEF ManualRun, BeginTask, Typed, TypeOK, Actors, MaySend
    <3> QED BY <1>4, <3>1, <3>2 DEF ManualRun, AtMostOneLeft
  <2> QED BY <2>1, <2>2
<1>5. ASSUME NEW a \in Actors, ActorStep(a)
      PROVE  AtMostOneLeft'
  <2>1. SendsFewer(a)
    BY <1>5, ActorStepSends
  <2>2. \A b \in Actors \ {a} : MaySend(b)' <=> MaySend(b)
    BY <1>5, ActorStepShape DEF MaySend
  <2>3. afterTrip \in Nat /\ tripped \in BOOLEAN /\ tripped' \in BOOLEAN
    BY <1>5, AgentStep DEF Typed, TypeOK, Next
  <2>4. CASE a = "pipeline"
    <3>1. MaySend("runner")' <=> MaySend("runner")
      BY <2>2, <2>4 DEF Actors
    <3> QED BY <2>1, <2>3, <2>4, <3>1 DEF SendsFewer, AtMostOneLeft
  <2>5. CASE a = "runner"
    <3>1. MaySend("pipeline")' <=> MaySend("pipeline")
      BY <2>2, <2>5 DEF Actors
    <3> QED BY <2>1, <2>3, <2>5, <3>1 DEF SendsFewer, AtMostOneLeft
  <2> QED BY <2>4, <2>5 DEF Actors
<1>6. CASE Restart
  BY <1>6 DEF Restart, AtMostOneLeft
<1>7. CASE Mine \/ (\E t \in Tasks : TaskComesDue(t)) \/ (\E k \in Tokens : GuardRecovers(k))
  BY <1>1, <1>7 DEF Mine, TaskComesDue, GuardRecovers
<1>8. CASE UNCHANGED vars
  BY <1>1, <1>8 DEF vars
<1> QED BY <1>2, <1>3, <1>4, <1>5, <1>6, <1>7, <1>8 DEF Next, Surroundings

\* Once the breaker has tripped, whichever actor tripped it, at most the one swap that the
\* other had under way is still submitted by itself, and none after it until a restart
\* (circuit-breaker.ts; the isTripped checks of index.ts and of runDueTasks).
THEOREM OneSwapAtMost == Spec => []OneSwapAfterTrip
<1>1. Init => AtMostOneLeft
  BY DEF Init, AtMostOneLeft
<1>2. Typed /\ AtMostOneLeft => OneSwapAfterTrip
  BY DEF Typed, TypeOK, AtMostOneLeft, OneSwapAfterTrip
<1> QED BY <1>1, <1>2, AtMostOneStep, AlwaysTyped, PTL DEF Spec

-----------------------------------------------------------------------------
(* Swaps are verified, and submitted once.                                 *)

SwapCall(i) == [call |-> "swap", intent |-> i]
SwapsIn(calls) == {q \in calls : q.call = "swap"}

\* An intent that has not been sent is its actor's own, and one that may be sent next has
\* passed both checks.
OwnIntents ==
    \A a \in Actors :
        /\ run[a].stage \in BeforeSending =>
              /\ \A n \in DOMAIN sent : sent[n] # run[a].intent
              /\ run[a].intent \notin replaced
              /\ \A b \in Actors \ {a} :
                    run[b].stage \in BeforeSending => run[b].intent # run[a].intent
        /\ run[a].stage \in {"nonce", "sending"} =>
              SwapCall(run[a].intent) \in verified /\ mode \in {"canary", "active"}

SwapsInv == OwnIntents /\ SwapsAreVerified

\* What a step of an actor may do with intents and calls.
Submits(a) ==
    /\ UNCHANGED mode /\ verified \subseteq verified'
    /\ run'[a].stage \in BeforeSending =>
          \/ run[a].stage \in BeforeSending /\ run'[a].intent = run[a].intent
          \/ run'[a].intent = Len(intents) + 1
    /\ run'[a].stage \in {"nonce", "sending"} =>
          \/ run[a].stage \in {"nonce", "sending"} /\ run'[a].intent = run[a].intent
          \/ SwapCall(run'[a].intent) \in verified' /\ mode \in {"canary", "active"}
    /\ \/ UNCHANGED <<sent, replaced>> /\ SwapsIn(requested') = SwapsIn(requested)
       \/ /\ run[a].stage = "sending" /\ run'[a].stage \notin BeforeSending
          /\ requested' = requested \cup {SwapCall(run[a].intent)}
          /\ UNCHANGED <<sent, replaced>> \/ Accepts(a)

LEMMA FailAndEndSubmits ==
    ASSUME Typed, NEW a \in Actors, Busy(a), FailAndEnd(a), UNCHANGED <<mode, chain, history>>
    PROVE  Submits(a)
BY FailAndEndShape DEF Submits, BeforeSending, chain, history

LEMMA ActorStepSubmits ==
    ASSUME Typed, NEW a \in Actors, ActorStep(a)
    PROVE  Submits(a)
<1> USE DEF breaker, chain, files, history, BeforeSending, Stages, Busy
<1>1. ASSUME NEW state \in EndStates, End(a, state)
      PROVE  run'[a].stage = "idle"
  BY <1>1, EndLeavesOthers DEF Idle
<1>2. ASSUME NEW stage \in Stages \ {"idle"}, Goto(a, stage)
      PROVE  run'[a].stage = stage /\ run'[a].intent = run[a].intent
  BY <1>2, GotoGoesOn
<1>3. ASSUME NEW status, NEW hash,
             run' = [run EXCEPT ![a].stage = "recording", ![a].status = status, ![a].hash = hash]
      PROVE  run'[a].stage = "recording"
  BY <1>3, RecordingGoesOn
<1>4. run[a] \in Runs
  BY DEF Typed, TypeOK, Runs
<1>5. CASE AlertDone(a)
  BY <1>1, <1>5 DEF AlertDone, Submits, EndStates
<1>6. CASE ObserveNothing(a)
  BY <1>1, <1>6 DEF ObserveNothing, Submits, EndStates
<1>7. CASE ObserveThrows(a)
  BY <1>1, <1>7, FailAndEndSubmits DEF ObserveThrows, Submits, EndStates
<1>8. ASSUME NEW k \in Tokens, BuildIntent(a, k)
      PROVE  Submits(a)
  <2>1. run'[a].stage = "policy" /\ run'[a].intent = Len(intents) + 1
    BY <1>4, <1>8 DEF BuildIntent, Typed, TypeOK, Runs
  <2> QED BY <1>8, <2>1 DEF BuildIntent, Submits
<1>9. CASE PolicyCheck(a)
  BY <1>1, <1>2, <1>9 DEF PolicyCheck, Submits, EndStates
<1>10. CASE SimulationPasses(a)
  BY <1>1, <1>2, <1>10 DEF SimulationPasses, Submits, SwapCall, EndStates
<1>11. CASE SimulationFails(a)
  BY <1>1, <1>11, FailAndEndSubmits DEF SimulationFails, Submits, EndStates
<1>12. CASE ReadNonce(a)
  <2>1. CASE ExecuteThrows(a)
    BY <1>3, <1>12, <2>1 DEF ReadNonce, ExecuteThrows, Submits
  <2>2. CASE run' = [run EXCEPT ![a].stage = "sending", ![a].nonce = Len(sent)]
    <3>1. run'[a].stage = "sending" /\ run'[a].intent = run[a].intent
      BY <1>4, <2>2 DEF Typed, TypeOK, Runs
    <3> QED BY <1>12, <3>1 DEF ReadNonce, Submits
  <2> QED BY <1>12, <2>1, <2>2 DEF ReadNonce
<1>13. CASE Send(a)
  <2>1. run'[a].stage \in {"waiting", "recording"}
    <3>1. CASE Goto(a, "waiting")
      BY <1>2, <3>1
    <3>2. CASE ExecuteThrows(a)
      BY <1>3, <3>2 DEF ExecuteThrows
    <3> QED BY <1>13, <3>1, <3>2 DEF Send
  <2> QED BY <1>13, <2>1 DEF Send, Submits, SwapCall
<1>14. CASE ReceiptArrives(a)
  <2>1. run'[a].stage = "recording"
    BY <1>4, <1>14 DEF ReceiptArrives, Typed, TypeOK, Runs
  <2> QED BY <1>14, <2>1 DEF ReceiptArrives, Submits
<1>15. CASE WaitTimesOut(a)
  BY <1>3, <1>15 DEF WaitTimesOut, ExecuteThrows, Submits
<1>16. CASE WriteRecord(a)
  BY <1>2, <1>16 DEF WriteRecord, Submits
<1>17. CASE ReportOutcome(a)
  <2>1. CASE FailAndEnd(a)
    BY <1>17, <2>1, FailAndEndSubmits DEF ReportOutcome
  <2>2. CASE RecordSuccess
    BY <1>1, <1>2, <1>17, <2>2, FailAndEndSubmits DEF ReportOutcome, Submits, EndStates
  <2> QED BY <1>17, <2>1, <2>2 DEF ReportOutcome
<1>18. CASE Burn(a)
  <2>1. SwapsIn(requested') = SwapsIn(requested)
    BY <1>18 DEF Burn, SwapsIn
  <2> QED BY <1>1, <1>18, <2>1 DEF Burn, Submits, EndStates
<1> HIDE DEF breaker, chain, files, history, BeforeSending, Stages, Busy
<1> QED BY <1>5, <1>6, <1>7, <1>8, <1>9, <1>10, <1>11, <1>12, <1>13, <1>14, <1>15, <1>16, <1>17,
           <1>18 DEF ActorStep

LEMMA ActorSwapsStep ==
    ASSUME Typed, SwapsInv, NEW a \in Actors, ActorStep(a)
    PROVE  SwapsInv'
<1>1. Submits(a) /\ \A b \in Actors \ {a} : run'[b] = run[b]
  BY ActorStepSubmits, ActorStepShape
<1>2. /\ sent \in Seq(1 .. Len(intents)) /\ Len(intents) \in Nat
      /\ \A b \in Actors : run[b].stage \in BeforeSending => run[b].intent \in 1 .. Len(intents)
  BY DEF Typed, TypeOK, RunsFit, WithIntent
<1>3. /\ \A n \in DOMAIN sent : sent[n] \in 1 .. Len(intents)
      /\ replaced \subseteq 1 .. Len(intents)
  BY <1>2, ElementOfSeq, LenProperties DEF Typed, TypeOK
<1>4. Len(intents) + 1 \notin 1 .. Len(intents)
  BY <1>2
<1>6. ASSUME UNCHANGED <<sent, replaced>>, SwapsIn(requested') = SwapsIn(requested)
      PROVE  SwapsInv'
  <2>1. SwapsAreVerified'
    BY <1>1, <1>6 DEF SwapsInv, SwapsAreVerified, Submits, SwapsIn
  <2>2. ASSUME NEW b \in Actors, run'[b].stage \in BeforeSending
        PROVE  /\ \A n \in DOMAIN sent' : sent'[n] # run'[b].intent
               /\ run'[b].intent \notin replaced'
               /\ \A c \in Actors \ {b} :
                     run'[c].stage \in BeforeSending => run'[c].intent # run'[b].intent
    <3>1. \A c \in Actors : run'[c].stage \in BeforeSending =>
             \/ run[c].stage \in BeforeSending /\ run'[c].intent = run[c].intent
             \/ c = a /\ run'[c].intent = Len(intents) + 1
      BY <1>1 DEF Submits
    <3>2. /\ \A n \in DOMAIN sent' : sent'[n] # run'[b].intent
          /\ run'[b].intent \notin replaced'
      BY <1>3, <1>4, <1>6, <2>2, <3>1 DEF SwapsInv, OwnIntents
    <3>3. ASSUME NEW c \in Actors \ {b}, run'[c].stage \in BeforeSending
          PROVE  run'[c].intent # run'[b].intent
      BY <1>2, <1>4, <2>2, <3>1, <3>3 DEF SwapsInv, OwnIntents
    <3> QED BY <3>2, <3>3
  <2>3. ASSUME NEW b \in Actors, run'[b].stage \in {"nonce", "sending"}
        PROVE  SwapCall(run'[b].intent) \in verified' /\ mode' \in {"canary", "active"}
    BY <1>1, <2>3 DEF Submits, SwapsInv, OwnIntents
  <2> QED BY <2>1, <2>2, <2>3 DEF SwapsInv, OwnIntents
<1>7. ASSUME run[a].stage = "sending", run'[a].stage \notin BeforeSending,
             requested' = requested \cup {SwapCall(run[a].intent)},
             UNCHANGED <<sent, replaced>> \/ Accepts(a)
      PROVE  SwapsInv'
  <2> DEFINE i == run[a].intent
             j == run[a].nonce + 1
  <2>1. SwapCall(i) \in verified /\ mode \in {"canary", "active"} /\ i \notin replaced
        /\ i \in 1 .. Len(intents) /\ \A n \in DOMAIN sent : sent[n] # i
    BY <1>2, <1>7 DEF SwapsInv, OwnIntents, BeforeSending
  <2>2. \E m \in Nat \ {0} :
           /\ \A n \in DOMAIN sent' : \/ n # m /\ n \in DOMAIN sent /\ sent'[n] = sent[n]
                                      \/ n = m /\ sent'[n] = i
           /\ \/ replaced' = replaced
              \/ m \in DOMAIN sent /\ replaced' = replaced \cup {sent[m]}
    <3>0. Len(sent) \in Nat /\ DOMAIN sent = 1 .. Len(sent) /\ mined \in Nat
          /\ run[a].nonce \in Nat
      BY <1>2, LenProperties DEF Typed, TypeOK
    <3>1. CASE UNCHANGED <<sent, replaced>>
      <4>1. Len(sent) + 1 \in Nat \ {0} /\ Len(sent) + 1 \notin DOMAIN sent
        BY <3>0
      <4> QED BY <3>1, <4>1
    <3>2. CASE sent' = Append(sent, i) /\ UNCHANGED replaced
      <4> HIDE DEF i
      <4>1. /\ sent' \in Seq(1 .. Len(intents)) /\ Len(sent') = Len(sent) + 1
            /\ \A n \in 1 .. Len(sent) : sent'[n] = sent[n]
            /\ sent'[Len(sent) + 1] = i
        BY <1>2, <2>1, <3>2, AppendProperties
      <4>2. DOMAIN sent' = 1 .. Len(sent')
        BY <4>1, LenProperties
      <4>3. Len(sent) + 1 \in Nat \ {0}
        BY <3>0
      <4> QED BY <3>0, <3>2, <4>1, <4>2, <4>3
    <3>3. CASE /\ j \in 1 .. Len(sent) /\ sent' = [sent EXCEPT ![j] = i]
               /\ replaced' = replaced \cup {sent[j]}
      <4> HIDE DEF i, j
      <4>1. /\ DOMAIN sent' = DOMAIN sent
            /\ \A n \in DOMAIN sent : sent'[n] = IF n = j THEN i ELSE sent[n]
        BY <3>3
      <4>2. j \in Nat \ {0}
        BY <3>0, <3>3
      <4> QED BY <3>0, <3>3, <4>1, <4>2
    <3>4. \/ UNCHANGED <<sent, replaced>>
          \/ sent' = Append(sent, i) /\ UNCHANGED replaced
          \/ /\ j \in 1 .. Len(sent) /\ sent' = [sent EXCEPT ![j] = i]
             /\ replaced' = replaced \cup {sent[j]}
      BY <1>7, <3>0 DEF Accepts
    <3> HIDE DEF i, j
    <3> QED BY <3>1, <3>2, <3>3, <3>4
  <2>3. PICK m \in Nat \ {0} :
           /\ \A n \in DOMAIN sent' : \/ n # m /\ n \in DOMAIN sent /\ sent'[n] = sent[n]
                                      \/ n = m /\ sent'[n] = i
           /\ \/ replaced' = replaced
              \/ m \in DOMAIN sent /\ replaced' = replaced \cup {sent[m]}
    BY <2>2
  <2> HIDE DEF i, j
  <2>4. SwapsAreVerified'
    <3>1. {q \in requested' : q.call = "swap"} \subseteq verified'
      BY <1>1, <1>7, <2>1 DEF SwapsInv, SwapsAreVerified, Submits, i
    <3>2. mode' \notin {"observe", "simulate"}
      BY <1>1, <2>1 DEF Submits
    <3>3. \A k, n \in DOMAIN sent' : sent'[k] = sent'[n] => k = n
      BY <2>1, <2>3 DEF SwapsInv, SwapsAreVerified
    <3>4. \A n \in DOMAIN sent' : sent'[n] \notin replaced'
      BY <2>1, <2>3 DEF SwapsInv, SwapsAreVerified
    <3> QED BY <3>1, <3>2, <3>3, <3>4 DEF SwapsAreVerified
  <2>5. ASSUME NEW b \in Actors, run'[b].stage \in BeforeSending
        PROVE  /\ \A n \in DOMAIN sent' : sent'[n] # run'[b].intent
               /\ run'[b].intent \notin replaced'
               /\ \A c \in Actors \ {b} :
                     run'[c].stage \in BeforeSending => run'[c].intent # run'[b].intent
    <3>1. b # a /\ run'[b] = run[b]
      BY <1>1, <1>7, <2>5
    <3>2. run[b].intent # i
      BY <1>7, <2>5, <3>1 DEF SwapsInv, OwnIntents, BeforeSending, i
    <3>3. /\ \A n \in DOMAIN sent' : sent'[n] # run'[b].intent
          /\ run'[b].intent \notin replaced'
      BY <2>3, <2>5, <3>1, <3>2 DEF SwapsInv, OwnIntents
    <3>4. ASSUME NEW c \in Actors \ {b}, run'[c].stage \in BeforeSending
          PROVE  run'[c].intent # run'[b].intent
      BY <1>1, <1>7, <2>5, <3>1, <3>4 DEF SwapsInv, OwnIntents
    <3> QED BY <3>3, <3>4
  <2>6. ASSUME NEW b \in Actors, run'[b].stage \in {"nonce", "sending"}
        PROVE  SwapCall(run'[b].intent) \in verified' /\ mode' \in {"canary", "active"}
    BY <1>1, <2>6 DEF Submits, SwapsInv, OwnIntents
  <2> QED BY <2>4, <2>5, <2>6 DEF SwapsInv, OwnIntents
<1> QED BY <1>1, <1>6, <1>7 DEF Submits

LEMMA SwapsStep ==
    ASSUME Typed, SwapsInv, [Next]_vars
    PROVE  SwapsInv'
<1> USE DEF breaker, chain, files, bounds, history
<1>1. CASE UNCHANGED <<mode, run, sent, replaced, verified, requested>>
  BY <1>1 DEF SwapsInv, OwnIntents, SwapsAreVerified
<1>2. ASSUME NEW a \in Actors, NEW r, run' = [run EXCEPT ![a] = r], r.stage = "observing",
             UNCHANGED <<mode, sent, replaced, verified, requested>>
      PROVE  SwapsInv'
  <2>1. run'[a] = r /\ \A b \in Actors \ {a} : run'[b] = run[b]
    BY <1>2 DEF Typed, TypeOK
  <2>2. \A b \in Actors : run'[b].stage \in BeforeSending => run'[b] = run[b]
    BY <1>2, <2>1 DEF BeforeSending
  <2>3. \A b \in Actors : run'[b].stage \in {"nonce", "sending"} => run'[b] = run[b]
    BY <1>2, <2>1
  <2> QED BY <1>2, <2>2, <2>3 DEF SwapsInv, OwnIntents, SwapsAreVerified
<1>3. ASSUME NEW p \in Pools, NEW b \in 1 .. MaxBlock, OnUpdate(p, b)
      PROVE  SwapsInv'
  <2> DEFINE r == [Idle EXCEPT !.stage = "observing", !.source = p, !.block = b]
  <2>1. r.stage = "observing" /\ run' = [run EXCEPT !["pipeline"] = r]
    BY <1>3 DEF OnUpdate, Idle
  <2> HIDE DEF r
  <2> QED BY <1>2, <1>3, <2>1 DEF OnUpdate, Actors
<1>4. ASSUME NEW t \in Tasks, NEW manual \in BOOLEAN, BeginTask(t, manual),
             UNCHANGED <<mode, sent, replaced, verified, requested>>
      PROVE  SwapsInv'
  <2> DEFINE r == [Idle EXCEPT !.stage = "observing", !.source = t, !.manual = manual]
  <2>1. r.stage = "observing" /\ run' = [run EXCEPT !["runner"] = r]
    BY <1>4 DEF BeginTask, Idle
  <2> HIDE DEF r
  <2> QED BY <1>2, <1>4, <2>1 DEF Actors
<1>5. CASE RunDueTasks
  BY <1>4, <1>5 DEF RunDueTasks, Tasks
<1>6. ASSUME NEW t \in Tasks, ManualRun(t)
      PROVE  SwapsInv'
  BY <1>1, <1>4, <1>6 DEF ManualRun
<1>7. ASSUME NEW a \in Actors, ActorStep(a)
      PROVE  SwapsInv'
  BY <1>7, ActorSwapsStep
<1>8. CASE Restart
  <2>1. \A a \in Actors : run'[a].stage = "idle"
    BY <1>8 DEF Restart, IdleRuns, Idle
  <2> QED BY <1>8, <2>1 DEF Restart, SwapsInv, OwnIntents, SwapsAreVerified, BeforeSending
<1>9. CASE Mine \/ (\E t \in Tasks : TaskComesDue(t)) \/ (\E k \in Tokens : GuardRecovers(k))
  BY <1>1, <1>9 DEF Mine, TaskComesDue, GuardRecovers
<1>10. CASE UNCHANGED vars
  BY <1>1, <1>10 DEF vars
<1> QED BY <1>3, <1>5, <1>6, <1>7, <1>8, <1>9, <1>10 DEF Next, Surroundings

\* Each swap submitted has passed the policy check and the simulation, is of a mode that
\* executes, and is the only one of its intent, for both actors and across restarts
\* (index.ts, autonomous-task-runner.ts, execution-service.ts).
THEOREM OnlyVerifiedSwaps == Spec => []SwapsAreVerified
<1>1. Init => SwapsInv
  BY DEF Init, SwapsInv, OwnIntents, SwapsAreVerified, IdleRuns, Idle, BeforeSending
<1>2. SwapsInv => SwapsAreVerified
  BY DEF SwapsInv
<1> QED BY <1>1, <1>2, SwapsStep, AlwaysTyped, PTL DEF Spec

-----------------------------------------------------------------------------
(* The audit file agrees with the chain.                                   *)

\* What a record, or a run about to be recorded, says of its swap is true.
ConfirmedBy(r, swaps, n, outcome, gone) ==
    /\ r.status = "EXECUTED" => r.hash # NoHash
    /\ r.hash # NoHash =>
          /\ r.hash \in 1 .. n
          /\ (outcome[r.hash] = "success") = (r.status = "EXECUTED")
          /\ swaps[r.hash] = r.intent \/ r.intent \in gone
Confirmed(r) == ConfirmedBy(r, sent, mined, result, replaced)

\* A run that waits has its transaction with the node, or it was replaced.
WaitsFor(r, swaps, gone) ==
    /\ r.nonce + 1 \in 1 .. Len(swaps)
    /\ swaps[r.nonce + 1] = r.intent \/ r.intent \in gone
Waits(r) == WaitsFor(r, sent, replaced)

RecordsInv ==
    /\ \A a \in Actors : /\ run[a].stage = "recording" => Confirmed(run[a])
                         /\ run[a].stage = "waiting" => Waits(run[a])
    /\ \A n \in DOMAIN records : Confirmed(records[n])

\* The chain only grows: what it has mined stays as it is, and what is pending stays or
\* is noted as replaced.
LEMMA ChainGrows ==
    ASSUME Typed, [Next]_vars
    PROVE  /\ mined \in Nat /\ mined' \in Nat /\ mined <= mined'
           /\ \A m \in 1 .. mined : sent'[m] = sent[m] /\ result'[m] = result[m]
           /\ replaced \subseteq replaced'
           /\ \A m \in 1 .. Len(sent) :
                 m \in 1 .. Len(sent') /\ (sent'[m] = sent[m] \/ sent[m] \in replaced')
<1> DEFINE S == 1 .. Len(intents)
<1>1. /\ sent \in Seq(S) /\ result \in Seq({"success", "reverted"})
      /\ mined \in 0 .. Len(sent) /\ Len(result) = mined /\ Len(sent) \in Nat
  BY DEF Typed, TypeOK
<1>2. \A a \in Actors : /\ run[a].stage \in WithIntent => run[a].intent \in S
                        /\ run[a].nonce \in Nat
  BY DEF Typed, TypeOK, RunsFit
<1> HIDE DEF S
<1>3. CASE UNCHANGED <<sent, mined, result, replaced>>
  BY <1>1, <1>3
<1>4. ASSUME NEW a \in Actors, Send(a)
      PROVE  /\ mined' = mined /\ replaced \subseteq replaced'
             /\ \A m \in 1 .. mined : sent'[m] = sent[m] /\ result'[m] = result[m]
             /\ \A m \in 1 .. Len(sent) :
                   m \in 1 .. Len(sent') /\ (sent'[m] = sent[m] \/ sent[m] \in replaced')
  <2> DEFINE i == run[a].intent
             n == run[a].nonce + 1
  <2>1. i \in S /\ run[a].nonce \in Nat
    BY <1>2, <1>4 DEF Send, WithIntent, BeforeSending
  <2>2. \/ sent' = Append(sent, i) /\ UNCHANGED replaced
        \/ UNCHANGED <<sent, replaced>>
        \/ /\ n \in 1 .. Len(sent) /\ n > mined
           /\ sent' = [sent EXCEPT ![n] = i] /\ replaced' = replaced \cup {sent[n]}
    BY <1>1, <1>4, <2>1 DEF Send, Accepts
  <2>3. UNCHANGED <<mined, result>>
    BY <1>4 DEF Send
  <2> HIDE DEF i, n
  <2>4. CASE sent' = Append(sent, i) /\ UNCHANGED replaced
    <3>1. /\ Len(sent') = Len(sent) + 1
          /\ \A m \in 1 .. Len(sent) : sent'[m] = sent[m]
      BY <1>1, <2>1, <2>4, AppendProperties
    <3> QED BY <1>1, <2>3, <2>4, <3>1
  <2>5. CASE /\ n \in 1 .. Len(sent) /\ n > mined
             /\ sent' = [sent EXCEPT ![n] = i] /\ replaced' = replaced \cup {sent[n]}
    <3>1. /\ Len(sent') = Len(sent)
          /\ \A m \in 1 .. Len(sent) : sent'[m] = IF m = n THEN i ELSE sent[m]
      BY <1>1, <2>1, <2>5, ExceptSeq, LenProperties
    <3> QED BY <1>1, <2>3, <2>5, <3>1
  <2> QED BY <1>1, <2>2, <2>3, <2>4, <2>5
<1>5. CASE Mine
  <2>1. result' = Append(result, "reverted") \/ result' = Append(result, "success")
    BY <1>5 DEF Mine
  <2>2. \A m \in 1 .. mined : result'[m] = result[m]
    BY <1>1, <2>1, AppendProperties
  <2> QED BY <1>1, <1>5, <2>2 DEF Mine, history
<1>6. ASSUME NEW a \in Actors, ActorStep(a)
      PROVE  UNCHANGED <<sent, mined, result, replaced>> \/ Send(a)
  BY <1>6 DEF chain, history, ActorStep, AlertDone, ObserveNothing, ObserveThrows, BuildIntent,
         PolicyCheck, SimulationPasses, SimulationFails, ReadNonce, ReceiptArrives, WaitTimesOut,
         WriteRecord, ReportOutcome, Burn
<1> QED
  <2>1. \/ UNCHANGED <<sent, mined, result, replaced>>
        \/ Mine
        \/ \E a \in Actors : ActorStep(a)
    BY DEF Next, Surroundings, OnUpdate, RunDueTasks, ManualRun, Restart, TaskComesDue,
           GuardRecovers, chain, history, vars
  <2> QED BY <1>1, <1>3, <1>4, <1>5, <1>6, <2>1

\* What was true of the chain stays true.
LEMMA ConfirmedStays ==
    ASSUME Typed, [Next]_vars, NEW r, Confirmed(r)
    PROVE  ConfirmedBy(r, sent', mined', result', replaced')
BY ChainGrows DEF Confirmed, ConfirmedBy

LEMMA WaitsStays ==
    ASSUME Typed, [Next]_vars, NEW r, Waits(r)
    PROVE  WaitsFor(r, sent', replaced')
BY ChainGrows DEF Waits, WaitsFor

\* What a step of an actor does to the records and to what it is to record.
Records(a) ==
    /\ run'[a].stage = "recording" =>
          ConfirmedBy(run'[a], sent', mined', result', replaced')
    /\ run'[a].stage = "waiting" => WaitsFor(run'[a], sent', replaced')
    /\ \/ UNCHANGED records
       \/ /\ run[a].stage = "recording"
          /\ records' = Append(records, [intent |-> run[a].intent, status |-> run[a].status,
                                         hash |-> run[a].hash])

LEMMA ActorStepRecords ==
    ASSUME Typed, RecordsInv, NEW a \in Actors, ActorStep(a)
    PROVE  Records(a)
<1> USE DEF files, Stages
<1>1. run[a] \in Runs
  BY DEF Typed, TypeOK, Runs
<1>2. ASSUME NEW state \in EndStates, End(a, state)
      PROVE  run'[a].stage = "idle"
  BY <1>2, EndLeavesOthers DEF Idle
<1>3. ASSUME NEW stage \in Stages \ {"idle"}, Goto(a, stage)
      PROVE  run'[a].stage = stage
  BY <1>3, GotoGoesOn
<1>4. ASSUME ExecuteThrows(a)
      PROVE  /\ run'[a].stage = "recording"
             /\ ConfirmedBy(run'[a], sent', mined', result', replaced')
  <2>1. run'[a].stage = "recording" /\ run'[a].status = "FAILED" /\ run'[a].hash = NoHash
    BY <1>4, <1>1 DEF ExecuteThrows, Typed, TypeOK, Runs
  <2> QED BY <2>1 DEF ConfirmedBy
<1>5. ASSUME FailAndEnd(a), Busy(a)
      PROVE  run'[a].stage \in {"idle", "alerting"}
  BY <1>5, FailAndEndShape
<1>6. CASE AlertDone(a)
  BY <1>2, <1>6 DEF AlertDone, Records, EndStates
<1>7. CASE ObserveNothing(a)
  BY <1>2, <1>7 DEF ObserveNothing, Records, EndStates
<1>8. CASE ObserveThrows(a)
  BY <1>2, <1>5, <1>8 DEF ObserveThrows, Records, EndStates, Busy
<1>9. ASSUME NEW k \in Tokens, BuildIntent(a, k)
      PROVE  Records(a)
  <2>1. run'[a].stage = "policy"
    BY <1>1, <1>9 DEF BuildIntent, Typed, TypeOK, Runs
  <2> QED BY <1>9, <2>1 DEF BuildIntent, Records
<1>10. CASE PolicyCheck(a)
  BY <1>2, <1>3, <1>10 DEF PolicyCheck, Records, EndStates
<1>11. CASE SimulationPasses(a)
  BY <1>2, <1>3, <1>11 DEF SimulationPasses, Records, EndStates
<1>12. CASE SimulationFails(a)
  BY <1>2, <1>5, <1>12 DEF SimulationFails, Records, EndStates, Busy
<1>13. CASE ReadNonce(a)
  <2>1. CASE run' = [run EXCEPT ![a].stage = "sending", ![a].nonce = Len(sent)]
    <3>1. run'[a].stage = "sending"
      BY <1>1, <2>1 DEF Typed, TypeOK, Runs
    <3> QED BY <1>13, <3>1 DEF ReadNonce, Records
  <2> QED BY <1>4, <1>13, <2>1 DEF ReadNonce, Records
<1>14. CASE Send(a)
  <2>1. ASSUME Accepts(a), Goto(a, "waiting")
        PROVE  run'[a].stage = "waiting" /\ WaitsFor(run'[a], sent', replaced')
    <3> DEFINE S == 1 .. Len(intents)
               i == run[a].intent
               n == run[a].nonce + 1
    <3>1. run'[a].stage = "waiting" /\ run'[a].nonce + 1 = n /\ run'[a].intent = i
      BY <2>1, GotoGoesOn
    <3>2. sent \in Seq(S) /\ Len(sent) \in Nat /\ i \in S /\ run[a].nonce \in Nat
          /\ mined \in Nat
      BY <1>14 DEF Send, Typed, TypeOK, RunsFit, WithIntent, BeforeSending
    <3>3. \/ n = Len(sent) + 1 /\ sent' = Append(sent, i)
          \/ n \in 1 .. Len(sent) /\ sent' = [sent EXCEPT ![n] = i]
      <4>1. CASE run[a].nonce = Len(sent) /\ sent' = Append(sent, i)
        BY <4>1
      <4>2. CASE run[a].nonce \in mined .. Len(sent) - 1 /\ sent' = [sent EXCEPT ![n] = i]
        <5>1. run[a].nonce \in Nat /\ Len(sent) \in Nat /\ mined \in Nat
          BY <3>2
        <5>2. run[a].nonce \in mined .. Len(sent) - 1
          BY <4>2
        <5>3. n \in 1 .. Len(sent)
          BY <5>1, <5>2
        <5> QED BY <4>2, <5>3
      <4> QED BY <2>1, <4>1, <4>2 DEF Accepts
    <3> HIDE DEF S, i, n
    <3>4. n \in 1 .. Len(sent') /\ sent'[n] = i
      <4>1. CASE n = Len(sent) + 1 /\ sent' = Append(sent, i)
        <5>1. Len(sent') = Len(sent) + 1 /\ sent'[Len(sent) + 1] = i
          BY <3>2, <4>1, AppendProperties
        <5> QED BY <3>2, <4>1, <5>1
      <4>2. CASE n \in 1 .. Len(sent) /\ sent' = [sent EXCEPT ![n] = i]
        BY <3>2, <4>2, ExceptSeq
      <4> QED BY <3>3, <4>1, <4>2
    <3> QED BY <3>1, <3>4 DEF WaitsFor
  <2> QED BY <1>4, <1>14, <2>1 DEF Send, Records
<1>15. CASE ReceiptArrives(a)
  <2> DEFINE n == run[a].nonce + 1
             status == IF result[n] = "success" THEN "EXECUTED" ELSE "FAILED"
  <2>1. n \in 1 .. mined /\ Waits(run[a])
    BY <1>15 DEF ReceiptArrives, RecordsInv, Typed, TypeOK
  <2>2. run' = [run EXCEPT ![a].stage = "recording", ![a].status = status, ![a].hash = n]
    BY <1>15 DEF ReceiptArrives, Typed, TypeOK
  <2>3. (result[n] = "success") = (status = "EXECUTED")
    OBVIOUS
  <2>4. sent[n] = run[a].intent \/ run[a].intent \in replaced
    BY <2>1 DEF Waits, WaitsFor
  <2> HIDE DEF status, n
  <2>5. run'[a].stage = "recording" /\ run'[a].intent = run[a].intent
        /\ run'[a].status = status /\ run'[a].hash = n
    BY <1>1, <2>2 DEF Typed, TypeOK, Runs
  <2>6. UNCHANGED <<sent, mined, result, replaced>>
    BY <1>15 DEF ReceiptArrives, chain, history
  <2>7. n # NoHash
    BY <2>1 DEF NoHash
  <2>8. ConfirmedBy(run'[a], sent', mined', result', replaced')
    BY <2>1, <2>3, <2>4, <2>5, <2>6, <2>7 DEF ConfirmedBy
  <2> QED BY <1>15, <2>5, <2>8 DEF ReceiptArrives, Records
<1>16. CASE WaitTimesOut(a)
  BY <1>4, <1>16 DEF WaitTimesOut, Records
<1>17. CASE WriteRecord(a)
  BY <1>3, <1>17 DEF WriteRecord, Records
<1>18. CASE ReportOutcome(a)
  BY <1>2, <1>3, <1>5, <1>18 DEF ReportOutcome, Records, EndStates, Busy
<1>19. CASE Burn(a)
  BY <1>2, <1>19 DEF Burn, Records, EndStates
<1> HIDE DEF files, Stages
<1> QED BY <1>6, <1>7, <1>8, <1>9, <1>10, <1>11, <1>12, <1>13, <1>14, <1>15, <1>16, <1>17, <1>18,
           <1>19 DEF ActorStep

LEMMA RecordsStep ==
    ASSUME Typed, RecordsInv, [Next]_vars
    PROVE  RecordsInv'
<1> USE DEF breaker, chain, files, bounds, history
<1>1. ASSUME UNCHANGED records, NEW A \in SUBSET Actors,
             \A b \in A : run'[b].stage \notin {"recording", "waiting"},
             \A b \in Actors \ A : run'[b] = run[b]
      PROVE  RecordsInv'
  <2>1. \A b \in Actors : /\ run'[b].stage = "recording" => Confirmed(run[b]) /\ run'[b] = run[b]
                          /\ run'[b].stage = "waiting" => Waits(run[b]) /\ run'[b] = run[b]
    BY <1>1 DEF RecordsInv
  <2>2. \A n \in DOMAIN records' : Confirmed(records[n]) /\ records'[n] = records[n]
    BY <1>1 DEF RecordsInv
  <2> QED BY <2>1, <2>2, ConfirmedStays, WaitsStays DEF RecordsInv, Confirmed, Waits
<1>2. ASSUME NEW a \in Actors, NEW r, run' = [run EXCEPT ![a] = r], r.stage = "observing",
             UNCHANGED records
      PROVE  RecordsInv'
  <2>1. run'[a] = r /\ \A b \in Actors \ {a} : run'[b] = run[b]
    BY <1>2 DEF Typed, TypeOK
  <2>2. {a} \in SUBSET Actors /\ \A b \in {a} : run'[b].stage \notin {"recording", "waiting"}
    BY <1>2, <2>1
  <2> QED BY <1>1, <1>2, <2>1, <2>2
<1>3. CASE UNCHANGED <<run, records>>
  <2>1. {} \in SUBSET Actors
    OBVIOUS
  <2> QED BY <1>1, <1>3, <2>1
<1>4. ASSUME NEW p \in Pools, NEW b \in 1 .. MaxBlock, OnUpdate(p, b)
      PROVE  RecordsInv'
  <2> DEFINE r == [Idle EXCEPT !.stage = "observing", !.source = p, !.block = b]
  <2>1. r.stage = "observing" /\ run' = [run EXCEPT !["pipeline"] = r]
    BY <1>4 DEF OnUpdate, Idle
  <2> HIDE DEF r
  <2> QED BY <1>2, <1>4, <2>1 DEF OnUpdate, Actors
<1>5. ASSUME NEW t \in Tasks, NEW manual \in BOOLEAN, BeginTask(t, manual), UNCHANGED records
      PROVE  RecordsInv'
  <2> DEFINE r == [Idle EXCEPT !.stage = "observing", !.source = t, !.manual = manual]
  <2>1. r.stage = "observing" /\ run' = [run EXCEPT !["runner"] = r]
    BY <1>5 DEF BeginTask, Idle
  <2> HIDE DEF r
  <2> QED BY <1>2, <1>5, <2>1 DEF Actors
<1>6. CASE RunDueTasks
  BY <1>5, <1>6 DEF RunDueTasks, Tasks
<1>7. ASSUME NEW t \in Tasks, ManualRun(t)
      PROVE  RecordsInv'
  BY <1>3, <1>5, <1>7 DEF ManualRun
<1>8. ASSUME NEW a \in Actors, ActorStep(a)
      PROVE  RecordsInv'
  <2>1. Records(a) /\ \A b \in Actors \ {a} : run'[b] = run[b]
    BY <1>8, ActorStepRecords, ActorStepShape
  <2>2. \A b \in Actors : /\ run'[b].stage = "recording" => Confirmed(run[b])'
                          /\ run'[b].stage = "waiting" => Waits(run[b])'
    <3>1. ASSUME NEW b \in Actors \ {a}
          PROVE  /\ run'[b].stage = "recording" => Confirmed(run[b])'
                 /\ run'[b].stage = "waiting" => Waits(run[b])'
      <4>1. run'[b] = run[b]
        BY <2>1
      <4>2. run[b].stage = "recording" => Confirmed(run[b])
        BY DEF RecordsInv
      <4>3. run[b].stage = "waiting" => Waits(run[b])
        BY DEF RecordsInv
      <4> QED BY <4>1, <4>2, <4>3, ConfirmedStays, WaitsStays DEF Confirmed, Waits
    <3>2. /\ run'[a].stage = "recording" => Confirmed(run[a])'
          /\ run'[a].stage = "waiting" => Waits(run[a])'
      BY <2>1 DEF Records, Confirmed, Waits
    <3> QED BY <3>1, <3>2
  <2>3. \A n \in DOMAIN records : ConfirmedBy(records[n], sent', mined', result', replaced')
    BY ConfirmedStays DEF RecordsInv
  <2>5. CASE UNCHANGED records
    BY <2>2, <2>3, <2>5 DEF RecordsInv, Confirmed
  <2>4. CASE /\ run[a].stage = "recording"
             /\ records' = Append(records, [intent |-> run[a].intent, status |-> run[a].status,
                                            hash |-> run[a].hash])
    <3> DEFINE r == [intent |-> run[a].intent, status |-> run[a].status, hash |-> run[a].hash]
               R == [intent : 1 .. Len(intents), status : {"EXECUTED", "FAILED"}, hash : Nat]
    <3>1. run[a] \in Runs /\ run[a].intent \in 1 .. Len(intents)
          /\ run[a].status \in {"EXECUTED", "FAILED"}
      BY <2>4 DEF Typed, TypeOK, RunsFit, Runs, Stages, WithIntent
    <3>2. r \in R
      BY <3>1 DEF Runs
    <3>3. records \in Seq(R)
      BY DEF Typed, TypeOK
    <3>4. Confirmed(r)
      BY <2>4 DEF RecordsInv, Confirmed, ConfirmedBy
    <3>5. records' = Append(records, r)
      BY <2>4
    <3> HIDE DEF r, R
    <3>6. ConfirmedBy(r, sent', mined', result', replaced')
      BY <3>4, ConfirmedStays
    <3>7. \A n \in DOMAIN records' : records'[n] = r \/ (n \in DOMAIN records /\ records'[n] = records[n])
      <4>1. /\ records' \in Seq(R) /\ Len(records') = Len(records) + 1
            /\ \A n \in 1 .. Len(records) : records'[n] = records[n]
            /\ records'[Len(records) + 1] = r
        BY <3>2, <3>3, <3>5, AppendProperties
      <4>2. Len(records) \in Nat /\ DOMAIN records = 1 .. Len(records)
            /\ DOMAIN records' = 1 .. Len(records')
        BY <3>3, <4>1, LenProperties
      <4> QED BY <4>1, <4>2
    <3> QED BY <2>2, <2>3, <3>6, <3>7 DEF RecordsInv, Confirmed
  <2> QED BY <2>1, <2>4, <2>5 DEF Records
<1>9. CASE Restart
  <2>1. \A a \in Actors : run'[a].stage = "idle"
    BY <1>9 DEF Restart, IdleRuns, Idle
  <2> QED BY <1>1, <1>9, <2>1 DEF Restart
<1>10. CASE Mine \/ (\E t \in Tasks : TaskComesDue(t)) \/ (\E k \in Tokens : GuardRecovers(k))
  BY <1>3, <1>10 DEF Mine, TaskComesDue, GuardRecovers
<1>11. CASE UNCHANGED vars
  BY <1>3, <1>11 DEF vars
<1> QED BY <1>4, <1>6, <1>7, <1>8, <1>9, <1>10, <1>11 DEF Next, Surroundings

\* What the audit file says of a swap with a hash is what the chain made of that
\* transaction's nonce, by the swap itself or by the one that replaced it, and it calls
\* none executed without a hash, whatever receipts are late or lost and however often the
\* process restarts (execution-service.ts, agent/src/services/audit-store.ts).
THEOREM RecordsAlwaysMatch == Spec => []RecordsMatchChain
<1>1. Init => RecordsInv
  BY DEF Init, RecordsInv, IdleRuns, Idle
<1>2. RecordsInv => RecordsMatchChain
  BY DEF RecordsInv, RecordsMatchChain, Confirmed, ConfirmedBy
<1> QED BY <1>1, <1>2, RecordsStep, AlwaysTyped, PTL DEF Spec

-----------------------------------------------------------------------------
(* The breaker counts every failure.                                       *)

\* The last k swaps failed, none of them beside a success still to be reported.
CleanFailure == [status |-> "FAILED", beside |-> FALSE]
LastFailed(k) == \A n \in Len(outcomes) - k + 1 .. Len(outcomes) : outcomes[n] = CleanFailure

Reporting(a, status) == run[a].stage = "reporting" /\ run[a].status = status

\* A failure that is written and not yet counted.
Uncounted(a) == IF Reporting(a, "FAILED") THEN 1 ELSE 0
AllUncounted == Uncounted("pipeline") + Uncounted("runner")

\* The failures in a row are counted, or about to be; and a success about to be reported,
\* which resets the counter, has no clean failure after it.
FailuresCounted ==
    /\ consecutiveFailures >= MaxFailures => tripped
    /\ \A k \in 1 .. Len(outcomes) :
          LastFailed(k) =>
             /\ tripped \/ consecutiveFailures + AllUncounted >= k
             /\ \A a \in Actors : ~Reporting(a, "EXECUTED")

\* What a step of an actor does to the counter, apart from writing a record.
Counts(a) ==
    /\ UNCHANGED outcomes /\ run'[a].stage # "reporting"
    /\ \/ UNCHANGED <<consecutiveFailures, tripped>> /\ run[a].stage # "reporting"
       \/ /\ consecutiveFailures' = consecutiveFailures + 1
          /\ tripped \/ consecutiveFailures + 1 >= MaxFailures => tripped'
       \/ Reporting(a, "EXECUTED") /\ consecutiveFailures' = 0 /\ UNCHANGED tripped

LEMMA FailAndEndCounts ==
    ASSUME Typed, NEW a \in Actors, Busy(a), FailAndEnd(a), UNCHANGED outcomes
    PROVE  Counts(a)
BY FailAndEndShape DEF Counts, FailAndEnd, RecordFailure, FailureTrips

LEMMA ActorStepCounts ==
    ASSUME Typed, NEW a \in Actors, ActorStep(a)
    PROVE  WriteRecord(a) \/ Counts(a)
<1> USE DEF breaker, history, EndStates, Stages, Busy
<1>1. run[a] \in Runs
  BY DEF Typed, TypeOK, Runs
<1>2. ASSUME NEW state \in EndStates, End(a, state)
      PROVE  run'[a].stage # "reporting"
  BY <1>2, EndLeavesOthers DEF Idle
<1>3. ASSUME NEW stage \in Stages \ {"idle", "reporting"}, Goto(a, stage)
      PROVE  run'[a].stage # "reporting"
  BY <1>3, GotoGoesOn
<1>4. ASSUME ExecuteThrows(a)
      PROVE  run'[a].stage # "reporting"
  BY <1>1, <1>4 DEF ExecuteThrows, Typed, TypeOK, Runs
<1>5. CASE AlertDone(a)
  BY <1>2, <1>5 DEF AlertDone, Counts
<1>6. CASE ObserveNothing(a)
  BY <1>2, <1>6 DEF ObserveNothing, Counts
<1>7. CASE ObserveThrows(a)
  BY <1>2, <1>7, FailAndEndCounts DEF ObserveThrows, Counts
<1>8. ASSUME NEW k \in Tokens, BuildIntent(a, k)
      PROVE  Counts(a)
  <2>1. run'[a].stage = "policy"
    BY <1>1, <1>8 DEF BuildIntent, Typed, TypeOK, Runs
  <2> QED BY <1>8, <2>1 DEF BuildIntent, Counts
<1>9. CASE PolicyCheck(a)
  BY <1>2, <1>3, <1>9 DEF PolicyCheck, Counts
<1>10. CASE SimulationPasses(a)
  BY <1>2, <1>3, <1>10 DEF SimulationPasses, Counts
<1>11. CASE SimulationFails(a)
  BY <1>2, <1>11, FailAndEndCounts DEF SimulationFails, Counts
<1>12. CASE ReadNonce(a)
  <2>1. CASE run' = [run EXCEPT ![a].stage = "sending", ![a].nonce = Len(sent)]
    <3>1. run'[a].stage = "sending"
      BY <1>1, <2>1 DEF Typed, TypeOK, Runs
    <3> QED BY <1>12, <3>1 DEF ReadNonce, Counts
  <2> QED BY <1>4, <1>12, <2>1 DEF ReadNonce, Counts
<1>13. CASE Send(a)
  BY <1>3, <1>4, <1>13 DEF Send, Counts
<1>14. CASE ReceiptArrives(a)
  <2>1. run'[a].stage = "recording"
    BY <1>1, <1>14 DEF ReceiptArrives, Typed, TypeOK, Runs
  <2> QED BY <1>14, <2>1 DEF ReceiptArrives, Counts
<1>15. CASE WaitTimesOut(a)
  BY <1>4, <1>15 DEF WaitTimesOut, Counts
<1>16. CASE ReportOutcome(a)
  <2>1. CASE FailAndEnd(a)
    BY <1>16, <2>1, FailAndEndCounts DEF ReportOutcome
  <2>2. CASE ~FailAndEnd(a)
    BY <1>2, <1>3, <1>16, <2>2 DEF ReportOutcome, Counts, RecordSuccess, Reporting
  <2> QED BY <2>1, <2>2
<1>17. CASE Burn(a)
  BY <1>2, <1>17 DEF Burn, Counts
<1> HIDE DEF breaker, history, EndStates, Stages, Busy
<1> QED BY <1>5, <1>6, <1>7, <1>8, <1>9, <1>10, <1>11, <1>12, <1>13, <1>14, <1>15, <1>16, <1>17
        DEF ActorStep

LEMMA CountsKeep ==
    ASSUME Typed, FailuresCounted, NEW a \in Actors, Counts(a),
           \A b \in Actors \ {a} : run'[b] = run[b]
    PROVE  FailuresCounted'
<1>1. /\ consecutiveFailures \in Nat /\ tripped \in BOOLEAN /\ MaxFailures \in Nat \ {0}
      /\ Len(outcomes) \in Nat
  BY AgentAssumption DEF Typed, TypeOK
<1>2. Uncounted(a)' = 0 /\ \A b \in Actors : Uncounted(b) \in {0, 1}
  BY DEF Uncounted, Reporting, Counts
<1>3. \A b \in Actors \ {a} : Uncounted(b)' = Uncounted(b)
  BY DEF Uncounted, Reporting
<1>4. \A b \in Actors : Reporting(b, "EXECUTED")' => Reporting(b, "EXECUTED")
  BY DEF Reporting, Counts
<1>5. AllUncounted' = AllUncounted - Uncounted(a) /\ AllUncounted \in Nat /\ AllUncounted' \in Nat
  <2>1. CASE a = "pipeline"
    BY <1>2, <1>3, <2>1 DEF AllUncounted, Actors
  <2>2. CASE a = "runner"
    BY <1>2, <1>3, <2>2 DEF AllUncounted, Actors
  <2> QED BY <2>1, <2>2 DEF Actors
<1>6. \A k \in 1 .. Len(outcomes) : LastFailed(k)' <=> LastFailed(k)
  BY DEF LastFailed, Counts
<1>7. Len(outcomes') = Len(outcomes)
  BY DEF Counts
<1>8. CASE UNCHANGED <<consecutiveFailures, tripped>> /\ run[a].stage # "reporting"
  <2>1. Uncounted(a) = 0
    BY <1>8 DEF Uncounted, Reporting
  <2>2. AllUncounted' = AllUncounted
    BY <1>5, <2>1
  <2> QED BY <1>1, <1>4, <1>6, <1>7, <1>8, <2>2 DEF FailuresCounted
<1>9. CASE /\ consecutiveFailures' = consecutiveFailures + 1
           /\ tripped \/ consecutiveFailures + 1 >= MaxFailures => tripped'
  <2>1. consecutiveFailures' + AllUncounted' >= consecutiveFailures + AllUncounted
    BY <1>1, <1>2, <1>5, <1>9
  <2>2. \A k \in 1 .. Len(outcomes) :
           consecutiveFailures + AllUncounted >= k => consecutiveFailures' + AllUncounted' >= k
    BY <1>1, <1>5, <1>9, <2>1
  <2>3. consecutiveFailures' >= MaxFailures => tripped'
    BY <1>9
  <2>4. tripped => tripped'
    BY <1>9
  <2> QED BY <1>4, <1>6, <1>7, <2>2, <2>3, <2>4 DEF FailuresCounted
<1>10. CASE Reporting(a, "EXECUTED") /\ consecutiveFailures' = 0 /\ UNCHANGED tripped
  <2>1. \A k \in 1 .. Len(outcomes) : ~LastFailed(k)
    BY <1>10 DEF FailuresCounted
  <2> QED BY <1>1, <1>6, <1>7, <1>10, <2>1 DEF FailuresCounted
<1> QED BY <1>8, <1>9, <1>10 DEF Counts

LEMMA WriteRecordCounts ==
    ASSUME Typed, FailuresCounted, NEW a \in Actors, WriteRecord(a)
    PROVE  FailuresCounted'
<1> DEFINE beside == \E b \in Actors \ {a} :
                         run[b].stage = "reporting" /\ run[b].status = "EXECUTED"
           out == [status |-> run[a].status, beside |-> beside]
           Outs == [status : {"EXECUTED", "FAILED"}, beside : BOOLEAN]
<1>1. /\ consecutiveFailures \in Nat /\ tripped \in BOOLEAN /\ outcomes \in Seq(Outs)
      /\ Len(outcomes) \in Nat /\ UNCHANGED <<consecutiveFailures, tripped>>
  BY DEF Typed, TypeOK, WriteRecord, breaker
<1>2. run[a].stage = "recording" /\ run[a].status \in {"EXECUTED", "FAILED"}
      /\ run'[a].stage = "reporting" /\ run'[a].status = run[a].status
      /\ \A b \in Actors \ {a} : run'[b] = run[b]
  BY GotoGoesOn DEF WriteRecord, Typed, RunsFit, Stages
<1>3. out \in Outs /\ outcomes' = Append(outcomes, out)
  <2>1. beside \in BOOLEAN
    OBVIOUS
  <2>2. outcomes' = Append(outcomes, out)
    BY DEF WriteRecord
  <2> HIDE DEF beside
  <2> QED BY <1>2, <2>1, <2>2
<1>4. out = CleanFailure => run[a].status = "FAILED" /\ \A b \in Actors \ {a} : ~Reporting(b, "EXECUTED")
  <2>1. ASSUME out = CleanFailure PROVE run[a].status = "FAILED" /\ beside = FALSE
    <3> HIDE DEF beside
    <3>1. out.status = "FAILED" /\ out.beside = FALSE
      BY <2>1 DEF CleanFailure
    <3> QED BY <3>1
  <2> QED BY <2>1 DEF Reporting
<1> HIDE DEF out, Outs, beside
<1>5. /\ outcomes' \in Seq(Outs) /\ Len(outcomes') = Len(outcomes) + 1
      /\ \A n \in 1 .. Len(outcomes) : outcomes'[n] = outcomes[n]
      /\ outcomes'[Len(outcomes) + 1] = out
  BY <1>1, <1>3, AppendProperties
<1>6. Uncounted(a) = 0 /\ \A b \in Actors : Uncounted(b) \in {0, 1}
  BY <1>2 DEF Uncounted, Reporting
<1>7. \A b \in Actors \ {a} : Uncounted(b)' = Uncounted(b)
  BY <1>2 DEF Uncounted, Reporting
<1>8. AllUncounted' = AllUncounted + Uncounted(a)' /\ AllUncounted \in Nat
  <2>1. Uncounted(a)' \in {0, 1}
    BY DEF Uncounted
  <2>2. CASE a = "pipeline"
    BY <1>6, <1>7, <2>1, <2>2 DEF AllUncounted, Actors
  <2>3. CASE a = "runner"
    BY <1>6, <1>7, <2>1, <2>3 DEF AllUncounted, Actors
  <2> QED BY <2>2, <2>3 DEF Actors
<1>9. ASSUME NEW k \in 1 .. Len(outcomes'), LastFailed(k)'
      PROVE  /\ (tripped \/ consecutiveFailures + AllUncounted >= k)'
             /\ \A b \in Actors : ~Reporting(b, "EXECUTED")'
  <2>1. out = CleanFailure
    <3>1. Len(outcomes) + 1 \in Len(outcomes') - k + 1 .. Len(outcomes')
      BY <1>1, <1>5
    <3> QED BY <1>5, <1>9, <3>1 DEF LastFailed
  <2>2. Uncounted(a)' = 1
    BY <1>2, <1>4, <2>1 DEF Uncounted, Reporting
  <2>3. \A b \in Actors : ~Reporting(b, "EXECUTED")'
    BY <1>2, <1>4, <2>1 DEF Reporting
  <2>4. CASE k = 1
    BY <1>1, <1>8, <2>2, <2>3, <2>4
  <2>5. CASE k > 1
    <3> DEFINE j == k - 1
    <3>1. j \in 1 .. Len(outcomes)
      BY <1>1, <1>5, <2>5
    <3>2. LastFailed(j)
      <4>1. ASSUME NEW n \in Len(outcomes) - j + 1 .. Len(outcomes)
            PROVE  outcomes[n] = CleanFailure
        <5>1. n \in Len(outcomes') - k + 1 .. Len(outcomes') /\ n \in 1 .. Len(outcomes)
          BY <1>1, <1>5, <3>1
        <5> QED BY <1>5, <1>9, <5>1 DEF LastFailed
      <4> QED BY <4>1 DEF LastFailed
    <3>3. tripped \/ consecutiveFailures + AllUncounted >= j
      BY <3>1, <3>2 DEF FailuresCounted
    <3>4. consecutiveFailures + AllUncounted >= j => consecutiveFailures' + AllUncounted' >= k
      BY <1>1, <1>8, <2>2
    <3> QED BY <1>1, <2>3, <3>3, <3>4
  <2> QED BY <1>1, <1>5, <2>4, <2>5
<1>10. (consecutiveFailures >= MaxFailures => tripped)'
  BY <1>1 DEF FailuresCounted
<1> QED BY <1>9, <1>10 DEF FailuresCounted

LEMMA FailuresStep ==
    ASSUME Typed, FailuresCounted, [Next]_vars
    PROVE  FailuresCounted'
<1> USE DEF breaker, chain, files, bounds, history
<1>1. ASSUME UNCHANGED <<outcomes, consecutiveFailures, tripped>>, NEW A \in SUBSET Actors,
             \A b \in A : run[b].stage # "reporting" /\ run'[b].stage # "reporting",
             \A b \in Actors \ A : run'[b] = run[b]
      PROVE  FailuresCounted'
  <2>1. \A b \in Actors : Uncounted(b)' = Uncounted(b)
    BY <1>1 DEF Uncounted, Reporting
  <2>2. AllUncounted' = AllUncounted
    BY <2>1 DEF AllUncounted, Actors
  <2>3. \A b \in Actors : Reporting(b, "EXECUTED")' => Reporting(b, "EXECUTED")
    BY <1>1 DEF Reporting
  <2> QED BY <1>1, <2>2, <2>3 DEF FailuresCounted, LastFailed
<1>2. ASSUME NEW a \in Actors, NEW r, run' = [run EXCEPT ![a] = r], r.stage = "observing",
             ~Busy(a), UNCHANGED <<outcomes, consecutiveFailures, tripped>>
      PROVE  FailuresCounted'
  <2>1. run'[a] = r /\ \A b \in Actors \ {a} : run'[b] = run[b]
    BY <1>2 DEF Typed, TypeOK
  <2>2. {a} \in SUBSET Actors
        /\ \A b \in {a} : run[b].stage # "reporting" /\ run'[b].stage # "reporting"
    BY <1>2, <2>1 DEF Busy
  <2> QED BY <1>1, <1>2, <2>1, <2>2
<1>3. CASE UNCHANGED <<run, outcomes, consecutiveFailures, tripped>>
  <2>1. {} \in SUBSET Actors
    OBVIOUS
  <2> QED BY <1>1, <1>3, <2>1
<1>4. ASSUME NEW p \in Pools, NEW b \in 1 .. MaxBlock, OnUpdate(p, b)
      PROVE  FailuresCounted'
  <2> DEFINE r == [Idle EXCEPT !.stage = "observing", !.source = p, !.block = b]
  <2>1. r.stage = "observing" /\ run' = [run EXCEPT !["pipeline"] = r]
    BY <1>4 DEF OnUpdate, Idle
  <2> HIDE DEF r
  <2> QED BY <1>2, <1>4, <2>1 DEF OnUpdate, Actors
<1>5. ASSUME NEW t \in Tasks, NEW manual \in BOOLEAN, BeginTask(t, manual), ~Busy("runner"),
             UNCHANGED <<outcomes, consecutiveFailures, tripped>>
      PROVE  FailuresCounted'
  <2> DEFINE r == [Idle EXCEPT !.stage = "observing", !.source = t, !.manual = manual]
  <2>1. r.stage = "observing" /\ run' = [run EXCEPT !["runner"] = r]
    BY <1>5 DEF BeginTask, Idle
  <2> HIDE DEF r
  <2> QED BY <1>2, <1>5, <2>1 DEF Actors
<1>6. CASE RunDueTasks
  BY <1>5, <1>6 DEF RunDueTasks, Tasks
<1>7. ASSUME NEW t \in Tasks, ManualRun(t)
      PROVE  FailuresCounted'
  BY <1>3, <1>5, <1>7 DEF ManualRun
<1>8. ASSUME NEW a \in Actors, ActorStep(a)
      PROVE  FailuresCounted'
  BY <1>8, ActorStepCounts, ActorStepShape, CountsKeep, WriteRecordCounts
<1>9. CASE Restart
  <2>1. Len(outcomes') = 0 /\ consecutiveFailures' = 0 /\ MaxFailures \in Nat \ {0}
    BY <1>9, AgentAssumption DEF Restart
  <2> QED BY <2>1 DEF FailuresCounted
<1>10. CASE Mine \/ (\E t \in Tasks : TaskComesDue(t)) \/ (\E k \in Tokens : GuardRecovers(k))
  BY <1>3, <1>10 DEF Mine, TaskComesDue, GuardRecovers
<1>11. CASE UNCHANGED vars
  BY <1>3, <1>11 DEF vars
<1> QED BY <1>4, <1>6, <1>7, <1>8, <1>9, <1>10, <1>11 DEF Next, Surroundings

\* MAX_CONSECUTIVE_FAILURES swaps in a row that failed trip the breaker once reported,
\* whichever actors made them, unless one ended beside a success that the other actor had
\* yet to report (circuit-breaker.ts, recordSuccess and recordFailure).
THEOREM EveryFailureSeen == Spec => []BreakerSeesEveryFailure
<1>1. Init => FailuresCounted
  <2> SUFFICES ASSUME Init PROVE FailuresCounted
    OBVIOUS
  <2>1. Len(outcomes) = 0 /\ consecutiveFailures = 0 /\ MaxFailures \in Nat \ {0}
    BY AgentAssumption DEF Init
  <2> QED BY <2>1 DEF FailuresCounted
<1>2. Typed /\ FailuresCounted => BreakerSeesEveryFailure
  <2> SUFFICES ASSUME Typed, FailuresCounted, Len(outcomes) >= MaxFailures,
                      \A a \in Actors : run[a].stage # "reporting",
                      \A n \in Len(outcomes) - MaxFailures + 1 .. Len(outcomes) :
                         outcomes[n] = [status |-> "FAILED", beside |-> FALSE]
               PROVE  tripped
    BY DEF BreakerSeesEveryFailure
  <2>1. MaxFailures \in 1 .. Len(outcomes) /\ consecutiveFailures \in Nat
    BY AgentAssumption DEF Typed, TypeOK
  <2>2. AllUncounted = 0
    BY DEF AllUncounted, Uncounted, Reporting, Actors
  <2>3. LastFailed(MaxFailures)
    BY DEF LastFailed, CleanFailure
  <2>4. tripped \/ consecutiveFailures + AllUncounted >= MaxFailures
    BY <2>1, <2>3 DEF FailuresCounted
  <2> QED BY <2>1, <2>2, <2>4 DEF FailuresCounted
<1> QED BY <1>1, <1>2, FailuresStep, AlwaysTyped, PTL DEF Spec

================================================================================
