---------------------- MODULE TranscriptProcessingProofs ----------------------
(***************************************************************************)
(* For every set of providers, every token count and every safe range: the *)
(* type invariant, UsageAccounted, CancellationWins, and that process      *)
(* implements the contract of JobProcessor.                                *)
(*                                                                         *)
(* UsageAccounted speaks of sums that are computed by recursion over the   *)
(* five prompts.  SumOfFive and TotalOfFive unfold them; what is left is   *)
(* arithmetic.  ProcInv adds what every await of process knows: how many   *)
(* stages have been reported and prompts answered, and that only an abort  *)
(* or the timer makes the SDK reject a request as aborted.                 *)
(***************************************************************************)
EXTENDS TranscriptProcessing, TLAPS

USE ProcessingAssumption

UsageRecord == [input : Int, output : Int, total : Int]

\* The usages of the prompts are a sequence of them.
Recorded == usages \in Seq(UsageRecord)

\* Where process is tells what it has done.
Placed ==
    /\ outcome.kind = "running" <=> pc # "done"
    /\ pc \in {"start", "lookup", "normalizing"} => stages = 0
    /\ pc \in {"heartbeat", "renewing", "statistics"} => stages = 1
    /\ pc \in {"prompt", "request", "build", "compose"} => stages = 2
    /\ pc \in {"start", "lookup", "normalizing", "heartbeat", "renewing",
               "statistics"} => started = 0
    /\ pc = "prompt" => started = Len(usages) /\ started < 5
    /\ pc = "request" => started = Len(usages) + 1

\* A request has been sent or is settled, as aborted only if it was.
RequestKnown ==
    /\ pc = "request" => request.kind # "none"
    /\ request.kind = "user-abort" => requestController

SumOfTokens(us) ==
    us[1].input + us[1].output + us[2].input + us[2].output
    + us[3].input + us[3].output + us[4].input + us[4].output
    + us[5].input + us[5].output

\* UsageAccounted, its sum unfolded.
Accounted ==
    /\ outcome.code # "UNEXPECTED"
    /\ pc \in {"build", "compose"} \/ outcome.kind = "returned" =>
          /\ Len(usages) = 5
          /\ totals.total = SumOfTokens(usages)
          /\ totals.total \in 0 .. MaxSafe

ProcInv == TypeOK /\ Recorded /\ Placed /\ RequestKnown /\ Accounted

-----------------------------------------------------------------------------
(* The sums over the five prompts.                                         *)

\* The pipeline has five prompts.
LEMMA PromptCount == Len(Prompts) = 5
BY DEF Prompts

\* The fold over the prompts is five checked additions.
LEMMA SumOfFive ==
    ASSUME NEW field \in [1 .. 5 -> Int]
    PROVE  sumOf(field) =
           checkedAdd(checkedAdd(checkedAdd(checkedAdd(checkedAdd(0,
               field[1]), field[2]), field[3]), field[4]), field[5])
<1> DEFINE s1 == checkedAdd(0, field[1])
           s2 == checkedAdd(s1, field[2])
           s3 == checkedAdd(s2, field[3])
           s4 == checkedAdd(s3, field[4])
           s5 == checkedAdd(s4, field[5])
           g == [i \in 0 .. 5 |-> IF i = 0 THEN 0
                             ELSE IF i = 1 THEN s1
                             ELSE IF i = 2 THEN s2
                             ELSE IF i = 3 THEN s3
                             ELSE IF i = 4 THEN s4 ELSE s5]
           IsSum(h) == h = [i \in 0 .. Len(Prompts) |->
                        IF i = 0 THEN 0 ELSE checkedAdd(h[i - 1], field[i])]
           sum == CHOOSE h : IsSum(h)
<1> HIDE DEF s1, s2, s3, s4, s5
<1>1. IsSum(g)
  <2>1. /\ g[0] = 0 /\ g[1] = s1 /\ g[2] = s2
        /\ g[3] = s3 /\ g[4] = s4 /\ g[5] = s5
    OBVIOUS
  <2> DEFINE e == [i \in 0 .. Len(Prompts) |->
                      IF i = 0 THEN 0 ELSE checkedAdd(g[i - 1], field[i])]
  <2>2. DOMAIN e = 0 .. 5
    BY PromptCount
  <2>3. ASSUME NEW i \in 0 .. 5 PROVE g[i] = e[i]
    <3> HIDE DEF g
    <3>1. e[i] = IF i = 0 THEN 0 ELSE checkedAdd(g[i - 1], field[i])
      BY PromptCount
    <3>2. /\ 1 - 1 = 0 /\ 2 - 1 = 1 /\ 3 - 1 = 2 /\ 4 - 1 = 3 /\ 5 - 1 = 4
      OBVIOUS
    <3> HIDE DEF e
    <3>3. i = 0 \/ i = 1 \/ i = 2 \/ i = 3 \/ i = 4 \/ i = 5
      OBVIOUS
    <3> QED
      BY <2>1, <3>1, <3>2, <3>3, Zenon DEF s1, s2, s3, s4, s5
  <2> QED
    BY <2>2, <2>3, PromptCount
<1> HIDE DEF IsSum, g
<1>2. IsSum(sum)
  BY <1>1, Zenon
<1>3. sumOf(field) = sum[Len(Prompts)]
  BY Zenon DEF sumOf, IsSum
<1> HIDE DEF sum
<1>4. /\ sum[0] = 0
      /\ sum[1] = checkedAdd(sum[0], field[1])
      /\ sum[2] = checkedAdd(sum[1], field[2])
      /\ sum[3] = checkedAdd(sum[2], field[3])
      /\ sum[4] = checkedAdd(sum[3], field[4])
      /\ sum[5] = checkedAdd(sum[4], field[5])
  BY <1>2, PromptCount DEF IsSum
<1> QED
  BY <1>3, <1>4, PromptCount

\* A sum that is not refused is the sum of the counts, within the safe range.
LEMMA CheckedAddSafe ==
    ASSUME NEW left \in Int, NEW right \in Int
    PROVE  /\ checkedAdd(left, right) \in Int
           /\ checkedAdd(left, right) >= 0 =>
                 /\ checkedAdd(left, right) = left + right
                 /\ left >= 0 /\ right >= 0
                 /\ safe(left + right)
BY DEF checkedAdd, safe

\* A sum that was not refused is the sum, and a safe integer.
LEMMA SumOfSafe ==
    ASSUME NEW field \in [1 .. 5 -> Int]
    PROVE  /\ sumOf(field) \in Int
           /\ sumOf(field) >= 0 =>
                 /\ sumOf(field) = field[1] + field[2] + field[3] + field[4]
                                   + field[5]
                 /\ safe(sumOf(field))
<1> DEFINE s1 == checkedAdd(0, field[1])
           s2 == checkedAdd(s1, field[2])
           s3 == checkedAdd(s2, field[3])
           s4 == checkedAdd(s3, field[4])
           s5 == checkedAdd(s4, field[5])
<1>1. /\ field[1] \in Int /\ field[2] \in Int /\ field[3] \in Int
      /\ field[4] \in Int /\ field[5] \in Int
  OBVIOUS
<1>2. s1 \in Int /\ (s1 >= 0 => s1 = field[1])
  BY <1>1 DEF checkedAdd, safe
<1> HIDE DEF s1
<1>3. s2 \in Int /\ (s2 >= 0 => s1 >= 0 /\ s2 = s1 + field[2])
  BY <1>1, <1>2, CheckedAddSafe
<1> HIDE DEF s2
<1>4. s3 \in Int /\ (s3 >= 0 => s2 >= 0 /\ s3 = s2 + field[3])
  BY <1>1, <1>3, CheckedAddSafe
<1> HIDE DEF s3
<1>5. s4 \in Int /\ (s4 >= 0 => s3 >= 0 /\ s4 = s3 + field[4])
  BY <1>1, <1>4, CheckedAddSafe
<1> HIDE DEF s4
<1>6. s5 \in Int /\ (s5 >= 0 => s4 >= 0 /\ s5 = s4 + field[5] /\ safe(s5))
  <2>1. /\ s5 \in Int
        /\ s5 >= 0 => s4 >= 0 /\ s5 = s4 + field[5] /\ safe(s4 + field[5])
    BY <1>1, <1>5, CheckedAddSafe
  <2> HIDE DEF s5
  <2> QED
    BY <1>1, <1>5, <2>1, Zenon
<1>7. sumOf(field) = s5
  BY SumOfFive DEF s1, s2, s3, s4
<1> HIDE DEF s5
<1> QED
  BY <1>1, <1>2, <1>3, <1>4, <1>5, <1>6, <1>7

\* Totals that mergeUsageTotals does not refuse are the sums of the counts and
\* pass the schema.
LEMMA MergedTotals ==
    ASSUME NEW us \in Seq(UsageRecord), Len(us) = 5
    PROVE  LET merged == mergeUsageTotals(us) IN
           /\ merged \in UsageRecord
           /\ merged.total >= 0 =>
                 /\ aiUsageSchema(merged)
                 /\ merged.total = SumOfTokens(us)
                 /\ merged.total \in 0 .. MaxSafe
<1> DEFINE ins == [i \in 1 .. Len(us) |-> us[i].input]
           outs == [i \in 1 .. Len(us) |-> us[i].output]
           input == sumOf(ins)
           output == sumOf(outs)
           merged == mergeUsageTotals(us)
<1>1. \A i \in 1 .. 5 : us[i] \in UsageRecord
  OBVIOUS
<1>2. ins \in [1 .. 5 -> Int] /\ outs \in [1 .. 5 -> Int]
  BY <1>1 DEF UsageRecord
<1>3. /\ ins[1] = us[1].input /\ ins[2] = us[2].input
      /\ ins[3] = us[3].input /\ ins[4] = us[4].input
      /\ ins[5] = us[5].input
      /\ outs[1] = us[1].output /\ outs[2] = us[2].output
      /\ outs[3] = us[3].output /\ outs[4] = us[4].output
      /\ outs[5] = us[5].output
  OBVIOUS
<1>4. /\ us[1].input \in Int /\ us[2].input \in Int /\ us[3].input \in Int
      /\ us[4].input \in Int /\ us[5].input \in Int
      /\ us[1].output \in Int /\ us[2].output \in Int
      /\ us[3].output \in Int /\ us[4].output \in Int
      /\ us[5].output \in Int
  BY <1>1 DEF UsageRecord
<1> HIDE DEF ins, outs
<1>5. /\ input \in Int
      /\ input >= 0 => /\ input = ins[1] + ins[2] + ins[3] + ins[4] + ins[5]
                       /\ safe(input)
  BY <1>2, SumOfSafe
<1>6. /\ output \in Int
      /\ output >= 0 =>
            /\ output = outs[1] + outs[2] + outs[3] + outs[4] + outs[5]
            /\ safe(output)
  BY <1>2, SumOfSafe
<1>7. merged = [input |-> input, output |-> output,
               total |-> checkedAdd(input, output)]
  BY DEF mergeUsageTotals, ins, outs
<1> HIDE DEF input, output
<1>8. /\ checkedAdd(input, output) \in Int
      /\ checkedAdd(input, output) >= 0 =>
            /\ checkedAdd(input, output) = input + output
            /\ input >= 0 /\ output >= 0
            /\ safe(input + output)
  BY <1>5, <1>6, CheckedAddSafe
<1>9. merged \in UsageRecord
  BY <1>5, <1>6, <1>7, <1>8 DEF UsageRecord
<1>10. ASSUME merged.total >= 0
       PROVE  /\ aiUsageSchema(merged)
              /\ merged.total = SumOfTokens(us)
              /\ merged.total \in 0 .. MaxSafe
  <2>1. /\ merged.input = input /\ merged.output = output
        /\ merged.total = checkedAdd(input, output)
    BY <1>7
  <2> HIDE DEF merged
  <2>2. /\ merged.total = input + output
        /\ safe(input) /\ safe(output) /\ safe(input + output)
        /\ input = ins[1] + ins[2] + ins[3] + ins[4] + ins[5]
        /\ output = outs[1] + outs[2] + outs[3] + outs[4] + outs[5]
    BY <1>5, <1>6, <1>8, <1>10, <2>1
  <2>3. aiUsageSchema(merged)
    BY <2>1, <2>2 DEF aiUsageSchema
  <2>4. merged.total = SumOfTokens(us)
    <3>1. SumOfTokens(us) =
             ins[1] + outs[1] + ins[2] + outs[2] + ins[3] + outs[3]
             + ins[4] + outs[4] + ins[5] + outs[5]
      BY <1>3, Zenon DEF SumOfTokens
    <3>2. /\ ins[1] \in Int /\ ins[2] \in Int /\ ins[3] \in Int
          /\ ins[4] \in Int /\ ins[5] \in Int
          /\ outs[1] \in Int /\ outs[2] \in Int /\ outs[3] \in Int
          /\ outs[4] \in Int /\ outs[5] \in Int
      BY <1>2
    <3>3. PICK a1 \in Int, a2 \in Int, a3 \in Int, a4 \in Int, a5 \in Int,
               b1 \in Int, b2 \in Int, b3 \in Int, b4 \in Int, b5 \in Int :
                  /\ ins[1] = a1 /\ ins[2] = a2 /\ ins[3] = a3
                  /\ ins[4] = a4 /\ ins[5] = a5
                  /\ outs[1] = b1 /\ outs[2] = b2 /\ outs[3] = b3
                  /\ outs[4] = b4 /\ outs[5] = b5
      BY <3>2, Zenon
    <3>4. a1 + b1 + a2 + b2 + a3 + b3 + a4 + b4 + a5 + b5
          = (a1 + a2 + a3 + a4 + a5) + (b1 + b2 + b3 + b4 + b5)
      OBVIOUS
    <3> QED
      BY <2>2, <3>1, <3>3, <3>4, Zenon
  <2> QED
    BY <2>2, <2>3, <2>4 DEF safe
<1> QED
  BY <1>9, <1>10

\* The recursive sum of UsageAccounted over five usages.
LEMMA TotalOfFive ==
    ASSUME Recorded, Accounted
    PROVE  UsageAccounted
<1> DEFINE tokens == [i \in 1 .. Len(Prompts) |->
                        usages[i].input + usages[i].output]
           s1 == tokens[1]
           s2 == s1 + tokens[2]
           s3 == s2 + tokens[3]
           s4 == s3 + tokens[4]
           s5 == s4 + tokens[5]
           g == [i \in 0 .. 5 |-> IF i = 0 THEN 0
                             ELSE IF i = 1 THEN s1
                             ELSE IF i = 2 THEN s2
                             ELSE IF i = 3 THEN s3
                             ELSE IF i = 4 THEN s4 ELSE s5]
           IsSum(h) == h = [i \in 0 .. Len(Prompts) |->
                              IF i = 0 THEN 0 ELSE h[i - 1] + tokens[i]]
           sum == CHOOSE h : IsSum(h)
<1> SUFFICES ASSUME pc \in {"build", "compose"} \/ outcome.kind = "returned"
             PROVE  /\ DOMAIN usages = 1 .. Len(Prompts)
                    /\ totals.total = sum[Len(Prompts)]
                    /\ totals.total \in 0 .. MaxSafe
  BY Zenon DEF UsageAccounted, Accounted
<1>1. Len(usages) = 5 /\ \A i \in 1 .. 5 : usages[i] \in UsageRecord
  BY DEF Accounted, Recorded
<1>2. /\ tokens[1] = usages[1].input + usages[1].output
      /\ tokens[2] = usages[2].input + usages[2].output
      /\ tokens[3] = usages[3].input + usages[3].output
      /\ tokens[4] = usages[4].input + usages[4].output
      /\ tokens[5] = usages[5].input + usages[5].output
  BY PromptCount
<1>3. tokens \in [1 .. 5 -> Int]
  BY <1>1, PromptCount DEF UsageRecord
<1>4. /\ usages[1].input \in Int /\ usages[2].input \in Int
      /\ usages[3].input \in Int /\ usages[4].input \in Int
      /\ usages[5].input \in Int /\ usages[1].output \in Int
      /\ usages[2].output \in Int /\ usages[3].output \in Int
      /\ usages[4].output \in Int /\ usages[5].output \in Int
  BY <1>1 DEF UsageRecord
<1> HIDE DEF tokens
<1>5. IsSum(g)
  <2>1. /\ g[0] = 0 /\ g[1] = s1 /\ g[2] = s2
        /\ g[3] = s3 /\ g[4] = s4 /\ g[5] = s5
    OBVIOUS
  <2> DEFINE e == [i \in 0 .. Len(Prompts) |->
                      IF i = 0 THEN 0 ELSE g[i - 1] + tokens[i]]
  <2>2. DOMAIN e = 0 .. 5
    BY PromptCount
  <2>3. ASSUME NEW i \in 0 .. 5 PROVE g[i] = e[i]
    <3> HIDE DEF g
    <3>1. e[i] = IF i = 0 THEN 0 ELSE g[i - 1] + tokens[i]
      BY PromptCount
    <3> HIDE DEF e
    <3>2. i = 0 \/ i = 1 \/ i = 2 \/ i = 3 \/ i = 4 \/ i = 5
      OBVIOUS
    <3>3. /\ s1 \in Int /\ s2 \in Int /\ s3 \in Int /\ s4 \in Int
      BY <1>3
    <3> QED
      BY <1>3, <2>1, <3>1, <3>2, <3>3
  <2> QED
    BY <2>2, <2>3, PromptCount
<1> HIDE DEF IsSum, g
<1>6. IsSum(sum)
  BY <1>5, Zenon
<1> HIDE DEF sum
<1>7. /\ sum[0] = 0
      /\ sum[1] = sum[0] + tokens[1]
      /\ sum[2] = sum[1] + tokens[2]
      /\ sum[3] = sum[2] + tokens[3]
      /\ sum[4] = sum[3] + tokens[4]
      /\ sum[5] = sum[4] + tokens[5]
  BY <1>6, PromptCount DEF IsSum
<1>8. totals.total = sum[5]
  BY <1>2, <1>4, <1>7 DEF Accounted, SumOfTokens
<1> QED
  BY <1>1, <1>8, PromptCount DEF Accounted, Recorded

-----------------------------------------------------------------------------
(* The steps.                                                              *)

RequestKinds == {"none", "open", "refusal", "valid"} \cup DefectiveContent
                \cup SdkErrors

\* The kinds of errors that process throws.
ThrownKinds == {"cancelled", "leaseLost", "retryable", "permanent"}

\* What is shown of every step: the invariant, that an abort is heeded, and
\* that it is a step of the contract.
StepOK ==
    /\ ProcInv'
    /\ AbortHeeded
    /\ [Contract!Next]_(Contract!jobVars)

\* The fields of the request under way.
LEMMA RequestType ==
    ASSUME TypeOK
    PROVE  request \in [kind : RequestKinds, input : Int, output : Int]
<1>1. CASE request \in {NoRequest, OpenRequest}
  BY <1>1 DEF NoRequest, OpenRequest, RequestKinds
<1>2. CASE request \in Answers \cup {[NoRequest EXCEPT !.kind = "user-abort"]}
  BY <1>2 DEF Answers, NoRequest, RequestKinds, SdkErrors
<1> QED
  BY <1>1, <1>2 DEF TypeOK

\* An error of the provider is a cancellation for the worker only if the SDK
\* rejected the request as aborted.
LEMMA AnswerErrors ==
    ASSUME NEW answer \in [kind : RequestKinds, input : Int, output : Int],
           answer.kind \notin {"none", "open", "user-abort"}
    PROVE  AnswerError(answer) # "WORKER_CANCELLED"
<1>1. CASE answer.kind = "refusal"
  BY <1>1 DEF AnswerError, DefectiveContent, SdkErrors
<1>2. CASE answer.kind \in DefectiveContent
  BY <1>2 DEF AnswerError, DefectiveContent, SdkErrors
<1>3. CASE answer.kind \in SdkErrors
  <2>1. AnswerError(answer) = mapOpenAIError(answer.kind)
    BY <1>3 DEF AnswerError, DefectiveContent, SdkErrors
  <2>2. mapOpenAIError(answer.kind) # "WORKER_CANCELLED"
    BY <1>3 DEF mapOpenAIError, SdkErrors
  <2> QED
    BY <2>1, <2>2
<1>4. CASE answer.kind = "valid"
  BY <1>4 DEF AnswerError, DefectiveContent, SdkErrors
<1> QED
  BY <1>1, <1>2, <1>3, <1>4 DEF RequestKinds

\* What a failed prompt ends with.
LEMMA FailedPrompt ==
    ASSUME NEW code, code # "WORKER_CANCELLED", code # "UNEXPECTED"
    PROVE  /\ workerError(code).kind \in {"retryable", "permanent"}
           /\ workerError(code).code # "UNEXPECTED"
BY DEF workerError, Ended

\* process throws, at an await or before the first one.
LEMMA Throws ==
    ASSUME ProcInv, pc # "done",
           NEW kind \in ThrownKinds, NEW code, code # "UNEXPECTED",
           outcome'.kind = kind, outcome'.code = code, pc' = "done",
           kind = "cancelled" => aborted,
           aborted /\ pc \in {"prompt", "request", "build", "compose"}
              => kind = "cancelled",
           aborted' = aborted \/ (aborted' = TRUE /\ kind = "leaseLost"),
           UNCHANGED <<provider, renderer, stages, usages, totals>>,
           started' \in 0 .. 5, started' >= started,
           aborted => started' = started,
           request' = request \/ request' = NoRequest,
           timer' \in {"off", "armed", "fired"},
           request' = request /\ timer = "fired" => timer' = "fired" \/ aborted
    PROVE  StepOK
<1> USE DEF ProcInv, TypeOK
<1>1. TypeOK'
  <2>1. aborted' \in BOOLEAN
    OBVIOUS
  <2>2. request' \in {NoRequest, OpenRequest} \cup Answers
                   \cup {[NoRequest EXCEPT !.kind = "user-abort"]}
    OBVIOUS
  <2>3. started' \in 0 .. Len(Prompts) /\ Len(usages') <= started'
    BY PromptCount DEF Recorded
  <2>4. aiUsageSchema(totals)' /\ \A i \in 1 .. Len(usages') : aiUsageSchema(usages'[i])
    BY DEF aiUsageSchema, safe
  <2> QED
    BY <2>1, <2>2, <2>3, <2>4 DEF ThrownKinds
<1>2. Recorded' /\ Placed' /\ Accounted'
  BY DEF Recorded, Placed, Accounted, ThrownKinds
<1>3. RequestKnown'
  BY DEF RequestKnown, requestController, NoRequest
<1>4. AbortHeeded
  BY DEF AbortHeeded
<1>5. Contract!Throw(kind)
  <2>1. outcome.kind = "running"
    BY DEF Placed
  <2> QED
    BY <2>1 DEF Contract!Throw
<1>6. [Contract!Next]_(Contract!jobVars)
  BY <1>5 DEF Contract!Next, ThrownKinds
<1> QED
  BY <1>1, <1>2, <1>3, <1>4, <1>6 DEF StepOK

\* A step that throws ends the processing with a truthful error.
LEMMA ThrowsOnly ==
    ASSUME ProcInv, pc # "done",
           NEW kind \in ThrownKinds, NEW code, code # "UNEXPECTED",
           Throw(kind, code),
           kind = "cancelled" => aborted,
           aborted /\ pc \in {"prompt", "request", "build", "compose"}
              => kind = "cancelled",
           aborted' = aborted \/ (aborted' = TRUE /\ kind = "leaseLost"),
           UNCHANGED <<setup, stages, ai>>
    PROVE  StepOK
<1>1. outcome'.kind = kind /\ outcome'.code = code /\ pc' = "done"
  BY DEF Throw, Ended
<1>2. started' \in 0 .. 5 /\ started' >= started
  BY PromptCount DEF ProcInv, TypeOK, ai
<1>3. timer' \in {"off", "armed", "fired"}
  BY DEF ProcInv, TypeOK, ai
<1> QED
  BY <1>1, <1>2, <1>3, Throws DEF setup, ai

\* process goes on to its next await and nothing else happens.
LEMMA GoesOn ==
    ASSUME ProcInv, GoTo(pc'),
           <<pc, pc'>> \in {<<"start", "lookup">>, <<"lookup", "normalizing">>,
                            <<"heartbeat", "renewing">>,
                            <<"renewing", "statistics">>,
                            <<"build", "compose">>},
           UNCHANGED <<setup, stages, aborted, ai>>
    PROVE  StepOK
<1> USE DEF ProcInv, GoTo, setup, ai
<1>1. TypeOK'
  BY DEF TypeOK, aiUsageSchema, safe
<1>2. Recorded' /\ Placed' /\ Accounted'
  BY DEF Recorded, Placed, Accounted
<1>3. RequestKnown'
  BY DEF RequestKnown, requestController
<1> QED
  BY <1>1, <1>2, <1>3 DEF StepOK, AbortHeeded, Contract!jobVars

\* A stage is stored, or the store refuses.
LEMMA ReportsStage ==
    ASSUME ProcInv,
           NEW at, NEW next,
           <<at, next>> \in {<<"normalizing", "heartbeat">>,
                             <<"statistics", "prompt">>},
           ReportStage(at, next)
    PROVE  StepOK
<1> USE DEF ReportStage, setup, ai
<1>1. CASE stages' = stages + 1 /\ GoTo(next)
  <2> USE <1>1 DEF ProcInv, GoTo
  <2>1. TypeOK'
    BY DEF TypeOK, Placed, aiUsageSchema, safe
  <2>2. Recorded' /\ Accounted' /\ RequestKnown'
    BY DEF Recorded, Accounted, RequestKnown, requestController
  <2>3. Placed'
    BY DEF Placed, TypeOK, Recorded
  <2>4. Contract!ReportStage
    BY DEF Contract!ReportStage, Placed
  <2> QED
    BY <2>1, <2>2, <2>3, <2>4 DEF StepOK, AbortHeeded, Contract!Next
<1>2. CASE UNCHANGED stages /\ (Throw("leaseLost", "none")
                                \/ Throw("retryable", "DATABASE"))
  <2>1. pc # "done" /\ ~(pc \in {"prompt", "request", "build", "compose"})
    OBVIOUS
  <2> QED
    BY <1>2, <2>1, ThrowsOnly DEF ThrownKinds
<1> QED
  BY <1>1, <1>2

\* An answer is refused, or is one of the first four, or the fifth with totals
\* that are accounted for: the schema never refuses what the pipeline accepts.
LEMMA Accepts ==
    ASSUME ProcInv, Len(usages) < 5,
           NEW input \in Int, NEW output \in Int,
           AcceptAnswer(Usage(input, output))
    PROVE  \/ FailPrompt("AI_VALIDATION_ERROR")
           \/ /\ usages' = Append(usages, Usage(input, output))
              /\ aiUsageSchema(Usage(input, output))
              /\ \/ /\ Len(usages') < 5
                    /\ pc' = "prompt"
                    /\ UNCHANGED <<totals, outcome>>
                 \/ /\ Len(usages') = 5
                    /\ pc' = "build"
                    /\ aiUsageSchema(totals)'
                    /\ (totals.total = SumOfTokens(usages))'
                    /\ totals'.total \in 0 .. MaxSafe
                    /\ UNCHANGED outcome
<1> DEFINE u == Usage(input, output)
           us == Append(usages, u)
           merged == mergeUsageTotals(us)
<1>1. /\ u \in UsageRecord
      /\ u.input = input /\ u.output = output /\ u.total = input + output
  BY DEF Usage, UsageRecord
<1>2. usages \in Seq(UsageRecord)
  BY DEF ProcInv, Recorded
<1> HIDE DEF u
<1>3. us \in Seq(UsageRecord) /\ Len(us) = Len(usages) + 1
  BY <1>1, <1>2
<1>4. CASE ~validTokens(u.input, u.output)
  BY <1>4 DEF AcceptAnswer, u
<1>5. CASE validTokens(u.input, u.output) /\ Len(us) < 5
  <2>1. aiUsageSchema(u)
    BY <1>1, <1>5 DEF aiUsageSchema, validTokens, safe
  <2>2. /\ usages' = us
        /\ UNCHANGED totals
        /\ GoTo("prompt")
    BY <1>5, PromptCount DEF AcceptAnswer, u
  <2> QED
    BY <1>5, <2>1, <2>2 DEF GoTo, u
<1>6. CASE validTokens(u.input, u.output) /\ ~(Len(us) < 5)
  <2>1. aiUsageSchema(u)
    BY <1>1, <1>6 DEF aiUsageSchema, validTokens, safe
  <2>2. Len(us) = 5
    BY <1>2, <1>3, <1>6
  <2>3. /\ merged \in UsageRecord
        /\ merged.total >= 0 =>
              /\ aiUsageSchema(merged)
              /\ merged.total = SumOfTokens(us)
              /\ merged.total \in 0 .. MaxSafe
    BY <1>3, <2>2, MergedTotals
  <2>4. \A i \in 1 .. Len(us) : aiUsageSchema(us[i])
    <3>1. \A i \in 1 .. Len(usages) : us[i] = usages[i]
      BY <1>2
    <3>2. us[Len(us)] = u
      BY <1>2, <1>3
    <3>3. \A i \in 1 .. Len(us) : i \in 1 .. Len(usages) \/ i = Len(us)
      BY <1>2, <1>3
    <3>4. \A i \in 1 .. Len(usages) : aiUsageSchema(usages[i])
      BY DEF ProcInv, TypeOK
    <3> HIDE DEF us
    <3> QED
      BY <2>1, <3>1, <3>2, <3>3, <3>4, Zenon
  <2>5. CASE merged.total < 0
    <3>1. FailPrompt("AI_VALIDATION_ERROR")
      BY <1>6, <2>2, <2>5, PromptCount DEF AcceptAnswer, u
    <3> QED
      BY <3>1
  <2>6. CASE ~(merged.total < 0)
    <3>1. usages' = us /\ ParseResult(us, merged)
      BY <1>6, <2>2, <2>6, PromptCount DEF AcceptAnswer, u
    <3>2. merged.total >= 0
      BY <2>3, <2>6 DEF UsageRecord
    <3> HIDE DEF merged, us
    <3>3. totals' = merged /\ GoTo("build")
      BY <2>3, <2>4, <3>1, <3>2 DEF ParseResult
    <3>4. aiUsageSchema(totals)'
      BY <2>3, <3>2, <3>3 DEF aiUsageSchema, safe
    <3>5. (totals.total = SumOfTokens(usages))'
      BY <2>3, <3>1, <3>2, <3>3 DEF SumOfTokens
    <3> QED
      BY <2>1, <2>2, <2>3, <3>1, <3>2, <3>3, <3>4, <3>5 DEF GoTo, us, u
  <2> QED
    BY <2>5, <2>6
<1> QED
  BY <1>4, <1>5, <1>6

\* The rest of a prompt that was not aborted.
LEMMA AnswerAccepted ==
    ASSUME ProcInv, pc \in {"prompt", "request"}, ~aborted, aborted' = aborted,
           NEW input \in Int, NEW output \in Int,
           AcceptAnswer(Usage(input, output)),
           UNCHANGED <<provider, renderer, stages>>,
           started' = Len(usages) + 1, started' \in 0 .. 5,
           request' = request \/ request' = NoRequest,
           timer' \in {"off", "armed", "fired"},
           request' = request => timer' = timer
    PROVE  StepOK
<1>1. usages \in Seq(UsageRecord) /\ Len(usages) < 5
  BY DEF ProcInv, Recorded
<1>2. Usage(input, output) \in UsageRecord
  BY DEF Usage, UsageRecord
<1>3. CASE FailPrompt("AI_VALIDATION_ERROR")
  <2>1. /\ outcome'.kind = "permanent" /\ outcome'.code = "AI_VALIDATION_ERROR"
        /\ pc' = "done" /\ UNCHANGED <<usages, totals>>
    BY <1>3 DEF FailPrompt, workerError, Ended
  <2>2. started' >= started
    BY <1>1 DEF ProcInv, Placed
  <2> QED
    BY <2>1, <2>2, Throws DEF ThrownKinds
<1>4. CASE /\ usages' = Append(usages, Usage(input, output))
           /\ aiUsageSchema(Usage(input, output))
           /\ \/ /\ Len(usages') < 5
                 /\ pc' = "prompt"
                 /\ UNCHANGED <<totals, outcome>>
              \/ /\ Len(usages') = 5
                 /\ pc' = "build"
                 /\ aiUsageSchema(totals)'
                 /\ (totals.total = SumOfTokens(usages))'
                 /\ totals'.total \in 0 .. MaxSafe
                 /\ UNCHANGED outcome
  <2>1. usages' \in Seq(UsageRecord) /\ Len(usages') = Len(usages) + 1
    BY <1>1, <1>2, <1>4
  <2>2. \A i \in 1 .. Len(usages') : aiUsageSchema(usages'[i])
    <3>1. \A i \in 1 .. Len(usages) : usages'[i] = usages[i]
      BY <1>1, <1>4
    <3>2. usages'[Len(usages')] = Usage(input, output)
      BY <1>1, <1>4
    <3>3. \A i \in 1 .. Len(usages') :
             i \in 1 .. Len(usages) \/ i = Len(usages')
      BY <1>1, <2>1
    <3>4. \A i \in 1 .. Len(usages) : aiUsageSchema(usages[i])
      BY DEF ProcInv, TypeOK
    <3> QED
      BY <1>4, <3>1, <3>2, <3>3, <3>4, Zenon
  <2>3. TypeOK'
    <3>1. aiUsageSchema(totals)'
      BY <1>4 DEF ProcInv, TypeOK, aiUsageSchema, safe
    <3>2. outcome' = outcome /\ pc' \in {"prompt", "build"}
      BY <1>4
    <3>3. started' \in 0 .. Len(Prompts) /\ Len(usages') <= started'
      BY <1>1, <2>1, PromptCount
    <3>4. request' \in {NoRequest, OpenRequest} \cup Answers
                   \cup {[NoRequest EXCEPT !.kind = "user-abort"]}
      BY DEF ProcInv, TypeOK
    <3> QED
      BY <2>2, <3>1, <3>2, <3>3, <3>4 DEF ProcInv, TypeOK
  <2>4. Recorded' /\ Accounted'
    BY <1>4, <2>1 DEF Recorded, Accounted, ProcInv, Placed
  <2>5. Placed'
    BY <1>4, <2>1 DEF Placed, ProcInv
  <2>6. RequestKnown'
    BY <1>4 DEF ProcInv, RequestKnown, requestController, NoRequest
  <2>7. outcome'.kind = outcome.kind
    BY <1>4
  <2> QED
    BY <2>3, <2>4, <2>5, <2>6, <2>7 DEF StepOK, ProcInv, AbortHeeded, Contract!jobVars
<1> QED
  BY <1>1, <1>3, <1>4, Accepts

\* A processing that has not begun satisfies invariant and contract.
LEMMA InitOK == Init => ProcInv /\ Contract!Init
<1> SUFFICES ASSUME Init PROVE ProcInv /\ Contract!Init
  OBVIOUS
<1>1. /\ outcome.kind = "running" /\ outcome.code = "none"
      /\ request.kind = "none"
      /\ totals.input = 0 /\ totals.output = 0 /\ totals.total = 0
      /\ usages \in Seq(UsageRecord) /\ Len(usages) = 0
  BY DEF Init, Running, NoRequest, NoTotals, Usage
<1>2. TypeOK
  BY <1>1, PromptCount DEF Init, TypeOK, aiUsageSchema, safe
<1>3. Recorded /\ Placed /\ RequestKnown /\ Accounted
  BY <1>1 DEF Init, Recorded, Placed, RequestKnown, Accounted
<1> QED
  BY <1>1, <1>2, <1>3 DEF ProcInv, Init, Contract!Init

\* The steps before the first prompt.
LEMMA EarlySteps ==
    ASSUME ProcInv,
           \/ Start \/ LookupSource \/ ReportNormalizing \/ Heartbeat
           \/ Renewal \/ ReportStatistics
    PROVE  StepOK
<1>1. CASE Start \/ Heartbeat
  <2>1. CASE aborted
    BY <1>1, <2>1, ThrowsOnly DEF Start, Heartbeat, Cancelled, ThrownKinds
  <2>2. CASE ~aborted
    BY <1>1, <2>2, GoesOn DEF Start, Heartbeat, GoTo
  <2> QED
    BY <2>1, <2>2
<1>2. CASE LookupSource
  <2>1. CASE GoTo("normalizing")
    BY <1>2, <2>1, GoesOn DEF LookupSource, GoTo
  <2>2. CASE \/ Throw("permanent", "SOURCE_VERSION_NOT_FOUND")
             \/ Throw("permanent", "SOURCE_PROJECT_MISMATCH")
             \/ Throw("retryable", "DATABASE")
    BY <1>2, <2>2, ThrowsOnly DEF LookupSource, ThrownKinds
  <2> QED
    BY <1>2, <2>1, <2>2 DEF LookupSource
<1>3. CASE Renewal
  <2>1. CASE aborted' = aborted /\ aborted /\ Cancelled
    BY <1>3, <2>1, ThrowsOnly DEF Renewal, Cancelled, ThrownKinds
  <2>2. CASE aborted' = aborted /\ ~aborted /\ GoTo("statistics")
    BY <1>3, <2>2, GoesOn DEF Renewal, GoTo
  <2>3. CASE Throw("leaseLost", "none") /\ aborted' = TRUE
    BY <1>3, <2>3, ThrowsOnly DEF Renewal, ThrownKinds
  <2>4. CASE Throw("retryable", "DATABASE") /\ UNCHANGED aborted
    BY <1>3, <2>4, ThrowsOnly DEF Renewal, ThrownKinds
  <2> QED
    BY <1>3, <2>1, <2>2, <2>3, <2>4 DEF Renewal
<1>4. CASE ReportNormalizing \/ ReportStatistics
  BY <1>4, ReportsStage DEF ReportNormalizing, ReportStatistics
<1> QED
  BY <1>1, <1>2, <1>3, <1>4

\* Nothing but the request, the timer or the signal changes.
LEMMA Meanwhile ==
    ASSUME ProcInv,
           UNCHANGED <<provider, renderer, pc, stages, started, usages, totals,
                       outcome>>,
           \/ UNCHANGED <<request, timer>> /\ aborted' = TRUE /\ pc # "done"
           \/ UNCHANGED <<request, aborted>> /\ timer' = "fired"
           \/ /\ UNCHANGED <<aborted, timer>>
              /\ request' \in Answers
                    \cup {[NoRequest EXCEPT !.kind = "user-abort"]}
              /\ request'.kind # "none"
              /\ request'.kind = "user-abort" => requestController
    PROVE  StepOK
<1> USE DEF ProcInv
<1>1. TypeOK'
  BY DEF TypeOK, aiUsageSchema, safe
<1>2. Recorded' /\ Accounted' /\ Placed'
  BY DEF Recorded, Accounted, Placed
<1>3. RequestKnown'
  BY DEF RequestKnown, requestController
<1>4. AbortHeeded
  BY DEF AbortHeeded
<1>5. CASE aborted' = aborted
  BY <1>1, <1>2, <1>3, <1>4, <1>5 DEF StepOK, Contract!jobVars
<1>6. CASE aborted' = TRUE /\ pc # "done"
  <2>1. Contract!Abort
    BY <1>6 DEF Contract!Abort, Placed
  <2> QED
    BY <1>1, <1>2, <1>3, <1>4, <2>1 DEF StepOK, Contract!Next
<1> QED
  BY <1>5, <1>6

\* A prompt begins: OpenAI sends a request, the mock answers at once.
LEMMA Generates ==
    ASSUME ProcInv, GenerateOpenAI \/ GenerateMock
    PROVE  StepOK
<1>0. started \in Nat /\ started = Len(usages) /\ started < 5
      /\ usages \in Seq(UsageRecord) /\ pc = "prompt" /\ stages = 2
      /\ timer \in {"off", "armed", "fired"} /\ outcome.kind = "running"
  BY DEF ProcInv, TypeOK, Placed, Recorded, GenerateOpenAI, GenerateMock
<1>1. CASE aborted
  <2>1. /\ Cancelled
        /\ UNCHANGED <<setup, stages, aborted, request, started, usages,
                       totals>>
        /\ timer' \in {timer, "armed"}
    BY <1>1 DEF GenerateOpenAI, GenerateMock
  <2>2. timer' \in {"off", "armed", "fired"}
    BY <1>0, <2>1
  <2>3. /\ outcome'.kind = "cancelled" /\ outcome'.code = "none"
        /\ pc' = "done"
    BY <2>1 DEF Cancelled, Throw, Ended
  <2> QED
    BY <1>0, <1>1, <2>1, <2>2, <2>3, Throws
       DEF ThrownKinds, setup, ProcInv, TypeOK
<1>2. CASE ~aborted /\ GenerateOpenAI
  <2>1. /\ request' = OpenRequest /\ started' = started + 1 /\ pc' = "request"
        /\ timer' = "armed"
        /\ UNCHANGED <<provider, renderer, stages, aborted, usages, totals,
                       outcome>>
    BY <1>2 DEF GenerateOpenAI, GoTo, setup
  <2>2. TypeOK'
    BY <1>0, <2>1, PromptCount DEF ProcInv, TypeOK, aiUsageSchema, safe
  <2>3. Recorded' /\ Accounted' /\ Placed' /\ RequestKnown'
    BY <1>0, <2>1 DEF ProcInv, Recorded, Accounted, Placed, RequestKnown,
                      OpenRequest, NoRequest
  <2> QED
    BY <1>2, <2>1, <2>2, <2>3 DEF StepOK, ProcInv, AbortHeeded,
                                 Contract!jobVars
<1>3. CASE ~aborted /\ GenerateMock
  <2>1. /\ started' = started + 1
        /\ UNCHANGED <<provider, renderer, stages, aborted, request, timer>>
    BY <1>3 DEF GenerateMock, setup
  <2>2. CASE MockError = "none"
    <3>1. PICK input \in MockInputTokens :
             AcceptAnswer(Usage(input, MockOutputTokens))
      BY <1>3, <2>2 DEF GenerateMock, deterministicUsage
    <3>2. input \in Int /\ MockOutputTokens \in Int
      OBVIOUS
    <3> QED
      BY <1>0, <1>3, <2>1, <3>1, <3>2, AnswerAccepted
  <2>3. CASE MockError # "none"
    <3>1. FailPrompt(MockError)
      BY <1>3, <2>3 DEF GenerateMock
    <3>2. MockError # "WORKER_CANCELLED" /\ MockError # "UNEXPECTED"
      BY <1>3 DEF MockError, GenerateMock, ProcInv, TypeOK, AllProviders
    <3>3. /\ outcome'.kind \in {"retryable", "permanent"}
          /\ outcome'.code # "UNEXPECTED"
          /\ pc' = "done" /\ UNCHANGED <<usages, totals>>
      BY <3>1, <3>2, FailedPrompt DEF FailPrompt
    <3> QED
      BY <1>0, <1>3, <2>1, <3>3, Throws DEF ThrownKinds
  <2> QED
    BY <2>2, <2>3
<1> QED
  BY <1>1, <1>2, <1>3

\* The request of a prompt is answered or aborted; nobody has looked yet.
LEMMA Answered ==
    ASSUME ProcInv, RequestAborts \/ ProviderAnswers
    PROVE  StepOK
<1>1. /\ request' \in Answers \cup {[NoRequest EXCEPT !.kind = "user-abort"]}
      /\ request'.kind # "none"
      /\ request'.kind = "user-abort" => requestController
  <2>1. CASE RequestAborts
    BY <2>1 DEF RequestAborts, AnswerWith, NoRequest
  <2>2. CASE ProviderAnswers
    <3>1. PICK answer \in Answers : AnswerWith(answer)
      BY <2>2 DEF ProviderAnswers
    <3>2. answer.kind # "none" /\ answer.kind # "user-abort"
      BY DEF Answers, NoRequest, DefectiveContent, SdkErrors
    <3> QED
      BY <3>1, <3>2 DEF AnswerWith
  <2> QED
    BY <2>1, <2>2
<1> QED
  BY <1>1, Meanwhile DEF RequestAborts, ProviderAnswers, AnswerWith, setup

\* The answer of a prompt is looked at: usage is recorded once, an abort
\* comes before any other error, the timer is disarmed.
LEMMA Settles ==
    ASSUME ProcInv, SettleRequest
    PROVE  StepOK
<1>0. /\ pc = "request" /\ request # OpenRequest
      /\ request' = NoRequest /\ timer' = "off"
      /\ UNCHANGED <<provider, renderer, stages, aborted, started>>
      /\ started \in 0 .. 5 /\ started = Len(usages) + 1
      /\ usages \in Seq(UsageRecord)
  BY PromptCount
     DEF SettleRequest, setup, ProcInv, TypeOK, Placed, Recorded
<1>1. CASE aborted
  <2>1. /\ outcome'.kind = "cancelled" /\ outcome'.code = "none"
        /\ pc' = "done" /\ UNCHANGED <<usages, totals>>
    BY <1>1 DEF SettleRequest, Cancelled, Throw, Ended
  <2>2. request' # request
    BY <1>0 DEF ProcInv, RequestKnown, NoRequest
  <2> QED
    BY <1>0, <1>1, <2>1, <2>2, Throws DEF ThrownKinds
<1>2. CASE ~aborted /\ timer = "fired"
  <2>1. FailPrompt("AI_TIMEOUT")
    BY <1>2 DEF SettleRequest
  <2>2. /\ outcome'.kind \in {"retryable", "permanent"}
        /\ outcome'.code # "UNEXPECTED"
        /\ pc' = "done" /\ UNCHANGED <<usages, totals>>
    BY <2>1, FailedPrompt DEF FailPrompt
  <2>3. request' = request => request.kind = "none"
    BY <1>0 DEF NoRequest
  <2>4. request.kind # "none"
    BY <1>0 DEF ProcInv, RequestKnown
  <2> QED
    BY <1>0, <1>2, <2>2, <2>3, <2>4, Throws DEF ThrownKinds
<1>3. CASE ~aborted /\ timer # "fired"
  <2>1. /\ request \in [kind : RequestKinds, input : Int, output : Int]
        /\ request.kind \notin {"none", "open", "user-abort"}
    <3>1. request \in [kind : RequestKinds, input : Int, output : Int]
      BY RequestType DEF ProcInv
    <3>2. request.kind # "user-abort" /\ request.kind # "none"
      BY <1>0, <1>3 DEF ProcInv, RequestKnown, requestController
    <3>3. request.kind # "open"
      BY <1>0 DEF ProcInv, TypeOK, Answers, NoRequest, OpenRequest,
                  DefectiveContent, SdkErrors
    <3> QED
      BY <3>1, <3>2, <3>3
  <2>2. CASE AnswerError(request) # "none"
    <3>1. FailPrompt(AnswerError(request))
      BY <1>3, <2>2 DEF SettleRequest
    <3>2. AnswerError(request) # "WORKER_CANCELLED"
          /\ AnswerError(request) # "UNEXPECTED"
      <4>1. AnswerError(request) # "WORKER_CANCELLED"
        BY <2>1, AnswerErrors
      <4>2. AnswerError(request) # "UNEXPECTED"
        BY <2>1 DEF AnswerError, mapOpenAIError, RequestKinds,
                    DefectiveContent, SdkErrors
      <4> QED
        BY <4>1, <4>2
    <3>3. /\ outcome'.kind \in {"retryable", "permanent"}
          /\ outcome'.code # "UNEXPECTED"
          /\ pc' = "done" /\ UNCHANGED <<usages, totals>>
      BY <3>1, <3>2, FailedPrompt DEF FailPrompt
    <3> QED
      BY <1>0, <1>3, <3>3, Throws DEF ThrownKinds
  <2>3. CASE AnswerError(request) = "none"
    <3>1. AcceptAnswer(Usage(request.input, request.output))
      BY <1>3, <2>3 DEF SettleRequest
    <3>2. request.input \in Int /\ request.output \in Int
      BY <2>1
    <3>3. request' # request
      BY <1>0, <2>1 DEF NoRequest
    <3> QED
      BY <1>0, <1>3, <3>1, <3>2, <3>3, AnswerAccepted
  <2> QED
    BY <2>2, <2>3
<1> QED
  BY <1>1, <1>2, <1>3

\* Building and composing heed an abort before they begin.
LEMMA LateSteps ==
    ASSUME ProcInv, BuildPublication \/ ComposeAndReturn
    PROVE  StepOK
<1>0. /\ pc \in {"build", "compose"}
      /\ UNCHANGED <<setup, stages, aborted, ai>>
  BY DEF BuildPublication, ComposeAndReturn
<1>1. CASE aborted
  BY <1>0, <1>1, ThrowsOnly
     DEF BuildPublication, ComposeAndReturn, Cancelled, ThrownKinds
<1>2. CASE ~aborted /\ BuildPublication
  <2>1. CASE GoTo("compose")
    BY <1>2, <2>1, GoesOn DEF BuildPublication, GoTo
  <2>2. CASE \E code \in {"PUBLICATION_VALIDATION_ERROR",
                          "PUBLICATION_BUILD_ERROR"} : Throw("permanent", code)
    BY <1>0, <1>2, <2>2, ThrowsOnly DEF ThrownKinds
  <2> QED
    BY <1>2, <2>1, <2>2 DEF BuildPublication
<1>3. CASE ~aborted /\ ComposeAndReturn
  <2>1. CASE Throw("returned", "none")
    <3>1. /\ outcome'.kind = "returned" /\ outcome'.code = "none"
          /\ pc' = "done" /\ pc = "compose"
          /\ UNCHANGED <<provider, renderer, stages, aborted, request, timer,
                         started, usages, totals>>
      BY <1>0, <1>3, <2>1 DEF Throw, Ended, setup, ai, ComposeAndReturn
    <3>2. TypeOK'
      BY <3>1 DEF ProcInv, TypeOK, aiUsageSchema, safe
    <3>3. Recorded' /\ Placed'
      BY <3>1 DEF ProcInv, Recorded, Placed
    <3>4. RequestKnown' /\ Accounted'
      BY <3>1 DEF ProcInv, RequestKnown, requestController, Accounted,
                  SumOfTokens
    <3>5. Contract!Return
      BY <1>3, <3>1 DEF Contract!Return, ProcInv, Placed
    <3> QED
      BY <1>3, <3>2, <3>3, <3>4, <3>5 DEF StepOK, ProcInv, AbortHeeded,
                                         Contract!Next
  <2>2. CASE \E code \in HtmlErrors \cup RenderErrors : Throw("permanent", code)
    <3>1. PICK code \in HtmlErrors \cup RenderErrors : Throw("permanent", code)
      BY <2>2
    <3>2. code # "UNEXPECTED"
      BY DEF HtmlErrors, RenderErrors
    <3> QED
      BY <1>0, <1>3, <3>1, <3>2, ThrowsOnly DEF ThrownKinds
  <2> QED
    BY <1>3, <2>1, <2>2 DEF ComposeAndReturn
<1> QED
  BY <1>1, <1>2, <1>3

\* Every step keeps the invariant, heeds an abort and is one of the contract.
LEMMA StepsOK ==
    ASSUME ProcInv, [Next]_vars
    PROVE  ProcInv' /\ [AbortHeeded]_vars /\ [Contract!Next]_(Contract!jobVars)
<1>1. CASE Step
  BY <1>1, EarlySteps, Generates, Answered, Settles, LateSteps
     DEF Step, StepOK
<1>2. CASE Abort \/ TimerFires
  BY <1>2, Meanwhile DEF Abort, TimerFires, setup, ai, StepOK
<1>3. CASE ProviderAnswers
  BY <1>3, Answered DEF StepOK
<1>4. CASE UNCHANGED vars
  <2>1. ProcInv'
    BY <1>4 DEF vars, ProcInv, TypeOK, aiUsageSchema, safe, Recorded, Placed,
                RequestKnown, requestController, Accounted, SumOfTokens
  <2> QED
    BY <1>4, <2>1 DEF vars, Contract!jobVars
<1> QED
  BY <1>1, <1>2, <1>3, <1>4 DEF Next

\* The inductive invariant of a processing, what each await knows, holds
\* throughout processTranscript, for any limit of safe integers.
THEOREM ProcInvariant == Spec => []ProcInv
<1>1. Init => ProcInv
  BY InitOK
<1>2. ProcInv /\ [Next]_vars => ProcInv'
  BY StepsOK
<1> QED
  BY <1>1, <1>2, PTL DEF Spec

\* A result of process carries the usage of all five prompts and their sum
\* within the safe range, whatever counts the provider reports: AIPipeline.run
\* refuses the others before aiPipelineResultSchema sees them.
THEOREM UsageIsAccounted == Spec => []UsageAccounted
<1>1. ProcInv => UsageAccounted
  BY TotalOfFive DEF ProcInv
<1> QED
  BY ProcInvariant, <1>1, PTL

\* Once the executor's signal is aborted, process sends no further prompt and
\* ends as cancelled from the first prompt on, whatever answer, error or
\* timeout comes with the abort.
THEOREM CancellationsWin == Spec => CancellationWins
<1>1. ProcInv /\ [Next]_vars => [AbortHeeded]_vars
  BY StepsOK
<1> QED
  BY ProcInvariant, <1>1, PTL DEF Spec, CancellationWins

\* process keeps what the job executor relies on: every step of it is a step of
\* JobProcessor, or none.
THEOREM ProcessImplementsContract == Spec => ImplementsJobProcessor
<1>1. Init => Contract!Init
  BY InitOK
<1>2. ProcInv /\ [Next]_vars => [Contract!Next]_(Contract!jobVars)
  BY StepsOK
<1> QED
  BY ProcInvariant, <1>1, <1>2, PTL
     DEF Spec, ImplementsJobProcessor, Contract!Spec

=============================================================================
