-------------------------- MODULE BuildPipelineProofs --------------------------
(***************************************************************************)
(* Theorems about BuildPipeline, for every Dockerfile, every request and   *)
(* every set of words: what the builder's validation lets through is       *)
(* converted without an unresolved reference, from exactly the stages the  *)
(* target needs; a build that succeeds has the images that were solved, in *)
(* the order of its platforms; and an image has what its stages declare.   *)
(* And about LLBStates: the states the converter works with are values,    *)
(* whatever memory they share.                                             *)
(***************************************************************************)
EXTENDS BuildPipeline, LLBStates, TLAPS, SequenceTheorems, WellFoundedInduction

(***************************************************************************)
(* Least and greatest elements of sets of stage numbers.                   *)
(***************************************************************************)
LEMMA Least ==
  ASSUME NEW S \in SUBSET Nat, S # {}
  PROVE  \E i \in S : \A j \in S : i <= j
<1>1. PICK i \in S : \A j \in S : ~ (<<j, i>> \in OpToRel(<, Nat))
  BY WFMin, NatLessThanWellFounded
<1>2. \A j \in S : ~ (j < i)
  BY <1>1 DEF OpToRel
<1> QED BY <1>2

LEMMA Greatest ==
  ASSUME NEW n \in Nat, NEW S \in SUBSET (1..n), S # {}
  PROVE  \E i \in S : \A j \in S : j <= i
<1> DEFINE T == {n - i : i \in S}
<1>1. T \in SUBSET Nat /\ T # {}
  <2>1. \A i \in S : n - i \in Nat
    OBVIOUS
  <2>2. PICK i \in S : TRUE
    OBVIOUS
  <2>3. n - i \in T
    BY <2>2
  <2> QED BY <2>1, <2>3
<1>2. PICK t \in T : \A u \in T : t <= u
  BY <1>1, Least
<1>3. PICK i \in S : t = n - i
  BY <1>2
<1>4. \A j \in S : t <= n - j
  BY <1>2
<1>5. \A j \in S : j <= i
  BY <1>3, <1>4
<1> QED BY <1>5

LEMMA StageNamedIsAStage ==
  ASSUME stages \in Seq(Stage), NEW w, HasStage(stages, w)
  PROVE  /\ StageNamed(stages, w) \in DOMAIN stages
         /\ stages[StageNamed(stages, w)].name = w
<1> DEFINE S == {i \in DOMAIN stages : stages[i].name = w}
<1>1. DOMAIN stages = 1..Len(stages) /\ Len(stages) \in Nat
  OBVIOUS
<1>2. S \in SUBSET (1..Len(stages)) /\ S # {}
  BY <1>1 DEF HasStage
<1>3. \E i \in S : \A j \in S : j <= i
  BY <1>1, <1>2, Greatest
<1>4. \E i \in DOMAIN stages :
        stages[i].name = w /\ \A j \in DOMAIN stages : stages[j].name = w => j <= i
  BY <1>3
<1> QED BY <1>4 DEF StageNamed

LEMMA FirstStageNamedIsAStage ==
  ASSUME stages \in Seq(Stage), NEW w, HasStage(stages, w)
  PROVE  /\ FirstStageNamed(stages, w) \in DOMAIN stages
         /\ stages[FirstStageNamed(stages, w)].name = w
<1> DEFINE S == {i \in DOMAIN stages : stages[i].name = w}
<1>1. DOMAIN stages = 1..Len(stages) /\ Len(stages) \in Nat
  OBVIOUS
<1>2. S \in SUBSET Nat /\ S # {}
  BY <1>1 DEF HasStage
<1>3. \E i \in S : \A j \in S : i <= j
  BY <1>2, Least
<1>4. \E i \in DOMAIN stages :
        stages[i].name = w /\ \A j \in DOMAIN stages : stages[j].name = w => i <= j
  BY <1>3
<1> QED BY <1>4 DEF FirstStageNamed

LEMMA DependenciesAreStages ==
  ASSUME stages \in Seq(Stage), NEW i \in DOMAIN stages
  PROVE  Dependencies(stages, i) \subseteq DOMAIN stages
BY StageNamedIsAStage DEF Dependencies

(* The stages Dependencies speaks of are those the converter looks up. *)
LEMMA BaseIsADependency ==
  ASSUME stages \in Seq(Stage), NEW i \in DOMAIN stages,
         stages[i].from.ref = "stage", HasStage(stages, stages[i].from.word)
  PROVE  StageNamed(stages, stages[i].from.word) \in Dependencies(stages, i)
<1>1. stages[i] \in Stage
  OBVIOUS
<1>2. stages[i].from.word \in Words
  BY <1>1 DEF Stage, FromInstruction
<1>3. stages[i].from.word # NoWord
  BY <1>2, WordsAssumption DEF Words
<1>4. stages[i].from.word \in References(stages[i])
  BY DEF References
<1> QED BY <1>3, <1>4 DEF Dependencies

LEMMA CopiedIsADependency ==
  ASSUME stages \in Seq(Stage), NEW i \in DOMAIN stages,
         NEW k \in DOMAIN stages[i].body, stages[i].body[k].op = "copy",
         stages[i].body[k].word # NoWord, HasStage(stages, stages[i].body[k].word)
  PROVE  StageNamed(stages, stages[i].body[k].word) \in Dependencies(stages, i)
<1>1. stages[i].body[k].word \in References(stages[i])
  BY DEF References
<1> QED BY <1>1 DEF Dependencies

LEMMA ExpandType ==
  ASSUME NEW a \in ArgMaps, NEW w \in Words \cup {NoWord}
  PROVE  /\ Expand(w, a) \in Words \cup {NoWord}
         /\ w \in Words => Expand(w, a) \in Words
BY WordsAssumption DEF Expand, ArgMaps, Words

-----------------------------------------------------------------------------
(***************************************************************************)
(* The inductive invariant.  It says how far each phase has come: what the *)
(* validation established, what the search for dependencies has seen and   *)
(* still owes, and which stages are converted when one is being converted. *)
(***************************************************************************)
Accepted ==
    /\ phase \notin {"parse", "done"} => stages # << >>
    /\ phase \in {"context", "import", "platform", "require", "from", "body", "export"} =>
           /\ BuilderAccepts(stages, request.target)
           /\ request.validated => ParserAccepts(stages)

Searching ==
    phase \in {"require", "from", "body"} =>
        /\ TargetFound /\ target = TargetIndex
        /\ target \in DOMAIN stages
        /\ target \in required \cup pending
        /\ \A i \in required : Dependencies(stages, i) \subseteq required \cup pending
        /\ \A S \in SUBSET DOMAIN stages :
               target \in S /\ Closed(S) => required \cup pending \subseteq S

Searched == phase \in {"from", "body"} => pending = {}

Ascending ==
    phase = "body" =>
        /\ stage \in required /\ next \in Nat \ {0}
        /\ \A j \in required : j < stage => j \in DOMAIN states

NothingFailedYet == phase = "parse" => failures = {}

Flow == Accepted /\ Searching /\ Searched /\ Ascending /\ NothingFailedYet

IInv == TypeOK /\ Flow /\ ReferencesResolve

-----------------------------------------------------------------------------
(* Type correctness, one lemma per part of the build. *)

LEMMA InitType == Init => TypeOK
<1> SUFFICES ASSUME Init PROVE TypeOK
  OBVIOUS
<1> USE DEF Init
<1>1. request \in Request
  BY PipelineAssumption
<1>2. args \in ArgMaps
  BY <1>1 DEF Request, ArgMaps, Words
<1>3. parserArgs \in ArgMaps
  BY DEF NoArgs, ArgMaps
<1>4. state \in LLBState
  BY DEF NoState, LLBState, NoPlatform
<1>5. phase \in Phases /\ stages \in Seq(Stage) /\ images \in Seq(Image)
  BY DEF Phases
<1>6. platform \in 0..LastPlatform
  <2>1. Len(request.platforms) \in Nat
    BY <1>1 DEF Request
  <2> QED BY <2>1 DEF LastPlatform, MultiPlatform
<1>7. target \in 0..Len(stages) /\ stage \in 0..Len(stages) /\ lines \in Nat /\ next \in Nat
  BY <1>5
<1>8. /\ DOMAIN states \subseteq required
      /\ \A i \in DOMAIN states : states[i] \in LLBState
  OBVIOUS
<1>9. pending \subseteq DOMAIN stages /\ required \subseteq DOMAIN stages /\ failures \subseteq (Nat \X Causes)
  OBVIOUS
<1>10. outcome \in {"none", "built", "failed"}
  OBVIOUS
<1> QED BY <1>1, <1>2, <1>3, <1>4, <1>5, <1>6, <1>7, <1>8, <1>9, <1>10 DEF TypeOK

(* Adding a line keeps the stages well-formed and the indexes in range. *)
LEMMA ParseFromType == ASSUME TypeOK, ParseFrom PROVE TypeOK'
<1> PICK word \in FromWords, as \in AsNames \cup {NoWord}, p \in StagePlatforms \cup {NoPlatform} :
       /\ ReadLine
       /\ stages' = Append(stages, [name |-> as, from |-> Reference(Expand(word, parserArgs)),
                                    platform |-> p, body |-> << >>])
       /\ UNCHANGED parserArgs
  BY DEF ParseFrom
<1>1. Expand(word, parserArgs) \in Words
  BY ExpandType, PipelineAssumption DEF TypeOK
<1>2. Reference(Expand(word, parserArgs)) \in FromInstruction
  BY <1>1 DEF Reference, FromInstruction
<1> DEFINE new == [name |-> as, from |-> Reference(Expand(word, parserArgs)),
                   platform |-> p, body |-> << >>]
<1>3. new \in Stage
  <2>1. as \in Names \cup {NoWord} /\ p \in Platforms \cup {NoPlatform}
    BY PipelineAssumption
  <2>2. << >> \in Seq(Instruction)
    OBVIOUS
  <2> QED BY <1>2, <2>1, <2>2 DEF Stage
<1> HIDE DEF new
<1>4. stages' \in Seq(Stage) /\ Len(stages') = Len(stages) + 1
  <2>1. stages \in Seq(Stage) /\ stages' = Append(stages, new)
    BY DEF TypeOK, new
  <2> QED BY <1>3, <2>1
<1>5. DOMAIN stages \subseteq DOMAIN stages' /\ Len(stages) \in Nat
  BY <1>4 DEF TypeOK
<1> QED BY <1>4, <1>5 DEF TypeOK, ReadLine, convertVars, resultVars, LastPlatform, MultiPlatform

LEMMA AddInstructionType ==
  ASSUME TypeOK, NEW instr \in Instruction, AddInstruction(instr), parserArgs' \in ArgMaps
  PROVE  TypeOK'
<1> DEFINE n == Len(stages)
<1>1. stages \in Seq(Stage) /\ n \in Nat /\ n \in DOMAIN stages /\ DOMAIN stages = 1..n
  BY DEF AddInstruction, TypeOK
<1> HIDE DEF n
<1>2. stages[n] \in Stage
  BY <1>1
<1>3. Append(stages[n].body, instr) \in Seq(Instruction)
  <2>1. stages[n].body \in Seq(Instruction)
    BY <1>2 DEF Stage
  <2> QED BY <2>1
<1>4. [stages[n] EXCEPT !.body = Append(@, instr)] \in Stage
  BY <1>2, <1>3 DEF Stage
<1>5. stages' = [stages EXCEPT ![n] = [stages[n] EXCEPT !.body = Append(@, instr)]]
  BY <1>1 DEF AddInstruction, n
<1>6. stages' \in Seq(Stage) /\ Len(stages') = n /\ DOMAIN stages' = DOMAIN stages
  BY <1>1, <1>4, <1>5
<1> QED BY <1>6 DEF TypeOK, AddInstruction, ReadLine, convertVars, resultVars, LastPlatform, MultiPlatform

LEMMA ParseArgType == ASSUME TypeOK, ParseArg PROVE TypeOK'
<1> PICK name \in ArgNames, default \in Defaults :
       LET value == IF default = NoWord THEN NoWord ELSE Expand(default, parserArgs)
       IN  /\ AddInstruction([op |-> "arg", name |-> name, word |-> value, text |-> default])
           /\ parserArgs' = IF value = NoWord THEN parserArgs
                            ELSE [parserArgs EXCEPT ![name] = value]
  BY DEF ParseArg
<1> DEFINE value == IF default = NoWord THEN NoWord ELSE Expand(default, parserArgs)
<1>1. default \in Words \cup {NoWord}
  BY PipelineAssumption
<1>2. value \in Words \cup {NoWord}
  BY <1>1, ExpandType DEF TypeOK
<1>3. [op |-> "arg", name |-> name, word |-> value, text |-> default] \in Instruction
  BY <1>1, <1>2 DEF Instruction
<1>4. parserArgs' \in ArgMaps
  BY <1>2 DEF TypeOK, ArgMaps
<1> QED BY <1>3, <1>4, AddInstructionType

LEMMA ParseOperandType == ASSUME TypeOK, ParseOperand PROVE TypeOK'
<1> PICK op \in Ops, word \in Operands :
       /\ AddInstruction(Operation(op, word))
       /\ UNCHANGED parserArgs
  BY DEF ParseOperand
<1>1. Expand(word, parserArgs) \in Words /\ word \in Words /\ op \in {"run", "cmd", "set", "list"}
  BY ExpandType, PipelineAssumption DEF TypeOK
<1>2. Operation(op, word) \in Instruction
  BY <1>1 DEF Instruction, Operation
<1> QED BY <1>2, AddInstructionType DEF TypeOK

LEMMA ParseCopyType == ASSUME TypeOK, ParseCopy PROVE TypeOK'
<1> PICK word \in CopyWords :
       /\ AddInstruction([op |-> "copy", name |-> NoWord, word |-> word, text |-> word])
       /\ UNCHANGED parserArgs
  BY DEF ParseCopy
<1>1. word \in Words \cup {NoWord}
  BY PipelineAssumption DEF Words
<1>2. [op |-> "copy", name |-> NoWord, word |-> word, text |-> word] \in Instruction
  BY <1>1 DEF Instruction
<1> QED BY <1>2, AddInstructionType DEF TypeOK

ResultOK ==
    /\ phase \in Phases
    /\ images \in Seq(Image)
    /\ failures \subseteq (Nat \X Causes)
    /\ outcome \in {"none", "built", "failed"}

LEMMA FailType ==
  ASSUME ResultOK, NEW p \in Nat, NEW cause \in Causes, Fail(p, cause)
  PROVE  ResultOK'
BY DEF ResultOK, Fail, Return, Phases

LEMMA PlatformFailsType ==
  ASSUME ResultOK, NEW p \in Nat, NEW cause \in Causes, PlatformFails(p, cause)
  PROVE  ResultOK'
<1>1. CASE MultiPlatform
  BY <1>1 DEF PlatformFails, ResultOK, Phases
<1>2. CASE ~MultiPlatform
  BY <1>2, FailType DEF PlatformFails
<1> QED BY <1>1, <1>2

(* A step that reads no line and converts nothing. *)
Outside == UNCHANGED <<request, args, platform, parserVars, convertVars>>

LEMMA OutsideType ==
  ASSUME TypeOK, Outside, ResultOK'
  PROVE  TypeOK'
BY DEF TypeOK, ResultOK, Outside, parserVars, convertVars, LastPlatform, MultiPlatform

LEMMA PlatformIsNat == TypeOK => platform \in Nat /\ ResultOK
<1> SUFFICES ASSUME TypeOK PROVE platform \in Nat /\ ResultOK
  OBVIOUS
<1>1. LastPlatform \in Nat
  <2>1. request.platforms \in Seq(Platforms)
    BY DEF TypeOK, Request
  <2> QED BY <2>1 DEF LastPlatform
<1> QED BY <1>1 DEF TypeOK, ResultOK

LEMMA PreparationType ==
  ASSUME TypeOK, EarlyInstruction \/ EndOfFile \/ Prepare \/ PlatformsTried \/ ExportCache
  PROVE  TypeOK'
<1>1. platform \in Nat /\ ResultOK
  BY PlatformIsNat
<1> USE <1>1 DEF Causes
<1>2. CASE EarlyInstruction
  <2>1. ResultOK'
    BY <1>2, FailType DEF EarlyInstruction
  <2> QED BY <1>2, <2>1, OutsideType DEF EarlyInstruction, Outside
<1>3. CASE EndOfFile
  <2>1. CASE stages = << >>
    <3>1. ResultOK'
      BY <1>3, <2>1, FailType DEF EndOfFile
    <3> QED BY <1>3, <3>1, OutsideType DEF EndOfFile, Outside
  <2>2. CASE stages # << >>
    <3>1. ResultOK'
      BY <1>3, <2>2 DEF EndOfFile, ResultOK, Phases, resultVars
    <3> QED BY <1>3, <3>1, OutsideType DEF EndOfFile, Outside
  <2> QED BY <2>1, <2>2
<1>4. CASE ValidateRequest
  <2>1. CASE RequestAccepted
    <3>1. ResultOK'
      BY <1>4, <2>1 DEF ValidateRequest, ResultOK, Phases, resultVars
    <3> QED BY <1>4, <3>1, OutsideType DEF ValidateRequest, Outside
  <2>2. CASE ~RequestAccepted
    <3>1. ResultOK'
      BY <1>4, <2>2, FailType DEF ValidateRequest
    <3> QED BY <1>4, <3>1, OutsideType DEF ValidateRequest, Outside
  <2> QED BY <2>1, <2>2
<1>5. CASE PrepareContext
  <2>1. CASE Fail(platform, "context")
    <3>1. ResultOK'
      BY <2>1, FailType
    <3> QED BY <1>5, <3>1, OutsideType DEF PrepareContext, Outside
  <2>2. CASE ~Fail(platform, "context")
    <3>1. ResultOK'
      BY <1>5, <2>2 DEF PrepareContext, ResultOK, Phases, resultVars
    <3> QED BY <1>5, <3>1, OutsideType DEF PrepareContext, Outside
  <2> QED BY <2>1, <2>2
<1>6. CASE ImportCache
  <2>1. CASE Fail(platform, "import")
    <3>1. ResultOK'
      BY <2>1, FailType
    <3> QED BY <1>6, <3>1, OutsideType DEF ImportCache, Outside
  <2>2. CASE ~Fail(platform, "import")
    <3>1. ResultOK'
      BY <1>6, <2>2 DEF ImportCache, ResultOK, Phases, resultVars
    <3> QED BY <1>6, <3>1, OutsideType DEF ImportCache, Outside
  <2> QED BY <2>1, <2>2
<1>7. CASE PlatformsTried
  <2>1. ResultOK'
    BY <1>7 DEF PlatformsTried, ResultOK, Phases, resultVars, Return
  <2> QED BY <1>7, <2>1, OutsideType DEF PlatformsTried, Outside
<1>8. CASE ExportCache
  <2>1. CASE Fail(platform, "export")
    <3>1. ResultOK'
      BY <2>1, FailType
    <3> QED BY <1>8, <3>1, OutsideType DEF ExportCache, Outside
  <2>2. CASE ~Fail(platform, "export")
    <3>1. ResultOK'
      BY <1>8, <2>2 DEF ExportCache, ResultOK, Phases, Return
    <3> QED BY <1>8, <3>1, OutsideType DEF ExportCache, Outside
  <2> QED BY <2>1, <2>2
<1> QED BY <1>2, <1>3, <1>4, <1>5, <1>6, <1>7, <1>8 DEF Prepare

(* The stages a search may reach are stages of the Dockerfile. *)
LEMMA SearchType ==
  ASSUME TypeOK, Flow, StartPlatform \/ EnterStage \/ StagesFound
  PROVE  TypeOK'
<1>1. platform \in Nat /\ ResultOK /\ stages \in Seq(Stage)
  BY PlatformIsNat DEF TypeOK
<1>2. DOMAIN stages = 1..Len(stages) /\ Len(stages) \in Nat
  BY <1>1
<1>3. CASE StartPlatform
  <2>1. platform' \in 0..LastPlatform' /\ request' = request /\ stages' = stages
    <3>1. LastPlatform' = LastPlatform
      BY <1>3 DEF StartPlatform, LastPlatform, MultiPlatform
    <3>2. LastPlatform \in Nat
      <4>1. request.platforms \in Seq(Platforms)
        BY DEF TypeOK, Request
      <4> QED BY <4>1 DEF LastPlatform
    <3> QED BY <1>1, <1>3, <3>1, <3>2 DEF StartPlatform, parserVars
  <2>2. required' = {} /\ DOMAIN states' = {}
    BY <1>3 DEF StartPlatform
  <2>3. CASE TargetFound
    <3>1. TargetIndex \in DOMAIN stages
      <4>1. stages # << >>
        BY <1>3 DEF StartPlatform, Flow, Accepted
      <4> QED BY <1>1, <1>2, <2>3, <4>1, FirstStageNamedIsAStage DEF TargetFound, TargetIndex
    <3>2. target' = TargetIndex /\ pending' = {TargetIndex} /\ ResultOK'
      BY <1>1, <1>3, <2>3 DEF StartPlatform, ResultOK, Phases, resultVars
    <3> QED BY <1>2, <1>3, <2>1, <2>2, <3>1, <3>2 DEF StartPlatform, TypeOK, ResultOK, parserVars
  <2>4. CASE ~TargetFound
    <3>1. PlatformFails(platform + 1, "target")
      BY <1>3, <2>4 DEF StartPlatform
    <3>2. ResultOK'
      <4>1. platform + 1 \in Nat /\ "target" \in Causes
        BY <1>1 DEF Causes
      <4> QED BY <1>1, <3>1, <4>1, PlatformFailsType
    <3>3. target' = target /\ pending' = pending
      BY <1>3, <2>4 DEF StartPlatform
    <3> QED BY <1>3, <2>1, <2>2, <3>2, <3>3 DEF StartPlatform, TypeOK, ResultOK, parserVars
  <2> QED BY <2>3, <2>4
<1>4. CASE EnterStage
  <2>1. PICK i \in pending :
          /\ pending' = (pending \ {i}) \cup
                           (IF i \in required THEN {} ELSE Dependencies(stages, i))
          /\ required' = required \cup {i}
    BY <1>4 DEF EnterStage
  <2>2. i \in DOMAIN stages
    BY DEF TypeOK
  <2>3. Dependencies(stages, i) \subseteq DOMAIN stages
    BY <1>1, <2>2, DependenciesAreStages
  <2>4. pending' \subseteq DOMAIN stages /\ required' \subseteq DOMAIN stages
    BY <2>1, <2>2, <2>3 DEF TypeOK
  <2> QED BY <1>4, <2>1, <2>4
          DEF TypeOK, EnterStage, parserVars, resultVars, LastPlatform, MultiPlatform
<1>5. CASE StagesFound
  BY <1>1, <1>5, OutsideType DEF StagesFound, Outside, ResultOK, Phases, resultVars
<1> QED BY <1>3, <1>4, <1>5

(* The stage a conversion takes next. *)
LEMMA NextStageIsLeast ==
  ASSUME TypeOK, Unconverted # {}
  PROVE  /\ NextStage \in required \ DOMAIN states
         /\ NextStage \in DOMAIN stages
         /\ \A j \in required : j < NextStage => j \in DOMAIN states
<1>1. DOMAIN stages = 1..Len(stages) /\ Len(stages) \in Nat
  BY DEF TypeOK
<1>2. Unconverted \in SUBSET Nat
  BY <1>1 DEF TypeOK, Unconverted
<1>3. \E i \in Unconverted : \A j \in Unconverted : i <= j
  BY <1>2, Least
<1>4. NextStage \in Unconverted /\ \A j \in Unconverted : NextStage <= j
  BY <1>3 DEF NextStage
<1> QED BY <1>1, <1>2, <1>4 DEF Unconverted, TypeOK

LEMMA OnPlatformType ==
  ASSUME TypeOK, NEW llb \in LLBState, NEW s \in Stage
  PROVE  OnPlatform(llb, s) \in LLBState
<1>1. Platform \in Platforms \cup {NoPlatform}
  BY DEF TypeOK, Request, Platform
<1>2. s.platform \in Platforms \cup {NoPlatform}
  BY DEF Stage
<1> QED BY <1>1, <1>2 DEF OnPlatform, LLBState

LEMMA ConvertFromType == ASSUME TypeOK, Flow, ConvertFrom PROVE TypeOK'
<1>1. platform \in Nat /\ ResultOK /\ stages \in Seq(Stage)
  BY PlatformIsNat DEF TypeOK
<1>2. DOMAIN stages = 1..Len(stages) /\ Len(stages) \in Nat
  BY <1>1
<1>3. NextStage \in DOMAIN stages
  BY NextStageIsLeast DEF ConvertFrom
<1> DEFINE s == stages[NextStage]
           lost == s.from.ref = "stage" /\ ~StageAvailable(s.from.word)
<1>4. s \in Stage
  BY <1>1, <1>3
<1>5. CASE lost
  <2>1. PlatformFails(platform, "reference") /\ UNCHANGED <<stage, next, state>>
    BY <1>5 DEF ConvertFrom
  <2>2. ResultOK'
    BY <1>1, <2>1, PlatformFailsType DEF Causes
  <2> QED BY <2>1, <2>2 DEF ConvertFrom, TypeOK, ResultOK, parserVars, LastPlatform, MultiPlatform
<1>6. CASE ~lost
  <2>1. /\ phase' = "body" /\ stage' = NextStage /\ next' = 1
        /\ state' = OnPlatform(BaseState(s.from), s)
        /\ UNCHANGED resultVars
    BY <1>6 DEF ConvertFrom
  <2>2. BaseState(s.from) \in LLBState
    <3>1. CASE s.from.ref = "stage"
      BY <1>6, <3>1 DEF BaseState, StageAvailable, TypeOK
    <3>2. CASE s.from.ref # "stage"
      <4>1. s.from.word \in Words
        BY <1>4 DEF Stage, FromInstruction
      <4>2. NoState \in LLBState
        BY DEF NoState, LLBState, NoPlatform
      <4>3. [NoState EXCEPT !.src = s.from.word] \in LLBState
        BY <4>1, <4>2 DEF LLBState
      <4> QED BY <3>2, <4>3 DEF BaseState
    <3> QED BY <3>1, <3>2
  <2>3. state' \in LLBState
    BY <1>4, <2>1, <2>2, OnPlatformType
  <2>4. stage' \in 0..Len(stages)
    BY <1>2, <1>3, <2>1
  <2>5. ResultOK'
    BY <1>1, <2>1 DEF ResultOK, Phases, resultVars
  <2> QED BY <2>1, <2>3, <2>4, <2>5
          DEF ConvertFrom, TypeOK, ResultOK, parserVars, LastPlatform, MultiPlatform
<1> QED BY <1>5, <1>6

(* Where an instruction is converted there is one. *)
LEMMA InstrType ==
  ASSUME TypeOK, Flow, NEW op, Converting(op)
  PROVE  /\ stage \in DOMAIN stages /\ next \in DOMAIN stages[stage].body
         /\ Instr \in Instruction /\ Instr.op = op
<1>1. stage \in required /\ next \in Nat \ {0}
  BY DEF Converting, Flow, Ascending
<1>2. stage \in DOMAIN stages /\ stages \in Seq(Stage)
  BY <1>1 DEF TypeOK
<1>3. stages[stage] \in Stage
  BY <1>2
<1>4. stages[stage].body \in Seq(Instruction)
  BY <1>3 DEF Stage
<1>5. next \in DOMAIN stages[stage].body
  BY <1>1, <1>4 DEF Converting
<1>6. stages[stage].body[next] \in Instruction
  BY <1>4, <1>5
<1> QED BY <1>2, <1>5, <1>6 DEF Instr, Converting

LEMMA ReplaceType ==
  ASSUME TypeOK, NEW type \in {"exec", "file"}, NEW src \in Words \cup {NoWord},
         NEW from \in Nat, Replace(type, src, from)
  PROVE  state' \in LLBState
<1>1. state \in LLBState
  BY DEF TypeOK
<1>2. [state EXCEPT !.type = type, !.src = src, !.stage = from, !.platform = NoPlatform] \in LLBState
  BY <1>1 DEF LLBState
<1> QED BY <1>2 DEF Replace

LEMMA ConvertingType ==
  ASSUME TypeOK, NEW op, Converting(op), ResultOK', next' \in Nat, state' \in LLBState,
         args' \in ArgMaps
  PROVE  TypeOK'
BY DEF Converting, TypeOK, ResultOK, parserVars, LastPlatform, MultiPlatform

LEMMA ConversionType ==
  ASSUME TypeOK, Flow,
         ConvertRun \/ ConvertCopy \/ ConvertSet \/ ConvertCommand \/ ConvertList \/ ConvertArg
  PROVE  TypeOK'
<1>1. platform \in Nat /\ ResultOK /\ stages \in Seq(Stage) /\ next \in Nat /\ state \in LLBState
      /\ args \in ArgMaps
  BY PlatformIsNat DEF TypeOK
<1>2. ASSUME Converted PROVE ResultOK' /\ next' \in Nat
  BY <1>1, <1>2 DEF Converted, ResultOK, resultVars
<1>3. CASE ConvertRun
  <2>1. Converting("run") /\ Converted /\ args' = args
    BY <1>3 DEF ConvertRun
  <2>2. Instr.word \in Words
    BY <2>1, InstrType DEF Instruction
  <2>3. state' \in LLBState
    BY <1>3, <2>2, ReplaceType DEF ConvertRun
  <2> QED BY <1>1, <1>2, <2>1, <2>3, ConvertingType
<1>4. CASE ConvertCopy
  <2>1. Converting("copy") /\ args' = args
    BY <1>4 DEF ConvertCopy
  <2>2. Instr.word \in Words \cup {NoWord}
    BY <2>1, InstrType DEF Instruction
  <2>3. CASE Instr.word = NoWord \/ ~HasStage(stages, Instr.word)
    <3>1. Converted /\ state' \in LLBState
      BY <1>4, <2>2, <2>3, ReplaceType DEF ConvertCopy
    <3> QED BY <1>1, <1>2, <2>1, <3>1, ConvertingType
  <2>4. CASE ~(Instr.word = NoWord \/ ~HasStage(stages, Instr.word)) /\ StageAvailable(Instr.word)
    <3>1. StageNamed(stages, Instr.word) \in Nat
      <4>1. StageNamed(stages, Instr.word) \in DOMAIN stages
        BY <1>1, <2>4, StageNamedIsAStage
      <4> QED BY <1>1, <4>1
    <3>2. Converted /\ state' \in LLBState
      BY <1>4, <2>4, <3>1, ReplaceType DEF ConvertCopy
    <3> QED BY <1>1, <1>2, <2>1, <3>2, ConvertingType
  <2>5. CASE ~(Instr.word = NoWord \/ ~HasStage(stages, Instr.word)) /\ ~StageAvailable(Instr.word)
    <3>1. PlatformFails(platform, "reference") /\ UNCHANGED <<next, state>>
      BY <1>4, <2>5 DEF ConvertCopy
    <3>2. ResultOK'
      BY <1>1, <3>1, PlatformFailsType DEF Causes
    <3> QED BY <1>1, <2>1, <3>1, <3>2, ConvertingType
  <2> QED BY <2>3, <2>4, <2>5
<1>5. CASE ConvertSet
  <2>1. Converting("set") /\ Converted /\ args' = args
    BY <1>5 DEF ConvertSet
  <2>2. Expand(Instr.word, args) \in Words
    BY <1>1, <2>1, InstrType, ExpandType DEF Instruction
  <2>3. state' \in LLBState
    BY <1>1, <1>5, <2>2 DEF ConvertSet, LLBState
  <2> QED BY <1>1, <1>2, <2>1, <2>3, ConvertingType
<1>8. CASE ConvertCommand
  <2>1. Converting("cmd") /\ Converted /\ args' = args
    BY <1>8 DEF ConvertCommand
  <2>2. Instr.word \in Words
    BY <2>1, InstrType DEF Instruction
  <2>3. state' \in LLBState
    BY <1>1, <1>8, <2>2 DEF ConvertCommand, LLBState
  <2> QED BY <1>1, <1>2, <2>1, <2>3, ConvertingType
<1>6. CASE ConvertList
  <2>1. Converting("list") /\ Converted /\ args' = args
    BY <1>6 DEF ConvertList
  <2>2. Expand(Instr.word, args) \in Words
    BY <1>1, <2>1, InstrType, ExpandType DEF Instruction
  <2>3. Append(state.list, Expand(Instr.word, args)) \in Seq(Words)
    BY <1>1, <2>2 DEF LLBState
  <2>4. state' \in LLBState
    BY <1>1, <1>6, <2>3 DEF ConvertList, LLBState
  <2> QED BY <1>1, <1>2, <2>1, <2>4, ConvertingType
<1>7. CASE ConvertArg
  <2>1. Converting("arg") /\ Converted /\ state' = state
    BY <1>7 DEF ConvertArg
  <2>2. Instr.word \in Words \cup {NoWord}
    BY <2>1, InstrType DEF Instruction
  <2>3. args' \in ArgMaps
    BY <1>1, <1>7, <2>2 DEF ConvertArg, ArgMaps
  <2> QED BY <1>1, <1>2, <2>1, <2>3, ConvertingType
<1> QED BY <1>3, <1>4, <1>5, <1>6, <1>7, <1>8

LEMMA FinishStageType == ASSUME TypeOK, Flow, FinishStage PROVE TypeOK'
<1>1. stage \in required /\ state \in LLBState
  BY DEF FinishStage, Flow, Ascending, TypeOK
<1>2. DOMAIN states' = DOMAIN states \cup {stage}
  BY DEF FinishStage
<1>3. \A i \in DOMAIN states' : states'[i] = IF i = stage THEN state ELSE states[i]
  BY <1>2 DEF FinishStage
<1>4. \A i \in DOMAIN states' : states'[i] \in LLBState
  BY <1>1, <1>2, <1>3 DEF TypeOK
<1>5. DOMAIN states' \subseteq required
  BY <1>1, <1>2 DEF TypeOK
<1>6. phase' \in Phases
  BY DEF FinishStage, Phases
<1> QED BY <1>4, <1>5, <1>6
        DEF FinishStage, TypeOK, parserVars, resultVars, LastPlatform, MultiPlatform

LEMMA SolveType == ASSUME TypeOK, Flow, Solve PROVE TypeOK'
<1>1. platform \in Nat /\ ResultOK
  BY PlatformIsNat
<1>2. CASE PlatformFails(platform, "solve")
  <2>1. ResultOK'
    BY <1>1, <1>2, PlatformFailsType DEF Causes
  <2> QED BY <2>1, OutsideType DEF Solve, Outside
<1>3. CASE ~PlatformFails(platform, "solve")
  <2>1. /\ images' = Append(images, [platform |-> Platform, state |-> states[target], args |-> args])
        /\ phase' = IF MultiPlatform THEN "platform" ELSE "export"
        /\ UNCHANGED <<failures, outcome>>
    BY <1>3 DEF Solve
  <2>2. target \in DOMAIN states
    <3>1. target \in required
      BY DEF Solve, Flow, Searching, Searched
    <3> QED BY <3>1 DEF Solve, Unconverted
  <2>3. states[target] \in LLBState /\ args \in ArgMaps
    BY <2>2 DEF TypeOK
  <2>4. Platform \in Platforms \cup {NoPlatform}
    BY DEF TypeOK, Request, Platform
  <2>5. [platform |-> Platform, state |-> states[target], args |-> args] \in Image
    BY <2>3, <2>4 DEF Image
  <2>6. images' \in Seq(Image)
    BY <1>1, <2>1, <2>5 DEF ResultOK
  <2>7. ResultOK'
    BY <1>1, <2>1, <2>6 DEF ResultOK, Phases
  <2> QED BY <2>7, OutsideType DEF Solve, Outside
<1> QED BY <1>2, <1>3

LEMMA NextType == ASSUME TypeOK, Flow, [Next]_vars PROVE TypeOK'
<1>1. CASE ParseFrom \/ ParseArg \/ ParseOperand \/ ParseCopy
  BY <1>1, ParseFromType, ParseArgType, ParseOperandType, ParseCopyType
<1>2. CASE EarlyInstruction \/ EndOfFile \/ Prepare \/ PlatformsTried \/ ExportCache
  BY <1>2, PreparationType
<1>3. CASE StartPlatform \/ EnterStage \/ StagesFound
  BY <1>3, SearchType
<1>4. CASE ConvertFrom
  BY <1>4, ConvertFromType
<1>5. CASE ConvertRun \/ ConvertCopy \/ ConvertSet \/ ConvertCommand \/ ConvertList \/ ConvertArg
  BY <1>5, ConversionType
<1>6. CASE FinishStage
  BY <1>6, FinishStageType
<1>7. CASE Solve
  BY <1>7, SolveType
<1>8. CASE UNCHANGED vars
  BY <1>8 DEF TypeOK, vars, parserVars, convertVars, resultVars, LastPlatform, MultiPlatform
<1> QED BY <1>1, <1>2, <1>3, <1>4, <1>5, <1>6, <1>7, <1>8
        DEF Next, Parse, Convert, Finish, Terminated

-----------------------------------------------------------------------------
(* The flow of the build. *)

LEMMA InitFlow == Init => Flow /\ ReferencesResolve
BY DEF Init, Flow, Accepted, Searching, Searched, Ascending, NothingFailedYet, ReferencesResolve

LEMMA SeveralStages ==
  ASSUME stages \in Seq(Stage), stages # << >>, Len(stages) # 1
  PROVE  Len(stages) > 1
<1> DEFINE n == Len(stages)
<1>1. n \in Nat \ {0} /\ n # 1
  BY EmptySeq
<1>2. n > 1
  <2> HIDE DEF n
  <2> QED BY <1>1
<1> QED BY <1>2

(* A dependency of a stage precedes it, unless the Dockerfile has one stage. *)
LEMMA DependenciesPrecede ==
  ASSUME TypeOK, BuilderAccepts(stages, request.target), stages # << >>, Len(stages) # 1,
         NEW i \in DOMAIN stages
  PROVE  \A d \in Dependencies(stages, i) : d \in DOMAIN stages /\ d < i
<1>1. stages \in Seq(Stage)
  BY DEF TypeOK
<1>2. Len(stages) > 1
  BY <1>1, SeveralStages
<1> QED BY <1>1, <1>2, DependenciesAreStages DEF BuilderAccepts

(* Every stage a stage refers to is converted before it. *)
LEMMA DependenciesConverted ==
  ASSUME TypeOK, Flow, phase \in {"from", "body"}, Len(stages) # 1,
         NEW i \in required, \A j \in required : j < i => j \in DOMAIN states
  PROVE  Dependencies(stages, i) \subseteq DOMAIN states
<1>1. i \in DOMAIN stages /\ BuilderAccepts(stages, request.target) /\ stages # << >>
  BY DEF TypeOK, Flow, Accepted
<1>2. Dependencies(stages, i) \subseteq required
  BY DEF Flow, Searching, Searched
<1>3. \A d \in Dependencies(stages, i) : d < i
  BY <1>1, DependenciesPrecede
<1> QED BY <1>2, <1>3

(* A search step keeps what was found closed, up to what is pending. *)
LEMMA EnterStageFlow == ASSUME TypeOK, Flow, EnterStage PROVE Flow'
<1>1. PICK i \in pending :
        /\ pending' = (pending \ {i}) \cup
                         (IF i \in required THEN {} ELSE Dependencies(stages, i))
        /\ required' = required \cup {i}
  BY DEF EnterStage
<1>2. phase' = phase /\ phase = "require" /\ UNCHANGED <<request, stages, target, failures>>
  BY DEF EnterStage, parserVars, resultVars
<1>3. Searching
  BY DEF Flow
<1>4. TargetFound' /\ target' = TargetIndex' /\ target' \in DOMAIN stages'
  BY <1>2, <1>3 DEF Searching, TargetIndex, TargetFound
<1>5. target' \in required' \cup pending'
  BY <1>1, <1>2, <1>3 DEF Searching
<1>6. \A j \in required' : Dependencies(stages', j) \subseteq required' \cup pending'
  BY <1>1, <1>2, <1>3 DEF Searching
<1>7. ASSUME NEW S \in SUBSET DOMAIN stages', target' \in S, Closed(S)'
      PROVE  required' \cup pending' \subseteq S
  <2>1. S \in SUBSET DOMAIN stages /\ target \in S /\ Closed(S)
    BY <1>2, <1>7 DEF Closed
  <2>2. required \cup pending \subseteq S
    BY <1>2, <1>3, <2>1 DEF Searching
  <2>3. Dependencies(stages, i) \subseteq S
    BY <1>1, <2>1, <2>2 DEF Closed
  <2> QED BY <1>1, <2>2, <2>3
<1>8. Searching'
  BY <1>4, <1>5, <1>6, <1>7 DEF Searching
<1> QED BY <1>2, <1>8 DEF Flow, Accepted, Searched, Ascending, NothingFailedYet

(* Between steps of a search or a conversion nothing it relies on changes. *)
LEMMA SteadyFlow ==
  ASSUME TypeOK, Flow, UNCHANGED <<request, stages, target, pending, required>>,
         phase' \in {"import", "platform", "export", "done"},
         phase \in {"context", "import", "platform", "require", "from", "body", "export"}
             \/ phase' = "done"
  PROVE  Flow'
BY DEF Flow, Accepted, Searching, Searched, Ascending, NothingFailedYet

LEMMA ParseFlow ==
  ASSUME TypeOK, Flow, ParseFrom \/ ParseArg \/ ParseOperand \/ ParseCopy
  PROVE  Flow' /\ UNCHANGED failures /\ failures = {}
<1>1. ReadLine
  BY DEF ParseFrom, ParseArg, ParseOperand, ParseCopy, AddInstruction
<1> QED BY <1>1 DEF ReadLine, Flow, Accepted, Searching, Searched, Ascending,
                    NothingFailedYet, resultVars

LEMMA PreparationFlow ==
  ASSUME TypeOK, Flow,
         EarlyInstruction \/ EndOfFile \/ Prepare \/ PlatformsTried \/ ExportCache
  PROVE  Flow'
<1>1. UNCHANGED <<request, stages, target, pending, required>>
  BY DEF EarlyInstruction, EndOfFile, Prepare, ValidateRequest, PrepareContext, ImportCache,
         PlatformsTried, ExportCache, parserVars, convertVars
<1>2. CASE EarlyInstruction \/ EndOfFile
  BY <1>1, <1>2 DEF EarlyInstruction, EndOfFile, Fail, Return, Flow, Accepted, Searching,
                    Searched, Ascending, NothingFailedYet
<1>3. CASE ValidateRequest
  <2>2. CASE RequestAccepted
    <3>1. phase = "validate" /\ phase' = "context" /\ failures' = failures
      BY <1>3, <2>2 DEF ValidateRequest, resultVars
    <3> QED BY <1>1, <2>2, <3>1
            DEF Flow, Accepted, Searching, Searched, Ascending, NothingFailedYet, RequestAccepted
  <2>3. CASE ~RequestAccepted
    BY <1>1, <1>3, <2>3, SteadyFlow DEF ValidateRequest, Fail, Return
  <2> QED BY <2>2, <2>3
<1>4. CASE PrepareContext \/ ImportCache \/ PlatformsTried \/ ExportCache
  BY <1>1, <1>4, SteadyFlow
     DEF PrepareContext, ImportCache, PlatformsTried, ExportCache, Fail, Return
<1> QED BY <1>2, <1>3, <1>4 DEF Prepare

LEMMA StartPlatformFlow == ASSUME TypeOK, Flow, StartPlatform PROVE Flow'
<1>1. stages \in Seq(Stage) /\ stages # << >> /\ UNCHANGED <<request, stages>>
      /\ BuilderAccepts(stages, request.target)
      /\ (request.validated => ParserAccepts(stages))
  BY DEF StartPlatform, parserVars, TypeOK, Flow, Accepted
<1>2. CASE TargetFound
  <2>1. /\ phase' = "require" /\ target' = TargetIndex /\ pending' = {TargetIndex}
        /\ required' = {} /\ failures' = failures
    BY <1>2 DEF StartPlatform, resultVars
  <2>2. TargetIndex \in DOMAIN stages
    <3>1. CASE request.target = NoWord
      <4>1. Len(stages) \in Nat \ {0}
        BY <1>1, EmptySeq
      <4> QED BY <1>1, <3>1, <4>1 DEF TargetIndex
    <3>2. CASE request.target # NoWord
      BY <1>1, <1>2, <3>2, FirstStageNamedIsAStage DEF TargetFound, TargetIndex
    <3> QED BY <3>1, <3>2
  <2>3. TargetIndex' = TargetIndex /\ TargetFound'
    BY <1>1, <1>2 DEF TargetIndex, TargetFound
  <2>4. Searching'
    BY <1>1, <2>1, <2>2, <2>3 DEF Searching
  <2> QED BY <1>1, <2>1, <2>4 DEF Flow, Accepted, Searched, Ascending, NothingFailedYet
<1>3. CASE ~TargetFound
  <2>1. PlatformFails(platform + 1, "target")
    BY <1>3 DEF StartPlatform
  <2>2. phase' \in {"platform", "done"}
    BY <2>1 DEF PlatformFails, Fail, Return
  <2> QED BY <1>1, <2>2 DEF Flow, Accepted, Searching, Searched, Ascending, NothingFailedYet
<1> QED BY <1>2, <1>3

(* The steps of a conversion change nothing the search established. *)
LEMMA SearchKept ==
  ASSUME TypeOK, Flow, phase \in {"require", "from", "body"},
         UNCHANGED <<request, stages, target, pending, required>>
  PROVE  Searching'
<1>1. Searching
  BY DEF Flow
<1>2. TargetIndex' = TargetIndex /\ (TargetFound' <=> TargetFound)
  BY DEF TargetIndex, TargetFound
<1>3. \A S : Closed(S)' <=> Closed(S)
  BY DEF Closed
<1> QED BY <1>1, <1>2, <1>3 DEF Searching

LEMMA ConversionFlow ==
  ASSUME TypeOK, Flow,
         \/ StagesFound \/ ConvertFrom \/ FinishStage \/ Solve
         \/ ConvertRun \/ ConvertCopy \/ ConvertSet \/ ConvertCommand \/ ConvertList \/ ConvertArg
  PROVE  Flow'
<1>1. /\ phase \in {"require", "from", "body"}
      /\ UNCHANGED <<request, stages, target, pending, required>>
  BY DEF StagesFound, ConvertFrom, FinishStage, Solve, ConvertRun, ConvertCopy, ConvertSet, ConvertCommand,
         ConvertList, ConvertArg, Converting, parserVars, convertVars
<1>2. Searching'
  BY <1>1, SearchKept
<1>3. ASSUME phase' \in {"platform", "done", "export"} PROVE Flow'
  BY <1>1, <1>2, <1>3 DEF Flow, Accepted, Searched, Ascending, NothingFailedYet
<1>4. ASSUME NEW p, NEW cause, PlatformFails(p, cause) PROVE Flow'
  BY <1>3, <1>4 DEF PlatformFails, Fail, Return
<1>5. CASE StagesFound
  BY <1>1, <1>2, <1>5 DEF StagesFound, Flow, Accepted, Searched, Ascending, NothingFailedYet
<1>6. CASE ConvertFrom
  <2>1. CASE PlatformFails(platform, "reference")
    BY <1>4, <2>1
  <2>2. CASE ~PlatformFails(platform, "reference")
    <3>1. phase' = "body" /\ stage' = NextStage /\ next' = 1 /\ states' = states
          /\ phase = "from"
      BY <1>6, <2>2 DEF ConvertFrom
    <3>2. NextStage \in required /\ \A j \in required : j < NextStage => j \in DOMAIN states
      BY <1>6, NextStageIsLeast DEF ConvertFrom
    <3>3. Ascending'
      BY <1>1, <3>1, <3>2 DEF Ascending
    <3> QED BY <1>1, <1>2, <3>1, <3>3 DEF Flow, Accepted, Searched, NothingFailedYet
  <2> QED BY <2>1, <2>2
<1>7. CASE FinishStage
  BY <1>1, <1>2, <1>7 DEF FinishStage, Flow, Accepted, Searched, Ascending, NothingFailedYet
<1>8. CASE Solve
  <2>1. CASE PlatformFails(platform, "solve")
    BY <1>4, <2>1
  <2>2. CASE ~PlatformFails(platform, "solve")
    BY <1>3, <1>8, <2>2 DEF Solve
  <2> QED BY <2>1, <2>2
<1>9. CASE ConvertRun \/ ConvertCopy \/ ConvertSet \/ ConvertCommand \/ ConvertList \/ ConvertArg
  <2>1. phase = "body" /\ UNCHANGED <<states, stage>>
    BY <1>9 DEF ConvertRun, ConvertCopy, ConvertSet, ConvertCommand, ConvertList, ConvertArg, Converting
  <2>2. PlatformFails(platform, "reference") \/ Converted
    BY <1>9 DEF ConvertRun, ConvertCopy, ConvertSet, ConvertCommand, ConvertList, ConvertArg
  <2>3. CASE Converted
    <3>1. phase' = "body" /\ next' = next + 1
      BY <2>1, <2>3 DEF Converted
    <3>2. Ascending'
      BY <1>1, <2>1, <3>1 DEF Flow, Ascending
    <3> QED BY <1>1, <1>2, <2>1, <3>1, <3>2 DEF Flow, Accepted, Searched, NothingFailedYet
  <2> QED BY <1>4, <2>2, <2>3
<1> QED BY <1>5, <1>6, <1>7, <1>8, <1>9

LEMMA NextFlow == ASSUME TypeOK, Flow, [Next]_vars PROVE Flow'
<1>1. CASE ParseFrom \/ ParseArg \/ ParseOperand \/ ParseCopy
  BY <1>1, ParseFlow
<1>2. CASE EarlyInstruction \/ EndOfFile \/ Prepare \/ PlatformsTried \/ ExportCache
  BY <1>2, PreparationFlow
<1>3. CASE StartPlatform
  BY <1>3, StartPlatformFlow
<1>4. CASE EnterStage
  BY <1>4, EnterStageFlow
<1>5. CASE \/ StagesFound \/ ConvertFrom \/ FinishStage \/ Solve
           \/ ConvertRun \/ ConvertCopy \/ ConvertSet \/ ConvertCommand \/ ConvertList \/ ConvertArg
  BY <1>5, ConversionFlow
<1>6. CASE UNCHANGED vars
  <2>1. \A S : Closed(S)' <=> Closed(S)
    BY <1>6 DEF Closed, vars, parserVars
  <2>2. TargetIndex' = TargetIndex /\ (TargetFound' <=> TargetFound)
    BY <1>6 DEF TargetIndex, TargetFound, vars, parserVars
  <2> QED BY <1>6, <2>1, <2>2 DEF Flow, Accepted, Searching, Searched, Ascending,
             NothingFailedYet, vars, parserVars, convertVars, resultVars
<1> QED BY <1>1, <1>2, <1>3, <1>4, <1>5, <1>6 DEF Next, Parse, Convert, Finish, Terminated

-----------------------------------------------------------------------------
(* Where a validated Dockerfile has two stages or more, no step fails for   *)
(* want of a target or of a referenced stage.                               *)
LEMMA NextResolves ==
  ASSUME TypeOK, Flow, ReferencesResolve, [Next]_vars
  PROVE  ReferencesResolve'
<1>1. CASE ParseFrom \/ ParseArg \/ ParseOperand \/ ParseCopy
  BY <1>1, ParseFlow DEF ReferencesResolve
<1>2. ASSUME UNCHANGED stages, NEW p, NEW cause \in Causes \ {"reference", "target"},
             failures' \subseteq failures \cup {<<p, cause>>}
      PROVE  ReferencesResolve'
  BY <1>2 DEF ReferencesResolve
<1>3. ASSUME UNCHANGED stages, failures' \subseteq failures PROVE ReferencesResolve'
  BY <1>3 DEF ReferencesResolve
<1>4. CASE EarlyInstruction \/ EndOfFile \/ Prepare \/ PlatformsTried \/ ExportCache
  <2>1. UNCHANGED stages
    BY <1>4 DEF EarlyInstruction, EndOfFile, Prepare, ValidateRequest, PrepareContext,
                ImportCache, PlatformsTried, ExportCache, parserVars
  <2>2. \/ failures' \subseteq failures
        \/ \E cause \in Causes \ {"reference", "target"} :
               failures' \subseteq failures \cup {<<platform, cause>>}
    BY <1>4 DEF EarlyInstruction, EndOfFile, Prepare, ValidateRequest, PrepareContext,
                ImportCache, PlatformsTried, ExportCache, Fail, Return, resultVars, Causes
  <2> QED BY <1>2, <1>3, <2>1, <2>2
<1>5. ASSUME UNCHANGED stages, Len(stages) = 1 PROVE ReferencesResolve'
  BY <1>5 DEF ReferencesResolve
<1>6. CASE StartPlatform
  <2>1. UNCHANGED stages /\ stages # << >> /\ stages \in Seq(Stage)
        /\ BuilderAccepts(stages, request.target)
    BY <1>6 DEF StartPlatform, parserVars, TypeOK, Flow, Accepted
  <2>2. CASE Len(stages) # 1
    <3>1. Len(stages) > 1
      BY <2>1, <2>2, SeveralStages
    <3>2. TargetFound
      BY <2>1, <3>1 DEF BuilderAccepts, TargetFound
    <3>3. failures' = failures
      BY <1>6, <3>2 DEF StartPlatform, resultVars
    <3> QED BY <1>3, <2>1, <3>3
  <2> QED BY <1>5, <2>1, <2>2
<1>7. CASE ConvertFrom
  <2>1. UNCHANGED stages /\ phase = "from" /\ stages \in Seq(Stage)
    BY <1>7 DEF ConvertFrom, parserVars, TypeOK
  <2>2. CASE Len(stages) # 1
    <3>1. /\ NextStage \in required /\ NextStage \in DOMAIN stages
          /\ \A j \in required : j < NextStage => j \in DOMAIN states
      BY <1>7, NextStageIsLeast DEF ConvertFrom
    <3>2. Dependencies(stages, NextStage) \subseteq DOMAIN states
      BY <2>1, <2>2, <3>1, DependenciesConverted
    <3> DEFINE s == stages[NextStage]
    <3>3. s.from.ref = "stage" => StageAvailable(s.from.word)
      <4> SUFFICES ASSUME s.from.ref = "stage" PROVE StageAvailable(s.from.word)
        OBVIOUS
      <4>1. Len(stages) > 1
        <5>1. stages # << >>
          BY <2>1 DEF Flow, Accepted
        <5> QED BY <2>1, <2>2, <5>1, SeveralStages
      <4>2. HasStage(stages, s.from.word)
        BY <2>1, <3>1, <4>1 DEF Flow, Accepted, BuilderAccepts
      <4> QED BY <2>1, <3>1, <3>2, <4>2, BaseIsADependency DEF StageAvailable
    <3>4. failures' = failures
      BY <1>7, <3>3 DEF ConvertFrom, resultVars
    <3> QED BY <1>3, <2>1, <3>4
  <2> QED BY <1>5, <2>1, <2>2
<1>8. CASE ConvertCopy
  <2>1. UNCHANGED stages /\ phase = "body" /\ stages \in Seq(Stage) /\ Converting("copy")
    BY <1>8 DEF ConvertCopy, Converting, parserVars, TypeOK
  <2>2. CASE Len(stages) # 1
    <3>1. /\ stage \in required
          /\ \A j \in required : j < stage => j \in DOMAIN states
      BY <2>1 DEF Flow, Ascending
    <3>2. Dependencies(stages, stage) \subseteq DOMAIN states
      BY <2>1, <2>2, <3>1, DependenciesConverted
    <3>3. /\ stage \in DOMAIN stages /\ next \in DOMAIN stages[stage].body
          /\ Instr.op = "copy" /\ Instr = stages[stage].body[next]
      BY <2>1, InstrType DEF Instr
    <3>4. ~(Instr.word = NoWord \/ ~HasStage(stages, Instr.word)) => StageAvailable(Instr.word)
      BY <2>1, <3>2, <3>3, CopiedIsADependency DEF StageAvailable
    <3>5. failures' = failures
      BY <1>8, <3>4 DEF ConvertCopy, Converted, resultVars
    <3> QED BY <1>3, <2>1, <3>5
  <2> QED BY <1>5, <2>1, <2>2
<1>9. CASE Solve
  <2>1. UNCHANGED stages
    BY <1>9 DEF Solve, parserVars
  <2>2. failures' \subseteq failures \/ failures' \subseteq failures \cup {<<platform, "solve">>}
    BY <1>9 DEF Solve, PlatformFails, Fail, Return
  <2>3. "solve" \in Causes \ {"reference", "target"}
    BY DEF Causes
  <2> QED BY <1>2, <1>3, <2>1, <2>2, <2>3
<1>10. CASE \/ EnterStage \/ StagesFound \/ FinishStage \/ UNCHANGED vars
            \/ ConvertRun \/ ConvertSet \/ ConvertCommand \/ ConvertList \/ ConvertArg
  <2>1. UNCHANGED <<stages, failures>>
    BY <1>10 DEF EnterStage, StagesFound, FinishStage, ConvertRun, ConvertSet, ConvertCommand, ConvertList,
                 ConvertArg, Converting, Converted, vars, parserVars, resultVars
  <2> QED BY <1>3, <2>1
<1> QED BY <1>1, <1>4, <1>6, <1>7, <1>8, <1>9, <1>10
        DEF Next, Parse, Convert, Finish, Terminated

-----------------------------------------------------------------------------
(* The invariant is inductive. *)
THEOREM Invariance == Spec => []IInv
<1>1. Init => IInv
  BY InitType, InitFlow DEF IInv
<1>2. IInv /\ [Next]_vars => IInv'
  BY NextType, NextFlow, NextResolves DEF IInv
<1> QED BY <1>1, <1>2, PTL DEF Spec

(* Every variable keeps its type: in particular no index of the parser, of  *)
(* the search or of the conversion leaves the Dockerfile (llb_converter.go).*)
THEOREM TypeCorrect == Spec => []TypeOK
<1>1. IInv => TypeOK
  BY DEF IInv
<1> QED BY <1>1, Invariance, PTL

(* A Dockerfile of two stages or more that validateMultiStageBuild accepts  *)
(* is converted, for every target and platform, without a reference to a    *)
(* stage that is missing or not yet converted.                              *)
THEOREM ValidatedReferencesResolve == Spec => []ReferencesResolve
<1>1. IInv => ReferencesResolve
  BY DEF IInv
<1> QED BY <1>1, Invariance, PTL

(* findRequiredStages returns the least set of stages that holds the target *)
(* and is closed under FROM and COPY --from.                                *)
THEOREM RequiredStagesAreLeast == Spec => []RequiredIsLeast
<1>1. IInv => RequiredIsLeast
  BY DEF IInv, Flow, Searching, Searched, RequiredIsLeast, Closed
<1> QED BY <1>1, Invariance, PTL

(* Behind ParserImpl.Validate the stage Convert builds is the stage every   *)
(* reference of the target's name means.                                    *)
THEOREM TargetUnambiguous == Spec => []TargetIsUnambiguous
<1>1. IInv => TargetIsUnambiguous
  <2> SUFFICES ASSUME IInv, request.validated, request.target # NoWord,
                      phase \in {"require", "from", "body"}
               PROVE  target = StageNamed(stages, request.target)
    BY DEF TargetIsUnambiguous
  <2> DEFINE w == request.target
  <2>1. /\ TargetFound /\ target = TargetIndex
        /\ ParserAccepts(stages) /\ stages \in Seq(Stage)
    BY DEF IInv, Flow, Searching, Accepted, TypeOK
  <2>2. HasStage(stages, w) /\ target = FirstStageNamed(stages, w)
    BY <2>1 DEF TargetIndex, TargetFound
  <2>3. /\ StageNamed(stages, w) \in DOMAIN stages
        /\ stages[StageNamed(stages, w)].name = w
        /\ target \in DOMAIN stages /\ stages[target].name = w
    BY <2>1, <2>2, StageNamedIsAStage, FirstStageNamedIsAStage
  <2> QED BY <2>1, <2>3 DEF ParserAccepts
<1> QED BY <1>1, Invariance, PTL

(* References and targets of accepted Dockerfiles are found, and found to   *)
(* be the same stage by everyone who looks them up.                         *)
THEOREM LookupsAgree == Spec => []ReferencesAgree
<1>1. ReferencesResolve /\ TargetIsUnambiguous => ReferencesAgree
  BY DEF ReferencesAgree
<1> QED BY <1>1, ValidatedReferencesResolve, TargetUnambiguous, PTL

(* No ARG default ever replaces a build argument the caller gave, in any    *)
(* platform's conversion (convertArgInstruction).                           *)
THEOREM CallersArgsAreKept == Spec => []UserArgsKept
<1>1. Init => UserArgsKept
  BY DEF Init, UserArgsKept
<1>2. IInv /\ UserArgsKept /\ [Next]_vars => UserArgsKept'
  <2> SUFFICES ASSUME IInv, UserArgsKept, [Next]_vars PROVE UserArgsKept'
    OBVIOUS
  <2>1. request' = request /\ args \in ArgMaps /\ images \in Seq(Image)
    BY DEF IInv, TypeOK, Next, Parse, Prepare, Convert, Finish, Terminated, ParseFrom, ParseArg,
           ParseOperand, ParseCopy, AddInstruction, ReadLine, EarlyInstruction, EndOfFile,
           ValidateRequest, PrepareContext, ImportCache, StartPlatform, PlatformsTried, EnterStage,
           StagesFound, ConvertFrom, ConvertRun, ConvertCopy, ConvertSet, ConvertCommand, ConvertList, ConvertArg,
           Converting, FinishStage, Solve, ExportCache, vars
  <2>2. ASSUME UNCHANGED <<args, images>> PROVE UserArgsKept'
    BY <2>1, <2>2 DEF UserArgsKept
  <2>3. CASE ConvertArg
    <3>1. images' = images
      BY <2>3 DEF ConvertArg, Converted, resultVars
    <3>2. \A a \in ArgNames : args[a] # NoWord => args'[a] = args[a]
      BY <2>1, <2>3 DEF ConvertArg, ArgMaps
    <3>3. \A a \in ArgNames : request.args[a] # NoWord => args[a] # NoWord
      BY DEF UserArgsKept
    <3> QED BY <2>1, <3>1, <3>2, <3>3 DEF UserArgsKept
  <2>4. CASE Solve
    <3>1. args' = args
      BY <2>4 DEF Solve
    <3> DEFINE new == [platform |-> Platform, state |-> states[target], args |-> args]
    <3>2. images' = images \/ images' = Append(images, new)
      BY <2>4 DEF Solve, PlatformFails, Fail, Return
    <3>3. CASE images' = images
      BY <2>2, <3>1, <3>3
    <3>4. CASE images' = Append(images, new)
      <4> HIDE DEF new
      <4>1. \A k \in DOMAIN images' : images'[k] = new \/ (k \in DOMAIN images /\ images'[k] = images[k])
        BY <2>1, <3>4
      <4>2. new.args = args
        BY DEF new
      <4> QED BY <2>1, <3>1, <4>1, <4>2 DEF UserArgsKept
    <3> QED BY <3>2, <3>3, <3>4
  <2>5. CASE ~ConvertArg /\ ~Solve
    <3>1. args' = args
      BY <2>5 DEF Next, Parse, Prepare, Convert, Finish, Terminated, ParseFrom, ParseArg,
           ParseOperand, ParseCopy, AddInstruction, ReadLine, EarlyInstruction, EndOfFile,
           ValidateRequest, PrepareContext, ImportCache, StartPlatform, PlatformsTried, EnterStage,
           StagesFound, ConvertFrom, ConvertRun, ConvertCopy, ConvertSet, ConvertCommand, ConvertList,
           FinishStage, ExportCache, vars
    <3>2. images' = images
      BY <2>5 DEF Next, Parse, Prepare, Convert, Finish, Terminated, ParseFrom, ParseArg,
           ParseOperand, ParseCopy, AddInstruction, ReadLine, EarlyInstruction, EndOfFile,
           ValidateRequest, PrepareContext, ImportCache, StartPlatform, PlatformsTried, EnterStage,
           StagesFound, ConvertFrom, ConvertRun, ConvertCopy, ConvertSet, ConvertCommand, ConvertList,
           Converting, Converted, FinishStage, ExportCache, vars, resultVars,
           PlatformFails, Fail, Return
    <3> QED BY <2>2, <3>1, <3>2
  <2> QED BY <2>3, <2>4, <2>5
<1> QED BY <1>1, <1>2, Invariance, PTL DEF Spec

-----------------------------------------------------------------------------
(* The first stage of a file the validator accepts refers to no stage.      *)
LEMMA FirstStageRefersToNone ==
  ASSUME stages \in Seq(Stage), ValidatorAccepts(stages), 1 \in DOMAIN stages
  PROVE  /\ stages[1].from.ref # "stage"
         /\ \A k \in DOMAIN stages[1].body :
                stages[1].body[k].op = "copy" => stages[1].body[k].word = NoWord
<1>1. \A j : j \notin 1..(1 - 1)
  OBVIOUS
<1> QED BY <1>1 DEF ValidatorAccepts, ReferenceAccepted

(* What the validator accepts the builder accepts, if it finds the target.  *)
LEMMA ValidatorImpliesBuilder ==
  ASSUME stages \in Seq(Stage), ValidatorAccepts(stages), NoStageIsANumber, TargetFound
  PROVE  BuilderAccepts(stages, request.target)
<1>1. DOMAIN stages = 1..Len(stages) /\ Len(stages) \in Nat
  OBVIOUS
<1>2. ASSUME NEW i \in DOMAIN stages, NEW w, NEW j \in 1..(i - 1), stages[j].name = w, w # NoWord
      PROVE  HasStage(stages, w) /\ StageNamed(stages, w) < i
  <2>1. j \in DOMAIN stages /\ j < i
    BY <1>1, <1>2
  <2>2. HasStage(stages, w)
    BY <1>2, <2>1 DEF HasStage
  <2>3. StageNamed(stages, w) \in DOMAIN stages /\ stages[StageNamed(stages, w)].name = w
    BY <2>2, StageNamedIsAStage
  <2>4. StageNamed(stages, w) = j
    BY <1>2, <2>1, <2>3 DEF ValidatorAccepts, ParserAccepts
  <2> QED BY <2>1, <2>2, <2>4
<1>3. ASSUME NEW i \in DOMAIN stages, stages[i].from.ref = "stage"
      PROVE  /\ HasStage(stages, stages[i].from.word)
             /\ StageNamed(stages, stages[i].from.word) < i
  <2>1. stages[i] \in Stage
    OBVIOUS
  <2>2. stages[i].from.word # NoWord
    BY <2>1, WordsAssumption DEF Stage, FromInstruction, Words
  <2>3. PICK j \in 1..(i - 1) : stages[j].name = stages[i].from.word
    BY <1>3 DEF ValidatorAccepts
  <2> QED BY <1>2, <2>2, <2>3
<1>4. ASSUME NEW i \in DOMAIN stages, NEW d \in Dependencies(stages, i) PROVE d < i
  <2>1. PICK w \in References(stages[i]) :
          w # NoWord /\ HasStage(stages, w) /\ d = StageNamed(stages, w)
    BY DEF Dependencies
  <2>2. CASE stages[i].from.ref = "stage" /\ w = stages[i].from.word
    BY <1>3, <2>1, <2>2
  <2>3. CASE \E k \in DOMAIN stages[i].body :
               stages[i].body[k].op = "copy" /\ w = stages[i].body[k].word
    <3>1. ReferenceAccepted(stages, i, w)
      BY <2>1, <2>3 DEF ValidatorAccepts
    <3>2. w \notin Numerals
      BY <2>1 DEF HasStage, NoStageIsANumber
    <3>3. PICK j \in 1..(i - 1) : stages[j].name = w
      BY <3>1, <3>2 DEF ReferenceAccepted
    <3> QED BY <1>2, <2>1, <3>3
  <2> QED BY <2>1, <2>2, <2>3 DEF References
<1> QED BY <1>3, <1>4 DEF BuilderAccepts, TargetFound

(* The reasons a step adds to those for which a build failed. *)
LEMMA NewFailures ==
  ASSUME TypeOK, Flow, [Next]_vars, NEW f \in failures', f \notin failures
  PROVE  /\ UNCHANGED <<stages, request>>
         /\ f[2] = "validate" => ~RequestAccepted
         /\ f[2] = "reference" =>
               \/ ConvertFrom /\ stages[NextStage].from.ref = "stage"
               \/ ConvertCopy /\ Instr.word # NoWord
<1>1. ASSUME NEW p, NEW cause, failures' \subseteq failures \cup {<<p, cause>>} PROVE f[2] = cause
  BY <1>1
<1>2. CASE ParseFrom \/ ParseArg \/ ParseOperand \/ ParseCopy
  BY <1>2, ParseFlow
<1>3. CASE EarlyInstruction \/ EndOfFile \/ PrepareContext \/ ImportCache \/ ExportCache
            \/ PlatformsTried
  <2>1. UNCHANGED <<stages, request>>
    BY <1>3 DEF EarlyInstruction, EndOfFile, PrepareContext, ImportCache, ExportCache,
                PlatformsTried, parserVars
  <2>2. \/ failures' \subseteq failures
        \/ \E cause \in {"ARG before FROM", "instruction before FROM", "no FROM", "context",
                         "import", "export"} : failures' \subseteq failures \cup {<<platform, cause>>}
    BY <1>3 DEF EarlyInstruction, EndOfFile, PrepareContext, ImportCache, ExportCache,
                PlatformsTried, Fail, Return, resultVars
  <2> QED BY <1>1, <2>1, <2>2
<1>4. CASE ValidateRequest
  <2>1. UNCHANGED <<stages, request>> /\ (RequestAccepted => failures' \subseteq failures)
    BY <1>4 DEF ValidateRequest, parserVars, resultVars
  <2>2. ~RequestAccepted => failures' \subseteq failures \cup {<<platform, "validate">>}
    BY <1>4 DEF ValidateRequest, Fail, Return
  <2> QED BY <1>1, <2>1, <2>2
<1>5. CASE StartPlatform \/ Solve
  <2>1. UNCHANGED <<stages, request>>
    BY <1>5 DEF StartPlatform, Solve, parserVars
  <2>2. \/ failures' \subseteq failures
        \/ \E p \in {platform, platform + 1}, cause \in {"target", "solve"} :
               failures' \subseteq failures \cup {<<p, cause>>}
    BY <1>5 DEF StartPlatform, Solve, PlatformFails, Fail, Return, resultVars
  <2> QED BY <1>1, <2>1, <2>2
<1>6. CASE ConvertFrom
  <2>1. UNCHANGED <<stages, request>>
    BY <1>6 DEF ConvertFrom, parserVars
  <2>2. \/ failures' \subseteq failures
        \/ /\ stages[NextStage].from.ref = "stage"
           /\ failures' \subseteq failures \cup {<<platform, "reference">>}
    BY <1>6 DEF ConvertFrom, PlatformFails, Fail, Return, resultVars
  <2> QED BY <1>1, <1>6, <2>1, <2>2
<1>7. CASE ConvertCopy
  <2>1. UNCHANGED <<stages, request>>
    BY <1>7 DEF ConvertCopy, Converting, parserVars
  <2>2. \/ failures' \subseteq failures
        \/ Instr.word # NoWord /\ failures' \subseteq failures \cup {<<platform, "reference">>}
    BY <1>7 DEF ConvertCopy, PlatformFails, Fail, Return, Converted, resultVars
  <2> QED BY <1>1, <1>7, <2>1, <2>2
<1>8. CASE \/ EnterStage \/ StagesFound \/ FinishStage \/ UNCHANGED vars
           \/ ConvertRun \/ ConvertSet \/ ConvertCommand \/ ConvertList \/ ConvertArg
  <2>1. failures' \subseteq failures
    BY <1>8 DEF EnterStage, StagesFound, FinishStage, ConvertRun, ConvertSet, ConvertCommand,
                ConvertList, ConvertArg, Converting, Converted, vars, resultVars
  <2> QED BY <2>1
<1> QED BY <1>2, <1>3, <1>4, <1>5, <1>6, <1>7, <1>8
        DEF Next, Parse, Prepare, Convert, Finish, Terminated

LEMMA NextConverts ==
  ASSUME TypeOK, Flow, ReferencesResolve, ValidatedFilesConvert, [Next]_vars
  PROVE  ValidatedFilesConvert'
<1> SUFFICES ASSUME ValidatorAccepts(stages)', NoStageIsANumber', TargetFound',
                    (ElementsOf(request.platforms) \subseteq Supported)', NEW f \in failures'
             PROVE  f[2] \notin {"validate", "reference"}
  BY DEF ValidatedFilesConvert
<1>1. CASE ParseFrom \/ ParseArg \/ ParseOperand \/ ParseCopy
  BY <1>1, ParseFlow
<1>2. CASE ~(ParseFrom \/ ParseArg \/ ParseOperand \/ ParseCopy)
  <2>1. UNCHANGED <<stages, request>>
    BY <1>2 DEF Next, Parse, Prepare, Convert, Finish, Terminated, EarlyInstruction, EndOfFile,
         ValidateRequest, PrepareContext, ImportCache, StartPlatform, PlatformsTried, EnterStage,
         StagesFound, ConvertFrom, ConvertRun, ConvertCopy, ConvertSet, ConvertCommand,
         ConvertList, ConvertArg, Converting, FinishStage, Solve, ExportCache, vars, parserVars
  <2>2. /\ ValidatorAccepts(stages) /\ NoStageIsANumber /\ TargetFound
        /\ ElementsOf(request.platforms) \subseteq Supported /\ stages \in Seq(Stage)
    BY <2>1 DEF NoStageIsANumber, TargetFound, TypeOK
  <2>3. CASE f \in failures
    BY <2>2, <2>3 DEF ValidatedFilesConvert
  <2>4. CASE f \notin failures
    <3>1. RequestAccepted
      BY <2>2, ValidatorImpliesBuilder DEF RequestAccepted, ValidatorAccepts
    <3>2. f[2] # "validate"
      BY <2>4, <3>1, NewFailures
    <3>3. ASSUME f[2] = "reference" PROVE FALSE
      <4>1. Len(stages) = 1
        <5>1. ReferencesResolve'
          BY NextResolves
        <5> QED BY <2>1, <3>3, <5>1 DEF ReferencesResolve
      <4>2. DOMAIN stages = {1}
        BY <2>2, <4>1
      <4>3. CASE ConvertFrom /\ stages[NextStage].from.ref = "stage"
        <5>1. NextStage = 1
          BY <4>2, <4>3, NextStageIsLeast DEF ConvertFrom
        <5> QED BY <2>2, <4>2, <4>3, <5>1, FirstStageRefersToNone
      <4>4. CASE ConvertCopy /\ Instr.word # NoWord
        <5>1. /\ stage \in DOMAIN stages /\ next \in DOMAIN stages[stage].body
              /\ Instr = stages[stage].body[next] /\ Instr.op = "copy"
          BY <4>4, InstrType DEF ConvertCopy, Instr
        <5> QED BY <2>2, <4>2, <4>4, <5>1, FirstStageRefersToNone
      <4> QED BY <2>4, <3>3, <4>3, <4>4, NewFailures
    <3> QED BY <3>2, <3>3
  <2> QED BY <2>3, <2>4
<1> QED BY <1>1, <1>2

(* A file Validator.ValidateAST accepts, none of whose stages is named by a *)
(* number, is neither refused by builder.Build nor fails in the converter   *)
(* for want of a stage, for any target it has and any supported platforms.  *)
THEOREM ValidatorIsSound == Spec => []ValidatedFilesConvert
<1>1. Init => ValidatedFilesConvert
  BY DEF Init, ValidatedFilesConvert
<1>2. IInv /\ ValidatedFilesConvert /\ [Next]_vars => ValidatedFilesConvert'
  BY NextConverts DEF IInv
<1> QED BY <1>1, <1>2, Invariance, PTL DEF Spec

-----------------------------------------------------------------------------
(* What has become of the platforms of a request that names each once.      *)
OnePlatformEach ==
    \A r \in Requests : \A p, q \in DOMAIN r.platforms :
        r.platforms[p] = r.platforms[q] => p = q

Converts == phase \in {"require", "from", "body"}

(* The platforms whose conversion is over. *)
Tried == 1..(IF Converts THEN platform - 1 ELSE platform)

Matched ==
    /\ \A k \in DOMAIN images : \E p \in Tried : images[k].platform = request.platforms[p]
    /\ \A f \in failures : f[1] \in Tried
    /\ \A p \in Tried : SolvedFor(p) = {} <=> FailedFor(p)
    /\ InOrder

(* Nothing is solved or failed before the first platform, nor solved while  *)
(* a lone platform is converted; something is when the loop is over.        *)
Underway ==
    /\ request \in Requests
    /\ phase # "done" => outcome = "none"
    /\ phase \in {"parse", "validate", "context", "import"} =>
           platform = 0 /\ images = << >> /\ failures = {}
    /\ Converts => platform >= 1
    /\ ~MultiPlatform /\ (Converts \/ phase = "platform") => images = << >>
    /\ phase = "export" \/ outcome = "built" => images # << >>

(* What a build that failed returned as its errors. *)
Concluded ==
    outcome = "failed" =>
        /\ images # << >> => failures = {<<platform, "export">>}
        /\ images = << >> /\ MultiPlatform /\ platform # 0 =>
               \A p \in DOMAIN request.platforms : FailedFor(p)

PlatformInv ==
    /\ Underway /\ Concluded
    /\ MultiPlatform => InOrder
    /\ MultiPlatform /\ phase # "done" => Matched

LEMMA PlatformsDomain ==
  ASSUME TypeOK
  PROVE  /\ DOMAIN request.platforms = 1..Len(request.platforms)
         /\ Len(request.platforms) \in Nat /\ platform \in Nat
         /\ MultiPlatform => LastPlatform = Len(request.platforms)
                              /\ platform <= Len(request.platforms)
<1>1. request.platforms \in Seq(Platforms)
  BY DEF TypeOK, Request
<1>2. Len(request.platforms) \in Nat
  BY <1>1
<1>3. LastPlatform \in Nat
  BY <1>2 DEF LastPlatform
<1>4. platform \in Nat /\ platform <= LastPlatform
  BY <1>3 DEF TypeOK
<1> QED BY <1>1, <1>2, <1>4 DEF LastPlatform

(* A platform fails: it is tried, and has a cause and no image. *)
LEMMA FailureMatched ==
  ASSUME OnePlatformEach, TypeOK, Underway, Matched, NEW p \in DOMAIN request.platforms,
         NEW cause \in Causes, p \notin Tried, Tried \subseteq DOMAIN request.platforms,
         Tried' = Tried \cup {p}, UNCHANGED <<request, images>>,
         failures' = failures \cup {<<p, cause>>}
  PROVE  Matched'
<1>1. \A q \in DOMAIN request.platforms : SolvedFor(q)' = SolvedFor(q)
  BY DEF SolvedFor
<1>2. SolvedFor(p) = {}
  <2> SUFFICES ASSUME NEW k \in DOMAIN images, images[k].platform = request.platforms[p]
               PROVE  FALSE
    BY DEF SolvedFor
  <2>1. PICK q \in Tried : images[k].platform = request.platforms[q]
    BY DEF Matched
  <2> QED BY <2>1 DEF OnePlatformEach, Underway
<1>3. \A q \in Tried : FailedFor(q)' <=> FailedFor(q)
  BY DEF FailedFor
<1>4. FailedFor(p)'
  BY DEF FailedFor
<1>5. \A q \in Tried' : (SolvedFor(q) = {} <=> FailedFor(q))'
  BY <1>1, <1>2, <1>3, <1>4 DEF Matched
<1>6. \A f \in failures' : f[1] \in Tried'
  BY DEF Matched
<1>7. \A k \in DOMAIN images' : \E q \in Tried' : images'[k].platform = request'.platforms[q]
  BY DEF Matched
<1>8. InOrder'
  BY <1>1 DEF Matched, InOrder
<1> QED BY <1>5, <1>6, <1>7, <1>8 DEF Matched

(* A platform is solved: its image is the last. *)
LEMMA SolutionMatched ==
  ASSUME OnePlatformEach, TypeOK, Underway, Matched, NEW p \in DOMAIN request.platforms,
         NEW image, image.platform = request.platforms[p],
         p \notin Tried, \A q \in Tried : q < p, Tried \subseteq DOMAIN request.platforms,
         Tried' = Tried \cup {p}, UNCHANGED <<request, failures>>,
         images' = Append(images, image)
  PROVE  Matched'
<1> DEFINE n == Len(images) + 1
<1>1. images \in Seq(Image)
  BY DEF TypeOK
<1>2. /\ DOMAIN images' = DOMAIN images \cup {n} /\ n \notin DOMAIN images
      /\ \A k \in DOMAIN images : images'[k] = images[k] /\ k < n
      /\ images'[n] = image
  BY <1>1
<1> HIDE DEF n
<1>3. \A q, s \in DOMAIN request.platforms :
        request.platforms[q] = request.platforms[s] => q = s
  BY DEF OnePlatformEach, Underway
<1>4. \A q \in DOMAIN request.platforms :
        SolvedFor(q)' = IF q = p THEN SolvedFor(q) \cup {n} ELSE SolvedFor(q)
  BY <1>2, <1>3 DEF SolvedFor
<1>5. \A q \in DOMAIN request.platforms \ Tried : SolvedFor(q) = {}
  <2> SUFFICES ASSUME NEW q \in DOMAIN request.platforms \ Tried, NEW k \in DOMAIN images,
                      images[k].platform = request.platforms[q]
               PROVE  FALSE
    BY DEF SolvedFor
  <2>1. PICK s \in Tried : images[k].platform = request.platforms[s]
    BY DEF Matched
  <2> QED BY <1>3, <2>1
<1>6. ~FailedFor(p) /\ \A q : FailedFor(q)' <=> FailedFor(q)
  BY DEF FailedFor, Matched
<1>7. \A q \in Tried' : (SolvedFor(q) = {} <=> FailedFor(q))'
  <2>1. \A q \in Tried : SolvedFor(q)' = SolvedFor(q)
    BY <1>4
  <2>2. SolvedFor(p)' # {}
    BY <1>4
  <2> QED BY <1>6, <2>1, <2>2 DEF Matched
<1>8. \A f \in failures' : f[1] \in Tried'
  BY DEF Matched
<1>9. \A k \in DOMAIN images' : \E q \in Tried' : images'[k].platform = request'.platforms[q]
  BY <1>2 DEF Matched
<1>10. ASSUME NEW s \in DOMAIN request.platforms, NEW q \in DOMAIN request.platforms, s < q,
              NEW k \in SolvedFor(s)', NEW m \in SolvedFor(q)'
       PROVE  k < m
  <2>1. CASE k \in SolvedFor(s) /\ m \in SolvedFor(q)
    BY <1>10, <2>1 DEF Matched, InOrder
  <2>2. CASE m \notin SolvedFor(q)
    <3>1. m = n /\ q = p
      BY <1>4, <2>2
    <3>2. k \in SolvedFor(s)
      BY <1>4, <1>10, <3>1, PlatformsDomain
    <3> QED BY <1>2, <3>1, <3>2 DEF SolvedFor
  <2>3. CASE k \notin SolvedFor(s)
    <3>1. s = p
      BY <1>4, <2>3
    <3>2. q \notin Tried /\ q # p
      BY <1>10, <3>1, PlatformsDomain
    <3> QED BY <1>4, <1>5, <3>2
  <2> QED BY <2>1, <2>2, <2>3
<1>11. InOrder'
  BY <1>10 DEF InOrder
<1> QED BY <1>7, <1>8, <1>9, <1>11 DEF Matched

(* The images are all there is to their order. *)
LEMMA OrderKept == ASSUME InOrder, UNCHANGED <<request, images>> PROVE InOrder'
BY DEF InOrder, SolvedFor

(* A step that neither solves nor fails anything. *)
LEMMA NothingMatched ==
  ASSUME Matched, UNCHANGED <<request, images, failures>>, Tried' = Tried
  PROVE  Matched'
<1>1. \A q : SolvedFor(q)' = SolvedFor(q) /\ (FailedFor(q)' <=> FailedFor(q))
  BY DEF SolvedFor, FailedFor
<1>2. InOrder'
  BY OrderKept DEF Matched
<1> QED BY <1>1, <1>2 DEF Matched

(* The failure of the platform being converted, or of the next. *)
LEMMA PlatformFailsInv ==
  ASSUME OnePlatformEach, TypeOK, PlatformInv, UNCHANGED request,
         NEW p \in Nat, NEW cause \in Causes, PlatformFails(p, cause), platform' = p,
         \/ Converts /\ p = platform
         \/ phase = "platform" /\ platform < LastPlatform /\ p = platform + 1
  PROVE  PlatformInv'
<1>1. /\ DOMAIN request.platforms = 1..Len(request.platforms)
      /\ Len(request.platforms) \in Nat /\ platform \in Nat
      /\ MultiPlatform => LastPlatform = Len(request.platforms)
                           /\ platform <= Len(request.platforms)
  BY PlatformsDomain
<1>2. (MultiPlatform' <=> MultiPlatform) /\ LastPlatform' = LastPlatform
  BY DEF MultiPlatform, LastPlatform
<1>3. images' = images /\ phase # "done" /\ outcome = "none"
  BY DEF PlatformFails, Fail, Return, PlatformInv, Underway, Converts
<1>4. CASE MultiPlatform
  <2>1. phase' = "platform" /\ failures' = failures \cup {<<p, cause>>} /\ outcome' = outcome
    BY <1>4 DEF PlatformFails
  <2>2. Converts => platform >= 1
    BY DEF PlatformInv, Underway
  <2>3. Tried = 1..(p - 1) /\ Tried' = 1..p /\ p >= 1 /\ p <= Len(request.platforms)
    BY <1>1, <1>4, <2>1, <2>2 DEF Tried, Converts
  <2>4. /\ p \in DOMAIN request.platforms /\ p \notin Tried /\ Tried' = Tried \cup {p}
        /\ Tried \subseteq DOMAIN request.platforms
    BY <1>1, <2>3
  <2>5. Matched /\ Underway
    BY <1>3, <1>4 DEF PlatformInv
  <2>6. Matched'
    BY <1>3, <2>1, <2>4, <2>5, FailureMatched
  <2>7. Underway'
    BY <1>2, <1>3, <1>4, <2>1, <2>5 DEF Underway, Converts
  <2> QED BY <1>3, <2>1, <2>6, <2>7 DEF PlatformInv, Concluded, Matched
<1>5. CASE ~MultiPlatform
  <2>1. phase' = "done" /\ outcome' = "failed" /\ images = << >>
    BY <1>5 DEF PlatformFails, Fail, Return, PlatformInv, Underway
  <2> QED BY <1>2, <1>3, <1>5, <2>1 DEF PlatformInv, Underway, Concluded, Converts
<1> QED BY <1>4, <1>5

(* A step within a conversion, or between two phases that convert nothing.  *)
LEMMA SteadyPlatforms ==
  ASSUME TypeOK, PlatformInv, UNCHANGED <<request, platform, resultVars>>,
         phase # "done",
         \/ Converts /\ Converts'
         \/ /\ phase \in {"parse", "validate", "context", "import"}
            /\ phase' \in {"parse", "validate", "context", "import", "platform"}
  PROVE  PlatformInv'
<1>1. (MultiPlatform' <=> MultiPlatform) /\ LastPlatform' = LastPlatform
  BY DEF MultiPlatform, LastPlatform
<1>2. UNCHANGED <<images, failures, outcome>> /\ Tried' = Tried
  BY DEF resultVars, Tried, Converts
<1>3. Underway'
  BY <1>1, <1>2 DEF PlatformInv, Underway, Converts
<1>4. (Matched => Matched') /\ (InOrder => InOrder')
  BY <1>2, NothingMatched, OrderKept
<1>5. outcome' # "failed"
  BY <1>2 DEF PlatformInv, Underway
<1> QED BY <1>1, <1>2, <1>3, <1>4, <1>5 DEF PlatformInv, Concluded

LEMMA EarlyFailure ==
  ASSUME TypeOK, PlatformInv, UNCHANGED <<request, platform>>,
         phase \in {"parse", "validate", "context", "import"}, NEW cause, Fail(platform, cause)
  PROVE  PlatformInv'
<1>1. /\ MultiPlatform' = MultiPlatform /\ platform' = 0
      /\ phase' = "done" /\ outcome' = "failed" /\ images' = << >> /\ images = << >>
  BY DEF MultiPlatform, Fail, Return, PlatformInv, Underway
<1>2. InOrder => InOrder'
  BY <1>1, OrderKept
<1> QED BY <1>1, <1>2 DEF PlatformInv, Underway, Concluded, Converts

LEMMA PreparationPlatforms ==
  ASSUME TypeOK, PlatformInv, Parse \/ Prepare
  PROVE  PlatformInv'
<1>1. UNCHANGED <<request, platform>>
  BY DEF Parse, ParseFrom, ParseArg, ParseOperand, ParseCopy, AddInstruction, ReadLine,
         EarlyInstruction, EndOfFile, Prepare, ValidateRequest, PrepareContext, ImportCache
<1>2. phase \in {"parse", "validate", "context", "import"}
  BY DEF Parse, ParseFrom, ParseArg, ParseOperand, ParseCopy, AddInstruction, ReadLine,
         EarlyInstruction, EndOfFile, Prepare, ValidateRequest, PrepareContext, ImportCache
<1>3. \/ \E cause : Fail(platform, cause)
      \/ /\ phase' \in {"parse", "validate", "context", "import", "platform"}
         /\ UNCHANGED resultVars
  <2>1. CASE ParseFrom \/ ParseArg \/ ParseOperand \/ ParseCopy
    BY <2>1 DEF ParseFrom, ParseArg, ParseOperand, ParseCopy, AddInstruction, ReadLine
  <2>2. CASE EarlyInstruction
    BY <2>2 DEF EarlyInstruction
  <2>3. CASE EndOfFile
    BY <2>3 DEF EndOfFile
  <2>4. CASE Prepare
    BY <2>4 DEF Prepare, ValidateRequest, PrepareContext, ImportCache
  <2> QED BY <2>1, <2>2, <2>3, <2>4 DEF Parse
<1> QED BY <1>1, <1>2, <1>3, EarlyFailure, SteadyPlatforms

LEMMA ConversionPlatforms ==
  ASSUME OnePlatformEach, TypeOK, PlatformInv, Convert
  PROVE  PlatformInv'
<1>1. UNCHANGED <<request, platform>> /\ Converts /\ platform \in Nat
  BY PlatformIsNat DEF Convert, EnterStage, StagesFound, ConvertFrom, ConvertRun, ConvertCopy, ConvertSet,
     ConvertCommand, ConvertList, ConvertArg, Converting, FinishStage, Converts
<1>2. PlatformFails(platform, "reference") \/ (Converts' /\ UNCHANGED resultVars)
  <2>1. CASE EnterStage \/ StagesFound \/ FinishStage
    BY <2>1 DEF EnterStage, StagesFound, FinishStage, Converts
  <2>2. CASE ConvertFrom
    BY <2>2 DEF ConvertFrom, Converts
  <2>3. CASE ConvertRun \/ ConvertCopy \/ ConvertSet \/ ConvertCommand \/ ConvertList \/ ConvertArg
    BY <1>1, <2>3 DEF ConvertRun, ConvertCopy, ConvertSet, ConvertCommand, ConvertList, ConvertArg,
                Converted, Converts
  <2> QED BY <2>1, <2>2, <2>3 DEF Convert
<1>3. "reference" \in Causes
  BY DEF Causes
<1>4. phase # "done"
  BY <1>1 DEF Converts
<1> QED BY <1>1, <1>2, <1>3, <1>4, PlatformFailsInv, SteadyPlatforms

LEMMA SolvePlatforms ==
  ASSUME OnePlatformEach, TypeOK, PlatformInv, Solve
  PROVE  PlatformInv'
<1>1. /\ DOMAIN request.platforms = 1..Len(request.platforms)
      /\ Len(request.platforms) \in Nat /\ platform \in Nat
      /\ MultiPlatform => LastPlatform = Len(request.platforms)
                           /\ platform <= Len(request.platforms)
  BY PlatformsDomain
<1>2. /\ UNCHANGED <<request, platform>> /\ Converts /\ platform >= 1
      /\ (MultiPlatform' <=> MultiPlatform) /\ LastPlatform' = LastPlatform
  BY DEF Solve, Converts, PlatformInv, Underway, MultiPlatform, LastPlatform, convertVars
<1>3. CASE PlatformFails(platform, "solve")
  BY <1>1, <1>2, <1>3, PlatformFailsInv DEF Causes
<1>4. CASE ~PlatformFails(platform, "solve")
  <2> DEFINE image == [platform |-> Platform, state |-> states[target], args |-> args]
  <2>1. /\ images' = Append(images, image) /\ UNCHANGED <<failures, outcome>>
        /\ phase' = IF MultiPlatform THEN "platform" ELSE "export"
    BY <1>4 DEF Solve
  <2>2. phase = "from" /\ outcome = "none"
    BY DEF Solve, PlatformInv, Underway
  <2>3. CASE MultiPlatform
    <3>1. platform \in DOMAIN request.platforms /\ image.platform = request.platforms[platform]
      BY <1>1, <1>2, <2>3 DEF Platform
    <3>2. Tried = 1..(platform - 1) /\ Tried' = 1..platform
      BY <1>2, <2>1, <2>3 DEF Tried, Converts
    <3>3. /\ platform \notin Tried /\ \A q \in Tried : q < platform
          /\ Tried \subseteq DOMAIN request.platforms /\ Tried' = Tried \cup {platform}
      BY <1>1, <1>2, <2>3, <3>2
    <3>4. Matched /\ Underway
      BY <2>2, <2>3 DEF PlatformInv
    <3> HIDE DEF image
    <3>5. Matched'
      BY <1>2, <2>1, <3>1, <3>3, <3>4, SolutionMatched
    <3>6. Underway'
      BY <1>2, <2>1, <2>2, <2>3, <3>4 DEF Underway, Converts
    <3> QED BY <2>1, <2>2, <3>5, <3>6 DEF PlatformInv, Concluded, Matched
  <2>4. CASE ~MultiPlatform
    <3>1. Underway'
      <4>1. images' # << >>
        <5>1. images \in Seq(Image)
          BY DEF TypeOK
        <5> QED BY <2>1, <5>1
      <4> QED BY <1>2, <2>1, <2>2, <2>4, <4>1 DEF PlatformInv, Underway, Converts
    <3> QED BY <1>2, <2>1, <2>2, <2>4, <3>1 DEF PlatformInv, Concluded
  <2> QED BY <2>3, <2>4
<1> QED BY <1>3, <1>4

LEMMA FinishPlatforms ==
  ASSUME OnePlatformEach, TypeOK, PlatformInv, Finish
  PROVE  PlatformInv'
<1>1. platform \in Nat /\ UNCHANGED request
      /\ (MultiPlatform' <=> MultiPlatform) /\ LastPlatform' = LastPlatform
  BY PlatformIsNat DEF Finish, StartPlatform, PlatformsTried, Solve, ExportCache, MultiPlatform,
     LastPlatform
<1>2. CASE StartPlatform
  <2>1. phase = "platform" /\ platform < LastPlatform /\ platform' = platform + 1
    BY <1>2 DEF StartPlatform
  <2>2. CASE TargetFound
    <3>1. phase' = "require" /\ UNCHANGED <<images, failures, outcome>>
      BY <1>2, <2>2 DEF StartPlatform, resultVars
    <3>2. Tried' = Tried
      BY <1>1, <2>1, <3>1 DEF Tried, Converts
    <3>3. (Matched => Matched') /\ (InOrder => InOrder')
      BY <1>1, <3>1, <3>2, NothingMatched, OrderKept
    <3>4. Underway' /\ outcome' = "none"
      BY <1>1, <2>1, <3>1 DEF PlatformInv, Underway, Converts
    <3> QED BY <1>1, <2>1, <3>1, <3>3, <3>4 DEF PlatformInv, Concluded
  <2>3. CASE ~TargetFound
    <3>1. PlatformFails(platform + 1, "target") /\ "target" \in Causes /\ platform + 1 \in Nat
      BY <1>1, <1>2, <2>3 DEF StartPlatform, Causes
    <3> QED BY <1>1, <2>1, <3>1, PlatformFailsInv
  <2> QED BY <2>2, <2>3
<1>3. CASE PlatformsTried
  <2>1. phase = "platform" /\ platform = LastPlatform /\ platform' = platform
        /\ UNCHANGED <<images, failures>> /\ outcome = "none"
    BY <1>3 DEF PlatformsTried, Return, resultVars, PlatformInv, Underway
  <2>2. CASE images = << >>
    <3>1. phase' = "done" /\ outcome' = "failed"
      BY <1>3, <2>2 DEF PlatformsTried, Return
    <3>2. ASSUME MultiPlatform, NEW p \in DOMAIN request.platforms PROVE FailedFor(p)'
      <4>1. Matched /\ Tried = DOMAIN request.platforms
        BY <2>1, <3>2, PlatformsDomain DEF PlatformInv, Tried, Converts
      <4>2. SolvedFor(p) = {}
        BY <2>2 DEF SolvedFor
      <4>3. FailedFor(p)
        BY <3>2, <4>1, <4>2 DEF Matched
      <4> QED BY <2>1, <4>3 DEF FailedFor
    <3>3. InOrder => InOrder'
      BY <1>1, <2>1, OrderKept
    <3>4. DOMAIN request'.platforms = DOMAIN request.platforms /\ images' = << >>
      BY <1>1, <2>1, <2>2
    <3>5. Concluded'
      BY <1>1, <3>2, <3>4 DEF Concluded
    <3> QED BY <1>1, <2>1, <2>2, <3>1, <3>3, <3>5 DEF PlatformInv, Underway, Converts
  <2>3. CASE images # << >>
    <3>1. phase' = "export" /\ outcome' = outcome
      BY <1>3, <2>3 DEF PlatformsTried, resultVars
    <3>2. Tried' = Tried
      BY <2>1, <3>1 DEF Tried, Converts
    <3>3. (Matched => Matched') /\ (InOrder => InOrder')
      BY <1>1, <2>1, <3>2, NothingMatched, OrderKept
    <3>4. Underway'
      BY <1>1, <2>1, <2>3, <3>1 DEF PlatformInv, Underway, Converts
    <3> QED BY <1>1, <2>1, <3>1, <3>3, <3>4 DEF PlatformInv, Concluded
  <2> QED BY <2>2, <2>3
<1>4. CASE ExportCache
  <2>1. phase = "export" /\ phase' = "done" /\ UNCHANGED <<images, platform>> /\ outcome = "none"
    BY <1>4 DEF ExportCache, Fail, Return, PlatformInv, Underway
  <2>2. CASE Return("built", {})
    <3>1. outcome' = "built"
      BY <2>2 DEF Return
    <3>2. Underway'
      BY <1>1, <2>1, <3>1 DEF PlatformInv, Underway, Converts
    <3> QED BY <1>1, <2>1, <3>1, <3>2, OrderKept DEF PlatformInv, Concluded
  <2>3. CASE Fail(platform, "export")
    <3>1. outcome' = "failed" /\ failures' = {<<platform, "export">>}
      BY <2>3 DEF Fail, Return
    <3>2. images # << >>
      BY <2>1 DEF PlatformInv, Underway
    <3>3. Underway' /\ Concluded'
      BY <1>1, <2>1, <3>1, <3>2 DEF PlatformInv, Underway, Concluded, Converts
    <3> QED BY <1>1, <2>1, <3>3, OrderKept DEF PlatformInv
  <2> QED BY <1>4, <2>2, <2>3 DEF ExportCache
<1> QED BY <1>2, <1>3, <1>4, SolvePlatforms DEF Finish

(* For requests that name no platform twice: each platform tried so far has *)
(* an image or a reason, never both, the images in the order of the         *)
(* request; a build that succeeds has an image; one that fails has solved   *)
(* nothing and returns a reason for every platform, unless the export of    *)
(* the cache failed (buildMultiPlatform).                                   *)
THEOREM PlatformsAccounted ==
  ASSUME OnePlatformEach
  PROVE  Spec => []EveryPlatformAccounted
<1>1. Init => PlatformInv
  <2> SUFFICES ASSUME Init PROVE PlatformInv
    OBVIOUS
  <2>1. Underway /\ Concluded
    BY DEF Init, Underway, Concluded, Converts
  <2>2. Matched
    <3>1. Tried = {} /\ images = << >> /\ failures = {}
      BY DEF Init, Tried, Converts
    <3> QED BY <3>1 DEF Matched, SolvedFor, InOrder
  <2> QED BY <2>1, <2>2 DEF PlatformInv, Matched
<1>2. IInv /\ PlatformInv /\ [Next]_vars => PlatformInv'
  <2> SUFFICES ASSUME TypeOK, PlatformInv, [Next]_vars PROVE PlatformInv'
    BY DEF IInv
  <2>1. CASE UNCHANGED vars
    <3>1. UNCHANGED <<request, platform, phase, images, failures, outcome>>
      BY <2>1 DEF vars, resultVars
    <3>2. Tried' = Tried
      BY <3>1 DEF Tried, Converts
    <3>3. (Matched => Matched') /\ (InOrder => InOrder')
      BY <3>1, <3>2, NothingMatched, OrderKept
    <3>4. \A p : FailedFor(p)' <=> FailedFor(p)
      BY <3>1 DEF FailedFor
    <3> QED BY <3>1, <3>3, <3>4 DEF PlatformInv, Underway, Concluded, Converts, MultiPlatform,
                                   LastPlatform
  <2> QED BY <2>1, PreparationPlatforms, ConversionPlatforms, FinishPlatforms
          DEF Next, Terminated
<1>3. IInv /\ PlatformInv => EveryPlatformAccounted
  <2> SUFFICES ASSUME TypeOK, PlatformInv PROVE EveryPlatformAccounted
    BY DEF IInv
  <2>1. ASSUME MultiPlatform, phase \in {"platform", "export"}
        PROVE  \A p \in 1..platform : SolvedFor(p) = {} <=> FailedFor(p)
    <3>1. Tried = 1..platform /\ Matched
      BY <2>1 DEF Tried, Converts, PlatformInv
    <3> QED BY <3>1 DEF Matched
  <2> QED BY <2>1 DEF EveryPlatformAccounted, PlatformInv, Underway, Concluded
<1> QED BY <1>1, <1>2, <1>3, Invariance, PTL DEF Spec

-----------------------------------------------------------------------------
(* The recursive definitions of what stages declare compute what they say:  *)
(* a function with the equations exists, for every length.                  *)
LEMMA TextsUnfold ==
  ASSUME NEW body, Len(body) \in Nat, NEW op
  PROVE  Texts(body, op) =
           [k \in 0..Len(body) |->
              IF k = 0 THEN << >>
              ELSE IF body[k].op = op THEN Append(Texts(body, op)[k - 1], body[k].text)
              ELSE Texts(body, op)[k - 1]]
<1> DEFINE n == Len(body)
           Value(f, k) == IF k = 0 THEN << >>
                          ELSE IF body[k].op = op THEN Append(f[k - 1], body[k].text)
                          ELSE f[k - 1]
           Has(m) == \E f : f = [k \in 0..m |-> Value(f, k)]
           Missing == {m \in 0..n : ~Has(m)}
<1>1. Missing = {}
  <2> SUFFICES ASSUME Missing # {} PROVE FALSE
    OBVIOUS
  <2>1. PICK m \in Missing : \A j \in Missing : m <= j
    <3>1. Missing \in SUBSET Nat
      OBVIOUS
    <3> HIDE DEF Missing
    <3> QED BY <3>1, Least
  <2>2. CASE m = 0
    <3> DEFINE f == [k \in 0..0 |-> << >>]
    <3>1. \A k \in 0..0 : f[k] = Value(f, k)
      OBVIOUS
    <3>2. f = [k \in 0..0 |-> Value(f, k)]
      BY <3>1
    <3>3. Has(0)
      BY <3>2
    <3> HIDE DEF Has
    <3> QED BY <2>2, <3>3
  <2>3. CASE m # 0
    <3>1. m \in 1..n /\ m - 1 \in 0..n /\ m - 1 \notin Missing
      <4> HIDE DEF Has
      <4> QED BY <2>1, <2>3
    <3>2. PICK f : f = [k \in 0..(m - 1) |-> Value(f, k)]
      BY <3>1
    <3> DEFINE g == [k \in 0..m |-> IF k = m THEN Value(f, m) ELSE f[k]]
    <3>3. \A k \in 0..m : g[k] = Value(g, k)
      <4> SUFFICES ASSUME NEW k \in 0..m PROVE g[k] = Value(g, k)
        OBVIOUS
      <4>1. k # 0 => k - 1 \in 0..(m - 1) /\ g[k - 1] = f[k - 1]
        BY <3>1
      <4>2. Value(g, k) = Value(f, k)
        <5>1. CASE k = 0
          BY <5>1
        <5>2. CASE k # 0
          <6>1. g[k - 1] = f[k - 1]
            BY <4>1, <5>2
          <6> HIDE DEF g
          <6> QED BY <5>2, <6>1
        <5> QED BY <5>1, <5>2
      <4>3. k # m => f[k] = Value(f, k)
        <5>1. k # m => k \in 0..(m - 1)
          BY <3>1
        <5> HIDE DEF Value
        <5> QED BY <3>2, <5>1
      <4> QED BY <4>2, <4>3
    <3>4. g = [k \in 0..m |-> Value(g, k)]
      BY <3>3
    <3>5. Has(m)
      BY <3>4
    <3> QED BY <2>1, <3>5
  <2> QED BY <2>2, <2>3
<1>2. Has(n)
  BY <1>1
<1> DEFINE Right(f) == f = [k \in 0..n |-> Value(f, k)]
<1>3. \E f : Right(f)
  BY <1>2
<1>4. Right(CHOOSE f : Right(f))
  BY <1>3
<1>5. Texts(body, op) = CHOOSE f : Right(f)
  BY DEF Texts
<1>6. Right(Texts(body, op))
  BY <1>4, <1>5
<1> QED BY <1>6

LEMMA TextsStep ==
  ASSUME NEW body, Len(body) \in Nat, NEW op
  PROVE  /\ Texts(body, op)[0] = << >>
         /\ \A k \in 1..Len(body) :
                Texts(body, op)[k] = IF body[k].op = op
                                     THEN Append(Texts(body, op)[k - 1], body[k].text)
                                     ELSE Texts(body, op)[k - 1]
<1> DEFINE T == Texts(body, op)
           Value(k) == IF k = 0 THEN << >>
                       ELSE IF body[k].op = op THEN Append(T[k - 1], body[k].text)
                       ELSE T[k - 1]
<1>1. T = [k \in 0..Len(body) |-> Value(k)]
  BY TextsUnfold
<1>2. \A k \in 0..Len(body) : T[k] = Value(k)
  <2> HIDE DEF T, Value
  <2> QED BY <1>1
<1>3. \A k \in 1..Len(body) : k \in 0..Len(body) /\ k # 0
  OBVIOUS
<1> HIDE DEF T
<1> QED BY <1>2, <1>3 DEF T

LEMMA TextsType ==
  ASSUME NEW body \in Seq(Instruction), NEW op
  PROVE  \A k \in 0..Len(body) : Texts(body, op)[k] \in Seq(Words \cup {NoWord})
<1> DEFINE Bad == {k \in 0..Len(body) : Texts(body, op)[k] \notin Seq(Words \cup {NoWord})}
<1>1. Len(body) \in Nat
  OBVIOUS
<1>2. Bad = {}
  <2> SUFFICES ASSUME Bad # {} PROVE FALSE
    OBVIOUS
  <2>1. PICK m \in Bad : \A j \in Bad : m <= j
    <3>1. Bad \in SUBSET Nat
      OBVIOUS
    <3> HIDE DEF Bad
    <3> QED BY <3>1, Least
  <2>2. m \in 1..Len(body)
    <3>1. Texts(body, op)[0] \in Seq(Words \cup {NoWord})
      <4>1. Texts(body, op)[0] = << >>
        BY <1>1, TextsStep
      <4>2. << >> \in Seq(Words \cup {NoWord})
        OBVIOUS
      <4> QED BY <4>1, <4>2
    <3> QED BY <1>1, <2>1, <3>1
  <2>3. Texts(body, op)[m - 1] \in Seq(Words \cup {NoWord})
    BY <2>1, <2>2
  <2>4. body[m].text \in Words \cup {NoWord}
    BY <2>2 DEF Instruction
  <2>5. Append(Texts(body, op)[m - 1], body[m].text) \in Seq(Words \cup {NoWord})
    BY <2>3, <2>4
  <2>6. Texts(body, op)[m] \in Seq(Words \cup {NoWord})
    <3>1. Texts(body, op)[m] = IF body[m].op = op
                               THEN Append(Texts(body, op)[m - 1], body[m].text)
                               ELSE Texts(body, op)[m - 1]
      BY <1>1, <2>2, TextsStep
    <3>2. CASE body[m].op = op
      BY <2>5, <3>1, <3>2
    <3>3. CASE body[m].op # op
      BY <2>3, <3>1, <3>3
    <3> QED BY <3>2, <3>3
  <2> QED BY <2>1, <2>6
<1> QED BY <1>2

LEMMA ConcatAppend ==
  ASSUME NEW S, NEW s \in Seq(S), NEW t \in Seq(S), NEW e \in S
  PROVE  s \o Append(t, e) = Append(s \o t, e)
<1>1. Len(s) \in Nat /\ Len(t) \in Nat
  OBVIOUS
<1>2. s \o Append(t, e) \in Seq(S) /\ Append(s \o t, e) \in Seq(S)
  OBVIOUS
<1>3. Len(s \o Append(t, e)) = Len(Append(s \o t, e))
  OBVIOUS
<1>4. \A i \in 1..Len(s \o Append(t, e)) : (s \o Append(t, e))[i] = Append(s \o t, e)[i]
  OBVIOUS
<1> QED BY <1>2, <1>3, <1>4, SeqEqual

(* What one more instruction declares. *)
LEMMA DeclaredStep ==
  ASSUME NEW body \in Seq(Instruction), NEW base, base.list \in Seq(Words)
  PROVE  /\ DeclaredOn(base, body, 0).list = base.list
         /\ DeclaredOn(base, body, 0).command = base.command
         /\ \A k \in 1..Len(body) :
              /\ DeclaredOn(base, body, k).list =
                    IF body[k].op = "list"
                    THEN Append(DeclaredOn(base, body, k - 1).list, body[k].text)
                    ELSE DeclaredOn(base, body, k - 1).list
              /\ DeclaredOn(base, body, k).command =
                    IF body[k].op = "cmd" THEN body[k].text
                    ELSE DeclaredOn(base, body, k - 1).command
<1>1. Len(body) \in Nat
  OBVIOUS
<1> DEFINE L == Texts(body, "list")
           C == Texts(body, "cmd")
           D(k) == DeclaredOn(base, body, k)
<1>2. \A k : D(k).list = base.list \o L[k]
  BY DEF DeclaredOn
<1>3. \A k : D(k).command = IF C[k] = << >> THEN base.command ELSE C[k][Len(C[k])]
  BY DEF DeclaredOn
<1>4. D(0).list = base.list /\ D(0).command = base.command
  <2>1. L[0] = << >> /\ C[0] = << >>
    BY <1>1, TextsStep
  <2>2. base.list \o << >> = base.list
    OBVIOUS
  <2> HIDE DEF D, L, C
  <2> QED BY <1>2, <1>3, <2>1, <2>2
<1>5. ASSUME NEW k \in 1..Len(body)
      PROVE  /\ D(k).list = IF body[k].op = "list" THEN Append(D(k - 1).list, body[k].text)
                            ELSE D(k - 1).list
             /\ D(k).command = IF body[k].op = "cmd" THEN body[k].text ELSE D(k - 1).command
  <2>1. /\ L[k] = IF body[k].op = "list" THEN Append(L[k - 1], body[k].text) ELSE L[k - 1]
        /\ C[k] = IF body[k].op = "cmd" THEN Append(C[k - 1], body[k].text) ELSE C[k - 1]
    BY <1>1, TextsStep
  <2>2. /\ k - 1 \in 0..Len(body) /\ body[k].text \in Words \cup {NoWord}
    BY DEF Instruction
  <2>3. L[k - 1] \in Seq(Words \cup {NoWord}) /\ C[k - 1] \in Seq(Words \cup {NoWord})
    BY <2>2, TextsType
  <2>4. base.list \in Seq(Words \cup {NoWord})
    OBVIOUS
  <2> HIDE DEF L, C, D
  <2>5. base.list \o Append(L[k - 1], body[k].text) = Append(base.list \o L[k - 1], body[k].text)
    <3>1. \A s, t \in Seq(Words \cup {NoWord}), e \in Words \cup {NoWord} :
            s \o Append(t, e) = Append(s \o t, e)
      BY ConcatAppend
    <3> QED BY <2>2, <2>3, <2>4, <3>1
  <2>6. D(k).list = IF body[k].op = "list" THEN Append(D(k - 1).list, body[k].text)
                    ELSE D(k - 1).list
    BY <1>2, <2>1, <2>5
  <2>7. LET s == Append(C[k - 1], body[k].text) IN s # << >> /\ s[Len(s)] = body[k].text
    <3>1. \A t \in Seq(Words \cup {NoWord}), e \in Words \cup {NoWord} :
            Append(t, e) # << >> /\ Append(t, e)[Len(Append(t, e))] = e
      OBVIOUS
    <3> QED BY <2>2, <2>3, <3>1
  <2>8. D(k).command = IF body[k].op = "cmd" THEN body[k].text ELSE D(k - 1).command
    BY <1>3, <2>1, <2>7
  <2> QED BY <2>6, <2>8
<1> QED BY <1>4, <1>5

Based(i)  == stages[i].from.ref = "stage"
BaseOf(i) == StageNamed(stages, stages[i].from.word)
BaseDeclared(i) == IF Based(i) THEN Declared[BaseOf(i)] ELSE Scratch

BasesPrecede ==
    \A i \in DOMAIN stages : Based(i) => BaseOf(i) \in DOMAIN stages /\ BaseOf(i) < i

LEMMA DeclaredUnfold ==
  ASSUME stages \in Seq(Stage), BasesPrecede
  PROVE  \A i \in DOMAIN stages :
           Declared[i] = DeclaredOn(BaseDeclared(i), stages[i].body, Len(stages[i].body))
<1> DEFINE n == Len(stages)
           Value(f, i) == DeclaredOn(IF Based(i) THEN f[BaseOf(i)] ELSE Scratch,
                                     stages[i].body, Len(stages[i].body))
           Has(m) == \E f : f = [i \in 1..m |-> Value(f, i)]
           Missing == {m \in 0..n : ~Has(m)}
<1>1. DOMAIN stages = 1..n /\ n \in Nat
  OBVIOUS
<1>2. Missing = {}
  <2> SUFFICES ASSUME Missing # {} PROVE FALSE
    OBVIOUS
  <2>1. PICK m \in Missing : \A j \in Missing : m <= j
    <3>1. Missing \in SUBSET Nat
      OBVIOUS
    <3> HIDE DEF Missing
    <3> QED BY <3>1, Least
  <2>2. CASE m = 0
    <3> DEFINE f == [i \in 1..0 |-> Scratch]
    <3>1. f = [i \in 1..0 |-> Value(f, i)]
      OBVIOUS
    <3>2. Has(0)
      BY <3>1
    <3> HIDE DEF Has
    <3> QED BY <2>2, <3>2
  <2>3. CASE m # 0
    <3>1. m \in 1..n /\ m - 1 \in 0..n /\ m - 1 \notin Missing
      <4> HIDE DEF Has
      <4> QED BY <1>1, <2>1, <2>3
    <3>2. PICK f : f = [i \in 1..(m - 1) |-> Value(f, i)]
      BY <3>1
    <3> DEFINE g == [i \in 1..m |-> IF i = m THEN Value(f, m) ELSE f[i]]
    <3>3. \A i \in 1..m : g[i] = Value(g, i)
      <4> SUFFICES ASSUME NEW i \in 1..m PROVE g[i] = Value(g, i)
        OBVIOUS
      <4>1. Based(i) => g[BaseOf(i)] = f[BaseOf(i)]
        <5>1. Based(i) => BaseOf(i) \in 1..(m - 1)
          BY <1>1, <3>1 DEF BasesPrecede
        <5>2. \A j \in 1..(m - 1) : g[j] = f[j]
          BY <3>1
        <5> HIDE DEF g
        <5> QED BY <5>1, <5>2
      <4>2. Value(g, i) = Value(f, i)
        <5> HIDE DEF g
        <5> QED BY <4>1
      <4>3. i # m => f[i] = Value(f, i)
        <5>1. i # m => i \in 1..(m - 1)
          BY <3>1
        <5> HIDE DEF Value
        <5> QED BY <3>2, <5>1
      <4> HIDE DEF Value
      <4> QED BY <4>2, <4>3
    <3>4. g = [i \in 1..m |-> Value(g, i)]
      <4> HIDE DEF Value
      <4> QED BY <3>3
    <3>5. Has(m)
      BY <3>4
    <3> HIDE DEF Has
    <3> QED BY <2>1, <3>5
  <2> QED BY <2>2, <2>3
<1>3. Has(n)
  BY <1>1, <1>2
<1> DEFINE Right(f) == f = [i \in DOMAIN stages |-> Value(f, i)]
<1>4. \E f : Right(f)
  BY <1>1, <1>3
<1>5. Right(CHOOSE f : Right(f))
  BY <1>4
<1>6. Declared = CHOOSE f : Right(f)
  BY DEF Declared, Based, BaseOf
<1>7. Right(Declared)
  BY <1>5, <1>6
<1>8. \A i \in DOMAIN stages : Declared[i] = Value(Declared, i)
  <2> HIDE DEF Value
  <2> QED BY <1>7
<1> QED BY <1>8 DEF BaseDeclared

-----------------------------------------------------------------------------
(* The configuration of a state is what is declared, at each point of a     *)
(* conversion.                                                              *)
Configured(llb, d) == llb.list = d.list /\ llb.command = d.command

AsRead ==
    \A i \in DOMAIN stages : \A k \in DOMAIN stages[i].body :
        LET c == stages[i].body[k]
        IN  c.op \in {"list", "cmd"} /\ c.text \in Names => c.word = c.text

FirstFromImage == stages # << >> => ~Based(1)

NothingConverted == phase = "parse" => DOMAIN states = {} /\ images = << >>

OneTarget == images # << >> => target = TargetIndex

BodyEntered ==
    phase = "body" =>
        /\ next <= Len(stages[stage].body) + 1
        /\ Based(stage) => BaseOf(stage) \in DOMAIN states

StatesConfigured ==
    DeclarationsAreLiteral =>
        /\ \A i \in DOMAIN states : Configured(states[i], Declared[i])
        /\ phase = "body" =>
               Configured(state, DeclaredOn(BaseDeclared(stage), stages[stage].body, next - 1))
        /\ \A k \in DOMAIN images : Configured(images[k].state, Declared[target])

Inheritance == /\ AsRead /\ FirstFromImage /\ NothingConverted
               /\ OneTarget /\ BodyEntered /\ StatesConfigured

LEMMA BasesPrecedeStages ==
  ASSUME TypeOK, Flow, Inheritance, phase \in {"from", "body"}
  PROVE  BasesPrecede
<1>1. stages \in Seq(Stage) /\ stages # << >> /\ BuilderAccepts(stages, request.target)
  BY DEF TypeOK, Flow, Accepted
<1>2. CASE Len(stages) = 1
  <2>1. \A i \in DOMAIN stages : i = 1
    BY <1>1, <1>2
  <2> QED BY <1>1, <2>1 DEF BasesPrecede, Inheritance, FirstFromImage
<1>3. CASE Len(stages) # 1
  <2> SUFFICES ASSUME NEW i \in DOMAIN stages, Based(i)
               PROVE  BaseOf(i) \in DOMAIN stages /\ BaseOf(i) < i
    BY DEF BasesPrecede
  <2>1. HasStage(stages, stages[i].from.word)
    BY <1>1, <1>3, SeveralStages DEF BuilderAccepts, Based
  <2>2. BaseOf(i) \in Dependencies(stages, i)
    BY <1>1, <2>1, BaseIsADependency DEF Based, BaseOf
  <2> QED BY <1>1, <1>3, <2>2, DependenciesPrecede
<1> QED BY <1>2, <1>3

(* What no step but those of the parser changes. *)
LEMMA DeclarationsKept ==
  ASSUME UNCHANGED stages
  PROVE  /\ Declared' = Declared
         /\ DeclarationsAreLiteral' <=> DeclarationsAreLiteral
         /\ AsRead' <=> AsRead
         /\ FirstFromImage' <=> FirstFromImage
         /\ \A i : (Based(i)' <=> Based(i)) /\ BaseOf(i)' = BaseOf(i)
                   /\ BaseDeclared(i)' = BaseDeclared(i)
BY DEF Declared, DeclarationsAreLiteral, AsRead, FirstFromImage, Based, BaseOf, BaseDeclared

LEMMA ParseInheritance ==
  ASSUME TypeOK, Inheritance, ParseFrom \/ ParseArg \/ ParseOperand \/ ParseCopy
  PROVE  Inheritance'
<1>1. phase = "parse" /\ phase' = "parse" /\ UNCHANGED <<states, images>> /\ stages \in Seq(Stage)
      /\ DOMAIN states = {} /\ images = << >>
  BY DEF ParseFrom, ParseArg, ParseOperand, ParseCopy, AddInstruction, ReadLine, convertVars,
         resultVars, TypeOK, Inheritance, NothingConverted
<1>2. NothingConverted' /\ OneTarget' /\ BodyEntered' /\ StatesConfigured'
  BY <1>1 DEF NothingConverted, OneTarget, BodyEntered, StatesConfigured
<1>3. ASSUME NEW instr, AddInstruction(instr),
             instr.op \in {"list", "cmd"} /\ instr.text \in Names => instr.word = instr.text
      PROVE  AsRead' /\ FirstFromImage'
  <2> DEFINE n == Len(stages)
  <2>1. stages # << >> /\ n \in DOMAIN stages
        /\ stages' = [stages EXCEPT ![n].body = Append(@, instr)]
    BY <1>1, <1>3, EmptySeq DEF AddInstruction
  <2>2. stages[n] \in Stage
    BY <1>1, <2>1
  <2>3. stages[n].body \in Seq(Instruction)
    BY <2>2 DEF Stage
  <2>4. /\ DOMAIN stages' = DOMAIN stages
        /\ \A i \in DOMAIN stages : i # n => stages'[i] = stages[i]
        /\ stages'[n].body = Append(stages[n].body, instr)
        /\ stages'[n].from = stages[n].from
    <3> HIDE DEF n
    <3> QED BY <1>1, <2>1, <2>2 DEF Stage
  <2>5. 1 \in DOMAIN stages
    BY <1>1, <2>1, EmptySeq
  <2> HIDE DEF n
  <2>6. FirstFromImage'
    <3>1. stages'[1].from = stages[1].from
      BY <2>4, <2>5
    <3> QED BY <2>1, <3>1 DEF Inheritance, FirstFromImage, Based
  <2>7. ASSUME NEW i \in DOMAIN stages', NEW k \in DOMAIN stages'[i].body
        PROVE  stages'[i].body[k].op \in {"list", "cmd"} /\ stages'[i].body[k].text \in Names =>
                   stages'[i].body[k].word = stages'[i].body[k].text
    <3>1. CASE i # n
      <4>1. i \in DOMAIN stages /\ k \in DOMAIN stages[i].body /\ stages'[i] = stages[i]
        BY <2>4, <2>7, <3>1
      <4> QED BY <4>1 DEF Inheritance, AsRead
    <3>2. CASE i = n
      <4>1. \/ stages'[i].body[k] = instr
            \/ k \in DOMAIN stages[i].body /\ stages'[i].body[k] = stages[i].body[k]
        BY <2>3, <2>4, <2>7, <3>2
      <4> QED BY <1>3, <2>1, <3>2, <4>1 DEF Inheritance, AsRead
    <3> QED BY <3>1, <3>2
  <2> QED BY <2>6, <2>7 DEF AsRead
<1>4. CASE ParseFrom
  <2>1. PICK word, as, p :
          stages' = Append(stages, [name |-> as, from |-> Reference(Expand(word, parserArgs)),
                                    platform |-> p, body |-> << >>])
    BY <1>4 DEF ParseFrom
  <2> DEFINE new == [name |-> as, from |-> Reference(Expand(word, parserArgs)),
                     platform |-> p, body |-> << >>]
  <2>2. new.body = << >> /\ new.from = Reference(Expand(word, parserArgs))
    OBVIOUS
  <2>3. stages' = Append(stages, new)
    BY <2>1
  <2> HIDE DEF new
  <2>4. \A i \in DOMAIN stages' : \/ i = Len(stages) + 1 /\ stages'[i] = new
                                  \/ i \in DOMAIN stages /\ stages'[i] = stages[i]
    BY <1>1, <2>3
  <2>5. AsRead'
    BY <2>2, <2>4 DEF Inheritance, AsRead
  <2>6. FirstFromImage'
    <3>1. CASE stages = << >>
      <4>1. ~HasStage(stages, Expand(word, parserArgs))
        BY <3>1 DEF HasStage
      <4>2. stages'[1] = new
        BY <2>3, <3>1
      <4>3. new.from.ref = "image"
        BY <2>2, <4>1 DEF Reference
      <4> QED BY <4>2, <4>3 DEF FirstFromImage, Based
    <3>2. CASE stages # << >>
      <4>1. 1 \in DOMAIN stages /\ stages'[1] = stages[1]
        BY <1>1, <2>3, <3>2, EmptySeq
      <4> QED BY <3>2, <4>1 DEF Inheritance, FirstFromImage, Based
    <3> QED BY <3>1, <3>2
  <2> QED BY <1>2, <2>5, <2>6 DEF Inheritance
<1>5. CASE ParseArg
  <2>1. PICK instr : AddInstruction(instr) /\ instr.op = "arg"
    BY <1>5 DEF ParseArg
  <2> QED BY <1>2, <1>3, <2>1 DEF Inheritance
<1>6. CASE ParseOperand
  <2>1. PICK op, word : AddInstruction(Operation(op, word))
    BY <1>6 DEF ParseOperand
  <2>2. word \in Names => Expand(word, parserArgs) = word
    BY WordsAssumption DEF Expand
  <2> QED BY <1>2, <1>3, <2>1, <2>2 DEF Inheritance, Operation
<1>7. CASE ParseCopy
  <2>1. PICK instr : AddInstruction(instr) /\ instr.op = "copy"
    BY <1>7 DEF ParseCopy
  <2> QED BY <1>2, <1>3, <2>1 DEF Inheritance
<1> QED BY <1>4, <1>5, <1>6, <1>7

(* Steps that convert and solve nothing. *)
LEMMA SteadyInheritance ==
  ASSUME TypeOK, Inheritance,
         UNCHANGED <<request, stages, states, stage, next, state, images, target>>,
         phase' # "parse" \/ phase = "parse", phase' # "body" \/ phase = "body"
  PROVE  Inheritance'
<1>1. TargetIndex' = TargetIndex
  BY DEF TargetIndex
<1>2. OneTarget' /\ NothingConverted' /\ BodyEntered'
  BY <1>1, DeclarationsKept
     DEF Inheritance, OneTarget, NothingConverted, BodyEntered
<1>3. StatesConfigured'
  BY DeclarationsKept DEF Inheritance, StatesConfigured
<1> QED BY <1>2, <1>3, DeclarationsKept DEF Inheritance

LEMMA StartInheritance ==
  ASSUME TypeOK, Inheritance, StartPlatform
  PROVE  Inheritance'
<1>1. /\ UNCHANGED <<request, stages, images>> /\ DOMAIN states' = {}
      /\ phase' \in {"require", "platform", "done"}
  BY DEF StartPlatform, parserVars, resultVars, PlatformFails, Fail, Return
<1>2. TargetIndex' = TargetIndex
  BY <1>1 DEF TargetIndex
<1>3. target' = TargetIndex \/ target' = target
  BY DEF StartPlatform
<1>4. OneTarget' /\ (images # << >> => target' = target)
  BY <1>1, <1>2, <1>3 DEF Inheritance, OneTarget
<1>5. NothingConverted' /\ BodyEntered'
  BY <1>1 DEF NothingConverted, BodyEntered
<1>6. StatesConfigured'
  <2> SUFFICES ASSUME DeclarationsAreLiteral, NEW k \in DOMAIN images
               PROVE  Configured(images[k].state, Declared[target'])
    BY <1>1, DeclarationsKept DEF StatesConfigured, Configured
  <2>1. images # << >>
    OBVIOUS
  <2> QED BY <1>4, <2>1 DEF Inheritance, StatesConfigured
<1> QED BY <1>1, <1>4, <1>5, <1>6, DeclarationsKept DEF Inheritance

LEMMA FromInheritance ==
  ASSUME TypeOK, Flow, Inheritance, ConvertFrom
  PROVE  Inheritance'
<1>1. UNCHANGED <<request, stages, states, images, target>> /\ phase = "from"
  BY DEF ConvertFrom, parserVars, resultVars, PlatformFails, Fail, Return
<1> DEFINE n == NextStage
           lost == Based(n) /\ ~StageAvailable(stages[n].from.word)
<1>2. CASE lost
  <2>1. UNCHANGED <<stage, next, state>> /\ phase' \in {"platform", "done"}
    BY <1>2 DEF ConvertFrom, PlatformFails, Fail, Return, Based
  <2> QED BY <1>1, <2>1, SteadyInheritance
<1>3. CASE ~lost
  <2>1. /\ phase' = "body" /\ stage' = n /\ next' = 1
        /\ state' = OnPlatform(BaseState(stages[n].from), stages[n])
    BY <1>3 DEF ConvertFrom, Based
  <2>2. n \in DOMAIN stages /\ stages \in Seq(Stage)
    BY NextStageIsLeast DEF ConvertFrom, TypeOK
  <2> HIDE DEF n
  <2>3. stages[n] \in Stage
    BY <2>2
  <2>4. stages[n].body \in Seq(Instruction)
    BY <2>3 DEF Stage
  <2>5. BodyEntered'
    <3>1. Len(stages[n].body) \in Nat
      BY <2>4
    <3> QED BY <1>1, <1>3, <2>1, <3>1, DeclarationsKept DEF BodyEntered, StageAvailable, BaseOf, Based
  <2>6. TargetIndex' = TargetIndex
    BY <1>1 DEF TargetIndex
  <2>7. OneTarget' /\ NothingConverted'
    BY <1>1, <2>1, <2>6 DEF Inheritance, OneTarget, NothingConverted
  <2>8. ASSUME DeclarationsAreLiteral
        PROVE  Configured(state', DeclaredOn(BaseDeclared(n), stages[n].body, 0))
    <3> DEFINE base == BaseState(stages[n].from)
    <3>1. base \in LLBState /\ Configured(base, BaseDeclared(n))
      <4>1. CASE Based(n)
        <5>1. BaseOf(n) \in DOMAIN states /\ base = states[BaseOf(n)]
          BY <1>3, <4>1 DEF StageAvailable, BaseOf, BaseState, Based
        <5> QED BY <2>8, <4>1, <5>1 DEF TypeOK, Inheritance, StatesConfigured, BaseDeclared
      <4>2. CASE ~Based(n)
        <5>1. base = [NoState EXCEPT !.src = stages[n].from.word]
          BY <4>2 DEF BaseState, Based
        <5>2. NoState \in LLBState /\ stages[n].from.word \in Words
          BY <2>3 DEF NoState, LLBState, NoPlatform, Stage, FromInstruction
        <5>3. base \in LLBState
          BY <5>1, <5>2 DEF LLBState
        <5>4. base.list = << >> /\ base.command = NoWord
          BY <5>1 DEF NoState
        <5> QED BY <4>2, <5>3, <5>4 DEF Configured, BaseDeclared, Scratch
      <4> QED BY <4>1, <4>2
    <3> HIDE DEF base
    <3>2. state'.list = base.list /\ state'.command = base.command
      BY <2>1, <3>1 DEF OnPlatform, LLBState, base
    <3>3. base.list \in Seq(Words)
      BY <3>1 DEF LLBState
    <3>4. BaseDeclared(n).list = base.list /\ BaseDeclared(n).command = base.command
      BY <3>1 DEF Configured
    <3>5. /\ DeclaredOn(BaseDeclared(n), stages[n].body, 0).list = BaseDeclared(n).list
          /\ DeclaredOn(BaseDeclared(n), stages[n].body, 0).command = BaseDeclared(n).command
      BY <2>4, <3>3, <3>4, DeclaredStep
    <3> QED BY <3>2, <3>4, <3>5 DEF Configured
  <2>9. StatesConfigured'
    <3>1. next' - 1 = 0
      BY <2>1
    <3> QED BY <1>1, <2>1, <2>8, <3>1, DeclarationsKept DEF Inheritance, StatesConfigured, Configured
  <2> QED BY <1>1, <2>5, <2>7, <2>9, DeclarationsKept DEF Inheritance
<1> QED BY <1>2, <1>3

(* What a stage under conversion is built on has a list. *)
LEMMA BaseDeclaredType ==
  ASSUME TypeOK, Flow, Inheritance, DeclarationsAreLiteral, phase = "body"
  PROVE  BaseDeclared(stage).list \in Seq(Words)
<1>1. CASE Based(stage)
  <2>1. BaseOf(stage) \in DOMAIN states
    BY <1>1 DEF Inheritance, BodyEntered
  <2>2. states[BaseOf(stage)] \in LLBState /\ Configured(states[BaseOf(stage)], Declared[BaseOf(stage)])
    BY <2>1 DEF TypeOK, Inheritance, StatesConfigured
  <2> QED BY <1>1, <2>2 DEF BaseDeclared, Configured, LLBState
<1>2. CASE ~Based(stage)
  <2>1. BaseDeclared(stage).list = << >>
    BY <1>2 DEF BaseDeclared, Scratch
  <2>2. << >> \in Seq(Words)
    OBVIOUS
  <2> QED BY <2>1, <2>2
<1> QED BY <1>1, <1>2

LEMMA InstructionInheritance ==
  ASSUME TypeOK, Flow, Inheritance,
         ConvertRun \/ ConvertCopy \/ ConvertSet \/ ConvertCommand \/ ConvertList \/ ConvertArg
  PROVE  Inheritance'
<1>1. UNCHANGED <<request, stages, states, images, target, stage>> /\ phase = "body"
  BY DEF ConvertRun, ConvertCopy, ConvertSet, ConvertCommand, ConvertList, ConvertArg, Converting,
         Converted, parserVars, resultVars, PlatformFails, Fail, Return
<1> DEFINE body == stages[stage].body
           here == DeclaredOn(BaseDeclared(stage), body, next - 1)
<1>2. /\ stage \in DOMAIN stages /\ next \in 1..Len(body) /\ stages \in Seq(Stage)
      /\ body \in Seq(Instruction) /\ Instr = body[next] /\ Instr \in Instruction
      /\ state \in LLBState
  <2>1. \E op : Converting(op)
    BY DEF ConvertRun, ConvertCopy, ConvertSet, ConvertCommand, ConvertList, ConvertArg
  <2>2. stage \in DOMAIN stages /\ next \in DOMAIN body /\ Instr \in Instruction
        /\ stages \in Seq(Stage) /\ state \in LLBState
    BY <2>1, InstrType DEF TypeOK
  <2>3. stages[stage] \in Stage
    BY <2>2
  <2>4. body \in Seq(Instruction)
    BY <2>3 DEF Stage
  <2> QED BY <2>2, <2>4 DEF Instr
<1> HIDE DEF body
<1>3. CASE PlatformFails(platform, "reference") /\ UNCHANGED <<next, state>>
  <2>1. phase' \in {"platform", "done"}
    BY <1>3 DEF PlatformFails, Fail, Return
  <2> QED BY <1>1, <1>3, <2>1, SteadyInheritance
<1>4. ASSUME Converted,
             DeclarationsAreLiteral =>
               /\ state'.list = IF Instr.op = "list" THEN Append(state.list, Instr.text)
                                ELSE state.list
               /\ state'.command = IF Instr.op = "cmd" THEN Instr.text ELSE state.command
      PROVE  Inheritance'
  <2>1. next' = next + 1 /\ phase' = "body" /\ next' - 1 = next
    BY <1>1, <1>2, <1>4 DEF Converted
  <2>2. BodyEntered'
    <3>1. next' <= Len(body) + 1
      BY <1>2, <2>1
    <3> QED BY <1>1, <2>1, <3>1, DeclarationsKept DEF Inheritance, BodyEntered, body
  <2>3. TargetIndex' = TargetIndex
    BY <1>1 DEF TargetIndex
  <2>4. OneTarget' /\ NothingConverted'
    BY <1>1, <2>1, <2>3 DEF Inheritance, OneTarget, NothingConverted
  <2>5. ASSUME DeclarationsAreLiteral
        PROVE  Configured(state', DeclaredOn(BaseDeclared(stage), body, next))
    <3>1. Configured(state, DeclaredOn(BaseDeclared(stage), body, next - 1))
      BY <1>1, <2>5 DEF Inheritance, StatesConfigured, body
    <3>2. BaseDeclared(stage).list \in Seq(Words)
      BY <1>1, <2>5, BaseDeclaredType
    <3>3. /\ DeclaredOn(BaseDeclared(stage), body, next).list =
                IF Instr.op = "list"
                THEN Append(DeclaredOn(BaseDeclared(stage), body, next - 1).list, Instr.text)
                ELSE DeclaredOn(BaseDeclared(stage), body, next - 1).list
          /\ DeclaredOn(BaseDeclared(stage), body, next).command =
                IF Instr.op = "cmd" THEN Instr.text
                ELSE DeclaredOn(BaseDeclared(stage), body, next - 1).command
      BY <1>2, <3>2, DeclaredStep
    <3> QED BY <1>4, <2>5, <3>1, <3>3 DEF Configured
  <2>6. StatesConfigured'
    BY <1>1, <2>1, <2>5, DeclarationsKept DEF Inheritance, StatesConfigured, Configured, body
  <2> QED BY <1>1, <2>2, <2>4, <2>6, DeclarationsKept DEF Inheritance
<1>5. DeclarationsAreLiteral /\ Instr.op \in {"list", "cmd"} =>
        Instr.text \in Names /\ Instr.word = Instr.text
  BY <1>2 DEF DeclarationsAreLiteral, Inheritance, AsRead, body
<1>6. CASE ConvertRun
  <2>1. state'.list = state.list /\ state'.command = state.command /\ Converted
        /\ Instr.op = "run"
    BY <1>2, <1>6 DEF ConvertRun, Converting, Replace, LLBState
  <2> QED BY <1>4, <2>1
<1>7. CASE ConvertCopy
  <2>1. \/ PlatformFails(platform, "reference") /\ UNCHANGED <<next, state>>
        \/ \E src, from : Replace("file", src, from) /\ Converted
    BY <1>7 DEF ConvertCopy
  <2>2. ASSUME NEW src, NEW from, Replace("file", src, from)
        PROVE  state'.list = state.list /\ state'.command = state.command
    BY <1>2, <2>2 DEF Replace, LLBState
  <2>3. Instr.op = "copy"
    BY <1>7 DEF ConvertCopy, Converting
  <2> QED BY <1>3, <1>4, <2>1, <2>2, <2>3
<1>8. CASE ConvertSet
  <2>1. state'.list = state.list /\ state'.command = state.command /\ Converted
        /\ Instr.op = "set"
    BY <1>2, <1>8 DEF ConvertSet, Converting, LLBState
  <2> QED BY <1>4, <2>1
<1>9. CASE ConvertCommand
  <2>1. state'.list = state.list /\ state'.command = Instr.word /\ Converted /\ Instr.op = "cmd"
    BY <1>2, <1>9 DEF ConvertCommand, Converting, LLBState
  <2> QED BY <1>4, <1>5, <2>1
<1>10. CASE ConvertList
  <2>1. /\ state'.list = Append(state.list, Expand(Instr.word, args))
        /\ state'.command = state.command /\ Converted /\ Instr.op = "list"
    BY <1>2, <1>10 DEF ConvertList, Converting, LLBState
  <2>2. Instr.word \in Names => Expand(Instr.word, args) = Instr.word
    BY WordsAssumption DEF Expand
  <2> QED BY <1>4, <1>5, <2>1, <2>2
<1>11. CASE ConvertArg
  <2>1. state' = state /\ Converted /\ Instr.op = "arg"
    BY <1>11 DEF ConvertArg, Converting
  <2> QED BY <1>4, <2>1
<1> QED BY <1>6, <1>7, <1>8, <1>9, <1>10, <1>11

LEMMA FinishInheritance ==
  ASSUME TypeOK, Flow, Inheritance, FinishStage
  PROVE  Inheritance'
<1>1. /\ UNCHANGED <<request, stages, images, target>> /\ phase = "body" /\ phase' = "from"
      /\ states' = [i \in DOMAIN states \cup {stage} |->
                       IF i = stage THEN state ELSE states[i]]
      /\ next > Len(stages[stage].body)
  BY DEF FinishStage, parserVars, resultVars
<1>2. stage \in DOMAIN stages /\ next \in Nat /\ stages \in Seq(Stage)
  BY <1>1 DEF Flow, Ascending, TypeOK
<1>3. Len(stages[stage].body) \in Nat
  <2>1. stages[stage] \in Stage
    BY <1>2
  <2>2. stages[stage].body \in Seq(Instruction)
    BY <2>1 DEF Stage
  <2> QED BY <2>2
<1>4. next - 1 = Len(stages[stage].body)
  <2>1. next <= Len(stages[stage].body) + 1
    BY <1>1 DEF Inheritance, BodyEntered
  <2> QED BY <1>1, <1>2, <1>3, <2>1
<1>5. Declared[stage] = DeclaredOn(BaseDeclared(stage), stages[stage].body, next - 1)
  BY <1>1, <1>2, <1>4, BasesPrecedeStages, DeclaredUnfold
<1>6. DeclarationsAreLiteral => Configured(state, Declared[stage])
  BY <1>1, <1>5 DEF Inheritance, StatesConfigured
<1>7. DeclarationsAreLiteral => \A i \in DOMAIN states' : Configured(states'[i], Declared[i])
  BY <1>1, <1>6 DEF Inheritance, StatesConfigured
<1>8. StatesConfigured'
  <2>1. UNCHANGED <<stages, images, target>> /\ phase' = "from"
    BY <1>1
  <2> SUFFICES ASSUME DeclarationsAreLiteral
               PROVE  /\ \A i \in DOMAIN states' : Configured(states'[i], Declared[i])
                      /\ \A k \in DOMAIN images : Configured(images[k].state, Declared[target])
    BY <2>1, DeclarationsKept DEF StatesConfigured, Configured
  <2> QED BY <1>7 DEF Inheritance, StatesConfigured
<1>9. TargetIndex' = TargetIndex
  BY <1>1 DEF TargetIndex
<1>10. OneTarget' /\ NothingConverted' /\ BodyEntered'
  BY <1>1, <1>9 DEF Inheritance, OneTarget, NothingConverted, BodyEntered
<1> QED BY <1>1, <1>8, <1>10, DeclarationsKept DEF Inheritance

LEMMA SolveInheritance ==
  ASSUME TypeOK, Flow, Inheritance, Solve
  PROVE  Inheritance'
<1>1. /\ UNCHANGED <<request, stages, states, stage, next, state, target>>
      /\ phase = "from" /\ phase' \in {"platform", "export", "done"}
  BY DEF Solve, parserVars, convertVars, PlatformFails, Fail, Return
<1> DEFINE new == [platform |-> Platform, state |-> states[target], args |-> args]
<1>2. images' = images \/ images' = Append(images, new)
  BY DEF Solve, PlatformFails, Fail, Return
<1>3. new.state = states[target]
  OBVIOUS
<1> HIDE DEF new
<1>4. CASE images' = images
  BY <1>1, <1>4, SteadyInheritance
<1>5. CASE images' = Append(images, new)
  <2>1. target = TargetIndex /\ target \in DOMAIN states /\ TargetIndex' = TargetIndex
    <3>1. target = TargetIndex /\ target \in required
      BY <1>1 DEF Flow, Searching, Searched
    <3> QED BY <1>1, <3>1 DEF Solve, Unconverted, TargetIndex
  <2>2. images \in Seq(Image)
    BY DEF TypeOK
  <2>3. \A k \in DOMAIN images' : images'[k] = new \/ (k \in DOMAIN images /\ images'[k] = images[k])
    BY <1>5, <2>2
  <2>4. DeclarationsAreLiteral => Configured(new.state, Declared[target])
    BY <1>3, <2>1 DEF Inheritance, StatesConfigured
  <2>5. StatesConfigured'
    BY <1>1, <2>3, <2>4, DeclarationsKept DEF Inheritance, StatesConfigured, Configured
  <2>6. OneTarget' /\ NothingConverted' /\ BodyEntered'
    BY <1>1, <2>1 DEF OneTarget, NothingConverted, BodyEntered
  <2> QED BY <1>1, <2>5, <2>6, DeclarationsKept DEF Inheritance
<1> QED BY <1>2, <1>4, <1>5

LEMMA NextInheritance ==
  ASSUME TypeOK, Flow, Inheritance, [Next]_vars
  PROVE  Inheritance'
<1>1. CASE ParseFrom \/ ParseArg \/ ParseOperand \/ ParseCopy
  BY <1>1, ParseInheritance
<1>2. CASE EarlyInstruction \/ EndOfFile \/ Prepare \/ PlatformsTried \/ ExportCache
  <2>1. UNCHANGED <<request, stages, states, stage, next, state, images, target>>
        /\ phase' \notin {"parse", "body"}
    BY <1>2 DEF EarlyInstruction, EndOfFile, Prepare, ValidateRequest, PrepareContext, ImportCache,
                PlatformsTried, ExportCache, Fail, Return, parserVars, convertVars, resultVars
  <2> QED BY <2>1, SteadyInheritance
<1>3. CASE EnterStage \/ StagesFound
  <2>1. UNCHANGED <<request, stages, states, stage, next, state, images, target>>
        /\ phase' \notin {"parse", "body"}
    BY <1>3 DEF EnterStage, StagesFound, parserVars, convertVars, resultVars
  <2> QED BY <2>1, SteadyInheritance
<1>4. CASE UNCHANGED vars
  <2>1. UNCHANGED <<request, stages, states, stage, next, state, images, target, phase>>
    BY <1>4 DEF vars, parserVars, convertVars, resultVars
  <2> QED BY <2>1, SteadyInheritance
<1> QED BY <1>1, <1>2, <1>3, <1>4, StartInheritance, FromInheritance, InstructionInheritance,
           FinishInheritance, SolveInheritance
        DEF Next, Parse, Convert, Finish, Terminated

(* For Dockerfiles whose VOLUME, EXPOSE and command words name no build     *)
(* argument: a solved image has the lists and the command that its stage    *)
(* and the stages it is based on declare (cloneState, copyMetadata).        *)
THEOREM DeclarationsInherited == Spec => []ConfigurationIsInherited
<1>1. Init => Inheritance
  <2> SUFFICES ASSUME Init PROVE Inheritance
    OBVIOUS
  <2>1. DOMAIN stages = {} /\ stages = << >> /\ DOMAIN states = {} /\ images = << >>
        /\ DOMAIN images = {} /\ phase = "parse"
    BY DEF Init
  <2> QED BY <2>1 DEF Inheritance, AsRead, FirstFromImage, NothingConverted, OneTarget,
                      BodyEntered, StatesConfigured
<1>2. IInv /\ Inheritance /\ [Next]_vars => Inheritance'
  BY NextInheritance DEF IInv
<1>3. Inheritance => ConfigurationIsInherited
  BY DEF Inheritance, StatesConfigured, Configured, ConfigurationIsInherited
<1> QED BY <1>1, <1>2, <1>3, Invariance, PTL DEF Spec

(* All that a build's outcome promises, for requests that name no platform  *)
(* twice (builder.Build, buildMultiPlatform, Convert).                      *)
THEOREM OutcomesAreRight ==
  ASSUME OnePlatformEach
  PROVE  Spec => []OutcomeIsRight
<1>1. EveryPlatformAccounted /\ ValidatedFilesConvert /\ ConfigurationIsInherited => OutcomeIsRight
  BY DEF OutcomeIsRight
<1> QED BY <1>1, PlatformsAccounted, ValidatorIsSound, DeclarationsInherited, PTL

-----------------------------------------------------------------------------
(***************************************************************************)
(* States in memory (LLBStates).  The argument: a step writes in place     *)
(* only where the stage at hand alone can look, which holds because a      *)
(* clone takes nothing over; all else it writes is new.                    *)
(***************************************************************************)
Slice    == [array : Nat, len : Nat, cap : Nat]
Addresses == [map : Nat, env : Nat, list : Slice]
Entries  == Values \cup {NoValue}
Meaning  == [platform : Settings, env : Settings, list : Seq(Values)]

(* The addresses of a state are in use, and its slice fits its array. *)
HeldIn(m, a, s) ==
    /\ s.map \in DOMAIN m
    /\ s.env # 0 => s.env \in DOMAIN m
    /\ s.list.len <= s.list.cap
    /\ s.list.array = 0 => s.list.cap = 0
    /\ s.list.array # 0 =>
           s.list.array \in DOMAIN a /\ DOMAIN a[s.list.array] = 1..s.list.cap

LLBTypeOK ==
    /\ maps \in Seq(Settings)
    /\ arrays \in Seq(Seq(Entries))
    /\ converted \in Seq(Addresses) /\ current \in Addresses
    /\ meant \in Seq(Meaning) /\ meaning \in Meaning
    /\ Len(meant) = Len(converted)

ConvertedHeld == \A i \in DOMAIN converted : HeldIn(maps, arrays, converted[i])

CurrentHeld == current # NoStage => HeldIn(maps, arrays, current)

ArrayOfItsOwn ==
    current.list.array # 0 =>
        \A i \in DOMAIN converted : converted[i].list.array # current.list.array

LLBInv == LLBTypeOK /\ ConvertedHeld /\ CurrentHeld /\ ArrayOfItsOwn /\ SharingIsInvisible

(* A state reads the same where its maps and its array are the same. *)
LEMMA ReadsAlike ==
  ASSUME NEW m, NEW a, NEW n, NEW b, NEW s \in Addresses, HeldIn(m, a, s),
         \A k \in DOMAIN m : k \in DOMAIN n /\ n[k] = m[k],
         s.list.array # 0 => s.list.array \in DOMAIN b /\ b[s.list.array] = a[s.list.array]
  PROVE  HeldIn(n, b, s) /\ ReadIn(n, b, s) = ReadIn(m, a, s)
<1>1. HeldIn(n, b, s)
  BY DEF HeldIn
<1>2. n[s.map] = m[s.map] /\ (s.env # 0 => n[s.env] = m[s.env])
  BY DEF HeldIn
<1>3. s.list.len \in Nat /\ (s.list.array = 0 => s.list.len = 0)
  BY DEF HeldIn, Addresses, Slice
<1>4. \A k \in 1..s.list.len : b[s.list.array][k] = a[s.list.array][k]
  BY <1>3
<1>5. Elements(b, s.list) = Elements(a, s.list)
  BY <1>4 DEF Elements
<1> QED BY <1>1, <1>2, <1>5 DEF ReadIn

(* Nothing is written that a converted stage can see. *)
LEMMA ConvertedUntouched ==
  ASSUME LLBInv, converted' = converted, meant' = meant,
         \A k \in DOMAIN maps : k \in DOMAIN maps' /\ maps'[k] = maps[k],
         \A i \in DOMAIN converted : converted[i].list.array # 0 =>
             /\ converted[i].list.array \in DOMAIN arrays'
             /\ arrays'[converted[i].list.array] = arrays[converted[i].list.array]
  PROVE  ConvertedHeld' /\ \A i \in DOMAIN converted' : Read(converted[i])' = meant'[i]
<1>1. ASSUME NEW i \in DOMAIN converted
      PROVE  /\ HeldIn(maps', arrays', converted[i])
             /\ ReadIn(maps', arrays', converted[i]) = meant[i]
  <2>1. converted[i] \in Addresses /\ HeldIn(maps, arrays, converted[i])
    BY DEF LLBInv, LLBTypeOK, ConvertedHeld
  <2>2. ReadIn(maps, arrays, converted[i]) = meant[i]
    BY DEF LLBInv, SharingIsInvisible, Read
  <2> QED BY <2>1, <2>2, ReadsAlike
<1> QED BY <1>1 DEF ConvertedHeld, Read

(* An empty slice has no elements. *)
LEMMA NoElements == ASSUME NEW a, NEW l, l.len = 0 PROVE Elements(a, l) = << >>
BY DEF Elements

LEMMA FunctionIsSeq ==
  ASSUME NEW S, NEW n \in Nat, NEW f \in [1..n -> S]
  PROVE  f \in Seq(S)
<1> DEFINE F == {[1..j -> S] : j \in Nat}
<1>1. [1..n -> S] \in F
  OBVIOUS
<1> HIDE DEF F
<1>2. f \in UNION F
  BY <1>1
<1> QED BY <1>2, SeqDef, Zenon DEF F

LEMMA ElementsType ==
  ASSUME NEW a \in Seq(Seq(Entries)), NEW s \in Addresses, NEW m, HeldIn(m, a, s)
  PROVE  Elements(a, s.list) \in Seq(Entries) /\ Len(Elements(a, s.list)) = s.list.len
<1>1. s.list.len \in Nat /\ s.list.cap \in Nat /\ s.list.len <= s.list.cap
      /\ (s.list.array = 0 => s.list.len = 0)
  BY DEF HeldIn, Addresses, Slice
<1>2. \A k \in 1..s.list.len : a[s.list.array][k] \in Entries
  <2>1. CASE s.list.array = 0
    BY <1>1, <2>1
  <2>2. CASE s.list.array # 0
    <3>1. a[s.list.array] \in Seq(Entries) /\ DOMAIN a[s.list.array] = 1..s.list.cap
      BY <2>2 DEF HeldIn
    <3> QED BY <1>1, <3>1
  <2> QED BY <2>1, <2>2
<1>3. Elements(a, s.list) \in [1..s.list.len -> Entries]
  BY <1>2 DEF Elements
<1>4. Elements(a, s.list) \in Seq(Entries)
  BY <1>1, <1>3, FunctionIsSeq
<1> QED BY <1>1, <1>3, <1>4, LenProperties

LEMMA FromImageShares == ASSUME LLBInv, FromImage PROVE LLBInv'
<1>1. PICK p \in Settings : maps' = Append(maps, p) /\ meaning' = Fresh(p)
  BY DEF FromImage
<1>2. /\ current' = [map |-> Len(maps'), env |-> 0, list |-> NoList]
      /\ UNCHANGED <<arrays, converted, meant>>
  BY DEF FromImage
<1>3. maps \in Seq(Settings) /\ arrays \in Seq(Seq(Entries))
  BY DEF LLBInv, LLBTypeOK
<1>4. /\ \A k \in DOMAIN maps : k \in DOMAIN maps' /\ maps'[k] = maps[k]
      /\ Len(maps') \in DOMAIN maps' /\ maps'[Len(maps')] = p /\ Len(maps') \in Nat
      /\ maps' \in Seq(Settings)
  BY <1>1, <1>3
<1>5. ConvertedHeld' /\ \A i \in DOMAIN converted' : Read(converted[i])' = meant'[i]
  <2>1. \A i \in DOMAIN converted : converted[i].list.array # 0 =>
             /\ converted[i].list.array \in DOMAIN arrays'
             /\ arrays'[converted[i].list.array] = arrays[converted[i].list.array]
    BY <1>2 DEF LLBInv, ConvertedHeld, HeldIn
  <2> QED BY <1>2, <1>4, <2>1, ConvertedUntouched
<1>6. LLBTypeOK'
  <2>1. current' \in Addresses
    BY <1>2, <1>4 DEF Addresses, Slice, NoList
  <2>2. meaning' \in Meaning
    BY <1>1 DEF Meaning, Fresh, Settings
  <2> QED BY <1>2, <1>4, <2>1, <2>2 DEF LLBInv, LLBTypeOK
<1>7. HeldIn(maps', arrays', current') /\ ArrayOfItsOwn'
  BY <1>2, <1>4 DEF HeldIn, NoList, ArrayOfItsOwn
<1>8. ReadIn(maps', arrays', current') = meaning'
  <2>1. Elements(arrays', current'.list) = << >>
    BY <1>2, NoElements DEF NoList
  <2> QED BY <1>1, <1>2, <1>4, <2>1 DEF ReadIn, Fresh
<1> QED BY <1>5, <1>6, <1>7, <1>8 DEF LLBInv, CurrentHeld, SharingIsInvisible, Read

(* Memory after a clone: as before, with the copies at the end. *)
LEMMA CloneIsNew ==
  ASSUME LLBTypeOK, NEW s \in Addresses, HeldIn(maps, arrays, s)
  PROVE  /\ CloneState(s) \in Addresses
         /\ CloneMaps(s) \in Seq(Settings) /\ CloneArrays(s) \in Seq(Seq(Entries))
         /\ \A k \in DOMAIN maps : k \in DOMAIN CloneMaps(s) /\ CloneMaps(s)[k] = maps[k]
         /\ \A k \in DOMAIN arrays : k \in DOMAIN CloneArrays(s) /\ CloneArrays(s)[k] = arrays[k]
         /\ HeldIn(CloneMaps(s), CloneArrays(s), CloneState(s))
         /\ ReadIn(CloneMaps(s), CloneArrays(s), CloneState(s)) = ReadIn(maps, arrays, s)
         /\ CloneState(s).map \notin DOMAIN maps
         /\ CloneState(s).env # CloneState(s).map
         /\ CloneState(s).list.array \notin DOMAIN arrays
<1> DEFINE l == s.list
           c == CloneState(s)
           m == CloneMaps(s)
           a == CloneArrays(s)
           elements == Elements(arrays, l)
<1>1. /\ maps \in Seq(Settings) /\ arrays \in Seq(Seq(Entries))
      /\ Len(maps) \in Nat /\ Len(arrays) \in Nat
      /\ DOMAIN maps = 1..Len(maps) /\ DOMAIN arrays = 1..Len(arrays)
  BY DEF LLBTypeOK
<1>2. /\ s.map \in DOMAIN maps /\ (s.env # 0 => s.env \in DOMAIN maps)
      /\ s.env \in Nat /\ l.len \in Nat
  BY DEF HeldIn, Addresses, Slice
<1>3. elements \in Seq(Entries) /\ Len(elements) = l.len
  BY <1>1, ElementsType
<1>4. maps[s.map] \in Settings /\ (s.env # 0 => maps[s.env] \in Settings)
  BY <1>1, <1>2
<1>5. /\ m \in Seq(Settings) /\ Len(maps) + 1 \in DOMAIN m
      /\ \A k \in DOMAIN maps : k \in DOMAIN m /\ m[k] = maps[k]
      /\ m[Len(maps) + 1] = maps[s.map]
      /\ s.env # 0 => Len(maps) + 2 \in DOMAIN m /\ m[Len(maps) + 2] = maps[s.env]
  <2>1. CASE s.env = 0
    <3>1. m = maps \o <<maps[s.map]>> \o << >>
      BY <2>1 DEF CloneMaps
    <3>2. m = Append(maps, maps[s.map])
      BY <1>1, <1>4, <3>1
    <3> QED BY <1>1, <1>4, <2>1, <3>2
  <2>2. CASE s.env # 0
    <3>1. m = maps \o <<maps[s.map]>> \o <<maps[s.env]>>
      BY <2>2 DEF CloneMaps
    <3>2. m = Append(Append(maps, maps[s.map]), maps[s.env])
      BY <1>1, <1>4, <2>2, <3>1
    <3> HIDE DEF m
    <3> QED BY <1>1, <1>4, <2>2, <3>2
  <2> QED BY <2>1, <2>2
<1>6. /\ c.map = Len(maps) + 1
      /\ c.env = IF s.env = 0 THEN 0 ELSE Len(maps) + 2
      /\ c.list = IF l.len = 0 THEN NoList
                  ELSE [array |-> Len(arrays) + 1, len |-> l.len, cap |-> l.len]
  BY DEF CloneState
<1>7. c \in Addresses
  BY <1>1, <1>2 DEF CloneState, Addresses, Slice, NoList
<1>8. a = IF l.len = 0 THEN arrays ELSE Append(arrays, elements)
  BY DEF CloneArrays
<1> HIDE DEF c, m, a, elements
<1>9. /\ a \in Seq(Seq(Entries))
      /\ \A k \in DOMAIN arrays : k \in DOMAIN a /\ a[k] = arrays[k]
      /\ l.len # 0 => Len(arrays) + 1 \in DOMAIN a /\ a[Len(arrays) + 1] = elements
  BY <1>1, <1>3, <1>8
<1>10. DOMAIN elements = 1..l.len
  BY <1>3
<1>11. HeldIn(m, a, c)
  <2>1. c.map \in DOMAIN m /\ (c.env # 0 => c.env \in DOMAIN m)
    BY <1>5, <1>6
  <2>2. CASE l.len = 0
    BY <1>6, <2>1, <2>2 DEF HeldIn, NoList
  <2>3. CASE l.len # 0
    <3>1. c.list = [array |-> Len(arrays) + 1, len |-> l.len, cap |-> l.len]
      BY <1>6, <2>3
    <3>2. c.list.array = Len(arrays) + 1 /\ c.list.len = l.len /\ c.list.cap = l.len
      BY <3>1
    <3>3. c.list.array \in DOMAIN a /\ DOMAIN a[c.list.array] = 1..c.list.cap
      BY <1>9, <1>10, <2>3, <3>2
    <3> QED BY <1>1, <1>2, <2>1, <3>2, <3>3 DEF HeldIn
  <2> QED BY <2>2, <2>3
<1>12. Elements(a, c.list) = elements
  <2>1. CASE l.len = 0
    BY <1>6, <2>1, NoElements DEF NoList, elements
  <2>2. CASE l.len # 0
    <3>1. Elements(a, c.list) = [k \in 1..l.len |-> elements[k]]
      BY <1>6, <1>9, <2>2 DEF Elements
    <3>2. elements = [k \in 1..l.len |-> elements[k]]
      BY <1>10 DEF elements, Elements
    <3> QED BY <3>1, <3>2
  <2> QED BY <2>1, <2>2
<1>13. m[c.map] = maps[s.map] /\ (c.env = 0 <=> s.env = 0)
       /\ (s.env # 0 => m[c.env] = maps[s.env])
  BY <1>1, <1>5, <1>6
<1>14. ReadIn(m, a, c) = ReadIn(maps, arrays, s)
  BY <1>12, <1>13 DEF ReadIn, elements
<1>15. c.map \notin DOMAIN maps /\ c.env # c.map /\ c.list.array \notin DOMAIN arrays
  BY <1>1, <1>6 DEF NoList
<1> QED BY <1>5, <1>7, <1>9, <1>11, <1>14, <1>15 DEF c, m, a

LEMMA FromStageShares == ASSUME LLBInv, FromStage PROVE LLBInv'
<1>1. PICK i \in DOMAIN converted, p \in Settings :
           /\ current' = CloneState(converted[i])
           /\ maps' = IF p = NoValue THEN CloneMaps(converted[i])
                      ELSE [CloneMaps(converted[i]) EXCEPT ![current'.map] = p]
           /\ arrays' = CloneArrays(converted[i])
           /\ meaning' = IF p = NoValue THEN meant[i] ELSE [meant[i] EXCEPT !.platform = p]
  BY DEF FromStage
<1> DEFINE c == CloneState(converted[i])
           m == CloneMaps(converted[i])
<1>2. UNCHANGED <<converted, meant>>
  BY DEF FromStage
<1>3. converted[i] \in Addresses /\ HeldIn(maps, arrays, converted[i]) /\ LLBTypeOK
  BY DEF LLBInv, LLBTypeOK, ConvertedHeld
<1>4. /\ c \in Addresses /\ m \in Seq(Settings) /\ arrays' \in Seq(Seq(Entries))
      /\ \A k \in DOMAIN maps : k \in DOMAIN m /\ m[k] = maps[k]
      /\ \A k \in DOMAIN arrays : k \in DOMAIN arrays' /\ arrays'[k] = arrays[k]
      /\ HeldIn(m, arrays', c) /\ ReadIn(m, arrays', c) = ReadIn(maps, arrays, converted[i])
      /\ c.map \notin DOMAIN maps /\ c.env # c.map /\ c.list.array \notin DOMAIN arrays
  BY <1>1, <1>3, CloneIsNew
<1>5. ReadIn(maps, arrays, converted[i]) = meant[i]
  BY DEF LLBInv, SharingIsInvisible, Read
<1>6. meant[i] \in Meaning
  BY <1>3 DEF LLBTypeOK
<1>7. current' = c /\ maps' = IF p = NoValue THEN m ELSE [m EXCEPT ![c.map] = p]
  BY <1>1
<1> HIDE DEF c, m
<1>8. c.map \in DOMAIN m
  BY <1>4 DEF HeldIn
<1>9. /\ maps' \in Seq(Settings) /\ DOMAIN maps' = DOMAIN m
      /\ \A k \in DOMAIN m \ {c.map} : maps'[k] = m[k]
      /\ maps'[c.map] = IF p = NoValue THEN m[c.map] ELSE p
  BY <1>4, <1>7, <1>8
<1>10. \A k \in DOMAIN maps : k \in DOMAIN maps' /\ maps'[k] = maps[k]
  BY <1>4, <1>9
<1>11. ConvertedHeld' /\ \A j \in DOMAIN converted' : Read(converted[j])' = meant'[j]
  <2>1. \A j \in DOMAIN converted : converted[j].list.array # 0 =>
             /\ converted[j].list.array \in DOMAIN arrays'
             /\ arrays'[converted[j].list.array] = arrays[converted[j].list.array]
    BY <1>4 DEF LLBInv, ConvertedHeld, HeldIn
  <2> QED BY <1>2, <1>10, <2>1, ConvertedUntouched
<1>12. LLBTypeOK'
  <2>1. meaning' \in Meaning
    BY <1>1, <1>6 DEF Meaning
  <2> QED BY <1>2, <1>3, <1>4, <1>7, <1>9, <2>1 DEF LLBTypeOK
<1>13. HeldIn(maps', arrays', current')
  BY <1>4, <1>7, <1>9 DEF HeldIn
<1>14. ReadIn(maps', arrays', current') = meaning'
  <2>1. c.env # 0 => maps'[c.env] = m[c.env]
    BY <1>4, <1>9 DEF HeldIn
  <2>2. /\ m[c.map] = meant[i].platform
        /\ (IF c.env = 0 THEN NoValue ELSE m[c.env]) = meant[i].env
        /\ Elements(arrays', c.list) = meant[i].list
    BY <1>4, <1>5 DEF ReadIn
  <2>3. meaning' = [platform |-> IF p = NoValue THEN meant[i].platform ELSE p,
                    env |-> meant[i].env, list |-> meant[i].list]
    BY <1>1, <1>6 DEF Meaning
  <2> QED BY <1>7, <1>9, <2>1, <2>2, <2>3 DEF ReadIn
<1>15. ArrayOfItsOwn'
  <2> SUFFICES ASSUME c.list.array # 0, NEW j \in DOMAIN converted
               PROVE  converted[j].list.array # c.list.array
    BY <1>2, <1>7 DEF ArrayOfItsOwn
  <2> QED BY <1>4 DEF LLBInv, ConvertedHeld, HeldIn
<1> QED BY <1>11, <1>12, <1>13, <1>14, <1>15 DEF LLBInv, CurrentHeld, SharingIsInvisible, Read

(* RUN, COPY, ADD, ENV and LABEL make a map and write into no other. *)
LEMMA NewMapShares ==
  ASSUME LLBInv, NewOperation \/ SetVariable
  PROVE  LLBInv'
<1>1. current # NoStage /\ UNCHANGED <<arrays, converted, meant>>
  BY DEF NewOperation, SetVariable, Making
<1>2. PICK v \in Settings :
        /\ maps' = Append(maps, v)
        /\ \/ /\ v = NoValue /\ current' = [current EXCEPT !.map = Len(maps')]
              /\ meaning' = [meaning EXCEPT !.platform = NoValue]
           \/ /\ current' = [current EXCEPT !.env = Len(maps')]
              /\ meaning' = [meaning EXCEPT !.env = v]
  BY DEF NewOperation, SetVariable, Settings
<1>3. maps \in Seq(Settings) /\ current \in Addresses /\ meaning \in Meaning
      /\ HeldIn(maps, arrays, current) /\ ReadIn(maps, arrays, current) = meaning
  BY <1>1 DEF LLBInv, LLBTypeOK, CurrentHeld, SharingIsInvisible, Read
<1> DEFINE n == Len(maps) + 1
<1>4. /\ maps' \in Seq(Settings) /\ Len(maps') = n /\ n \in Nat \ {0}
      /\ n \in DOMAIN maps' /\ maps'[n] = v
      /\ \A k \in DOMAIN maps : k \in DOMAIN maps' /\ maps'[k] = maps[k]
  BY <1>2, <1>3
<1> HIDE DEF n
<1>5. ConvertedHeld' /\ \A j \in DOMAIN converted' : Read(converted[j])' = meant'[j]
  <2>1. \A j \in DOMAIN converted : converted[j].list.array # 0 =>
             /\ converted[j].list.array \in DOMAIN arrays'
             /\ arrays'[converted[j].list.array] = arrays[converted[j].list.array]
    BY <1>1 DEF LLBInv, ConvertedHeld, HeldIn
  <2> QED BY <1>1, <1>4, <2>1, ConvertedUntouched
<1>6. LLBTypeOK' /\ ArrayOfItsOwn' /\ current'.list = current.list
  <2>1. current' \in Addresses /\ current'.list = current.list
    BY <1>2, <1>3, <1>4 DEF Addresses
  <2>2. meaning' \in Meaning
    BY <1>2, <1>3 DEF Meaning, Settings
  <2> QED BY <1>1, <1>4, <2>1, <2>2 DEF LLBInv, LLBTypeOK, ArrayOfItsOwn
<1>7. HeldIn(maps', arrays', current')
  BY <1>1, <1>2, <1>3, <1>4 DEF HeldIn, Addresses
<1>8. ReadIn(maps', arrays', current') = meaning'
  <2>1. /\ maps[current.map] = meaning.platform
        /\ (IF current.env = 0 THEN NoValue ELSE maps[current.env]) = meaning.env
        /\ Elements(arrays, current.list) = meaning.list
    BY <1>3 DEF ReadIn
  <2>2. Elements(arrays', current'.list) = meaning.list
    BY <1>1, <1>6, <2>1
  <2>3. maps'[current.map] = maps[current.map]
        /\ (current.env # 0 => maps'[current.env] = maps[current.env])
    BY <1>3, <1>4 DEF HeldIn
  <2>4. CASE v = NoValue /\ current' = [current EXCEPT !.map = Len(maps')]
             /\ meaning' = [meaning EXCEPT !.platform = NoValue]
    <3>1. current'.map = n /\ current'.env = current.env
      BY <1>3, <1>4, <2>4 DEF Addresses
    <3>2. meaning' = [platform |-> NoValue, env |-> meaning.env, list |-> meaning.list]
      BY <1>3, <2>4 DEF Meaning
    <3> QED BY <1>4, <2>1, <2>2, <2>3, <2>4, <3>1, <3>2 DEF ReadIn
  <2>5. CASE current' = [current EXCEPT !.env = Len(maps')]
             /\ meaning' = [meaning EXCEPT !.env = v]
    <3>1. current'.map = current.map /\ current'.env = n
      BY <1>3, <1>4, <2>5 DEF Addresses
    <3>2. meaning' = [platform |-> meaning.platform, env |-> v, list |-> meaning.list]
      BY <1>3, <2>5 DEF Meaning
    <3> QED BY <1>4, <2>1, <2>2, <2>3, <3>1, <3>2 DEF ReadIn
  <2> QED BY <1>2, <2>4, <2>5
<1> QED BY <1>5, <1>6, <1>7, <1>8 DEF LLBInv, CurrentHeld, SharingIsInvisible, Read

LEMMA AppendShares == ASSUME LLBInv, AppendList PROVE LLBInv'
<1> DEFINE l == current.list
           n == l.len + 1
<1>1. current # NoStage /\ UNCHANGED <<maps, converted, meant>>
  BY DEF AppendList, Making
<1>2. PICK v \in Values :
        /\ IF l.len < l.cap
           THEN /\ arrays' = [arrays EXCEPT ![l.array][n] = v]
                /\ current' = [current EXCEPT !.list.len = n]
           ELSE /\ arrays' = Append(arrays, [k \in 1..Grown(l.cap) |->
                                 IF k < n THEN arrays[l.array][k]
                                 ELSE IF k = n THEN v ELSE NoValue])
                /\ current' = [current EXCEPT !.list =
                       [array |-> Len(arrays'), len |-> n, cap |-> Grown(l.cap)]]
        /\ meaning' = [meaning EXCEPT !.list = Append(@, v)]
  BY DEF AppendList
<1>3. /\ arrays \in Seq(Seq(Entries)) /\ current \in Addresses /\ meaning \in Meaning
      /\ HeldIn(maps, arrays, current) /\ ReadIn(maps, arrays, current) = meaning
      /\ \A i \in DOMAIN converted : HeldIn(maps, arrays, converted[i])
  BY <1>1 DEF LLBInv, LLBTypeOK, CurrentHeld, ConvertedHeld, SharingIsInvisible, Read
<1>4. /\ l \in Slice /\ l.len \in Nat /\ l.cap \in Nat /\ l.array \in Nat /\ l.len <= l.cap
      /\ l.array = 0 => l.cap = 0
      /\ l.array # 0 => l.array \in DOMAIN arrays /\ DOMAIN arrays[l.array] = 1..l.cap
  BY <1>3 DEF HeldIn, Addresses, Slice
<1>5. /\ maps[current.map] = meaning.platform
      /\ (IF current.env = 0 THEN NoValue ELSE maps[current.env]) = meaning.env
      /\ Elements(arrays, l) = meaning.list
  BY <1>3 DEF ReadIn
<1>6. v \in Entries /\ meaning' \in Meaning
      /\ meaning' = [platform |-> meaning.platform, env |-> meaning.env,
                     list |-> Append(meaning.list, v)]
  <2>1. meaning.list \in Seq(Values) /\ meaning.platform \in Settings /\ meaning.env \in Settings
        /\ meaning = [platform |-> meaning.platform, env |-> meaning.env, list |-> meaning.list]
    BY <1>3 DEF Meaning
  <2>2. Append(meaning.list, v) \in Seq(Values)
    BY <2>1, AppendProperties
  <2>3. meaning' = [platform |-> meaning.platform, env |-> meaning.env,
                    list |-> Append(meaning.list, v)]
    BY <1>2, <2>1
  <2> QED BY <2>1, <2>2, <2>3 DEF Entries, Meaning
<1>7. /\ arrays' \in Seq(Seq(Entries)) /\ current' \in Addresses
      /\ current'.map = current.map /\ current'.env = current.env
      /\ current'.list.len = n /\ n <= current'.list.cap
      /\ current'.list.array # 0 /\ current'.list.array \in DOMAIN arrays'
      /\ DOMAIN arrays'[current'.list.array] = 1..current'.list.cap
      /\ arrays'[current'.list.array][n] = v
      /\ \A k \in 1..l.len : arrays'[current'.list.array][k] = arrays[l.array][k]
      /\ \A i \in DOMAIN converted : converted[i].list.array # current'.list.array
      /\ \A i \in DOMAIN converted : converted[i].list.array # 0 =>
             /\ converted[i].list.array \in DOMAIN arrays'
             /\ arrays'[converted[i].list.array] = arrays[converted[i].list.array]
  <2>1. CASE l.len < l.cap
    <3>1. l.array \in DOMAIN arrays /\ l.array # 0 /\ n \in 1..l.cap
          /\ DOMAIN arrays[l.array] = 1..l.cap
      BY <1>4, <2>1
    <3>2. arrays' = [arrays EXCEPT ![l.array][n] = v]
          /\ current' = [current EXCEPT !.list.len = n]
      BY <1>2, <2>1
    <3>3. arrays[l.array] \in Seq(Entries)
      BY <1>3, <3>1
    <3> DEFINE x == [arrays[l.array] EXCEPT ![n] = v]
    <3>4. /\ x \in Seq(Entries) /\ DOMAIN x = 1..l.cap /\ x[n] = v
          /\ \A k \in 1..l.len : x[k] = arrays[l.array][k]
      BY <1>4, <1>6, <3>1, <3>3
    <3>5. arrays' = [arrays EXCEPT ![l.array] = x]
      BY <3>2
    <3> HIDE DEF x
    <3>6. /\ arrays' \in Seq(Seq(Entries)) /\ DOMAIN arrays' = DOMAIN arrays
          /\ arrays'[l.array] = x
          /\ \A j \in DOMAIN arrays \ {l.array} : arrays'[j] = arrays[j]
      <4>1. l.array \in 1..Len(arrays) /\ DOMAIN arrays = 1..Len(arrays)
        BY <1>3, <3>1, LenProperties
      <4>2. arrays' \in Seq(Seq(Entries))
        BY <1>3, <3>4, <3>5, <4>1, ExceptSeq
      <4> QED BY <3>1, <3>5, <4>2
    <3>7. /\ current' = [map |-> current.map, env |-> current.env,
                         list |-> [array |-> l.array, len |-> n, cap |-> l.cap]]
      BY <1>3, <3>2 DEF Addresses, Slice
    <3>8. current' \in Addresses
      BY <1>3, <1>4, <3>7 DEF Addresses, Slice
    <3>9. \A i \in DOMAIN converted : converted[i].list.array # l.array
      BY <3>1 DEF LLBInv, ArrayOfItsOwn
    <3>10. \A i \in DOMAIN converted : converted[i].list.array # 0 =>
             converted[i].list.array \in DOMAIN arrays
      BY <1>3 DEF HeldIn
    <3>11. current'.list = [array |-> l.array, len |-> n, cap |-> l.cap]
           /\ current'.map = current.map /\ current'.env = current.env
      BY <3>7
    <3>12. current'.list.array = l.array /\ current'.list.len = n /\ current'.list.cap = l.cap
      BY <3>11
    <3>13. \A i \in DOMAIN converted : converted[i].list.array # 0 =>
             /\ converted[i].list.array \in DOMAIN arrays'
             /\ arrays'[converted[i].list.array] = arrays[converted[i].list.array]
      BY <3>6, <3>9, <3>10
    <3>14. n <= l.cap
      BY <1>4, <2>1
    <3> HIDE DEF l, n
    <3> QED BY <3>1, <3>4, <3>6, <3>8, <3>9, <3>11, <3>12, <3>13, <3>14
  <2>2. CASE ~(l.len < l.cap)
    <3> DEFINE g == Grown(l.cap)
               x == [k \in 1..g |-> IF k < n THEN arrays[l.array][k]
                                    ELSE IF k = n THEN v ELSE NoValue]
    <3>1. g \in Nat /\ n <= g /\ n \in Nat \ {0} /\ l.len = l.cap
      BY <1>4, <2>2 DEF Grown
    <3>2. arrays' = Append(arrays, x)
          /\ current' = [current EXCEPT !.list = [array |-> Len(arrays'), len |-> n, cap |-> g]]
      BY <1>2, <2>2
    <3>3. \A k \in 1..l.len : arrays[l.array][k] \in Entries
      <4> SUFFICES ASSUME NEW k \in 1..l.len PROVE arrays[l.array][k] \in Entries
        OBVIOUS
      <4>1. l.array \in DOMAIN arrays /\ DOMAIN arrays[l.array] = 1..l.cap
        BY <1>4, <3>1
      <4>2. arrays[l.array] \in Seq(Entries)
        BY <1>3, <4>1
      <4> QED BY <1>4, <4>1, <4>2
    <3>4. \A k \in 1..g : (IF k < n THEN arrays[l.array][k]
                           ELSE IF k = n THEN v ELSE NoValue) \in Entries
      BY <1>4, <1>6, <3>1, <3>3 DEF Entries
    <3>5. x \in Seq(Entries)
      BY <3>1, <3>4
    <3>6. DOMAIN x = 1..g /\ x[n] = v /\ \A k \in 1..l.len : x[k] = arrays[l.array][k]
      BY <1>4, <3>1
    <3> HIDE DEF x, g
    <3>7. /\ arrays' \in Seq(Seq(Entries)) /\ Len(arrays') = Len(arrays) + 1
          /\ Len(arrays') \in DOMAIN arrays' /\ Len(arrays) \in Nat
          /\ arrays'[Len(arrays')] = x /\ Len(arrays') \notin DOMAIN arrays
          /\ \A j \in DOMAIN arrays : j \in DOMAIN arrays' /\ arrays'[j] = arrays[j]
      BY <1>3, <3>2, <3>5
    <3>8. current' = [map |-> current.map, env |-> current.env,
                      list |-> [array |-> Len(arrays'), len |-> n, cap |-> g]]
      BY <1>3, <3>2 DEF Addresses
    <3>9. current' \in Addresses
      BY <1>3, <3>1, <3>7, <3>8 DEF Addresses, Slice
    <3>10. \A i \in DOMAIN converted : converted[i].list.array # 0 =>
             converted[i].list.array \in DOMAIN arrays
      BY <1>3 DEF HeldIn
    <3> QED BY <3>1, <3>6, <3>7, <3>8, <3>9, <3>10
  <2> QED BY <2>1, <2>2
<1>8. Elements(arrays', current'.list) = Append(Elements(arrays, l), v)
  <2> DEFINE t == current'.list
             e == Elements(arrays, l)
             w == Elements(arrays', t)
  <2>1. e \in Seq(Entries) /\ Len(e) = l.len
    BY <1>3, ElementsType
  <2>2. HeldIn(maps', arrays', current')
    BY <1>1, <1>3, <1>7 DEF HeldIn
  <2>3. w \in Seq(Entries) /\ Len(w) = n /\ t.len = n
    BY <1>7, <2>2, ElementsType
  <2>4. \A k \in 1..l.len : e[k] = arrays[l.array][k]
    BY DEF Elements
  <2>5. \A k \in 1..n : w[k] = arrays'[t.array][k]
    BY <2>3 DEF Elements
  <2>6. w[n] = v /\ \A k \in 1..l.len : w[k] = e[k]
    <3>1. n \in 1..n /\ \A k \in 1..l.len : k \in 1..n
      BY <1>4
    <3>2. arrays'[t.array][n] = v /\ \A k \in 1..l.len : arrays'[t.array][k] = arrays[l.array][k]
      BY <1>7
    <3> HIDE DEF e, w, n, l, t
    <3> QED BY <2>4, <2>5, <3>1, <3>2
  <2>7. /\ Append(e, v) \in Seq(Entries) /\ Len(Append(e, v)) = l.len + 1
        /\ Append(e, v)[l.len + 1] = v /\ \A k \in 1..l.len : Append(e, v)[k] = e[k]
    BY <1>6, <2>1, AppendProperties
  <2>8. \A k \in 1..Len(w) : k = n \/ k \in 1..l.len
    BY <1>4, <2>3
  <2>9. \A k \in 1..Len(w) : w[k] = Append(e, v)[k]
    BY <2>6, <2>7, <2>8
  <2> HIDE DEF e, w
  <2> QED BY <2>3, <2>7, <2>9, SeqEqual DEF e, w
<1> HIDE DEF l, n
<1>9. ConvertedHeld' /\ \A j \in DOMAIN converted' : Read(converted[j])' = meant'[j]
  BY <1>1, <1>7, ConvertedUntouched
<1>10. LLBTypeOK' /\ ArrayOfItsOwn'
  BY <1>1, <1>6, <1>7 DEF LLBInv, LLBTypeOK, ArrayOfItsOwn
<1>11. HeldIn(maps', arrays', current')
  BY <1>1, <1>3, <1>7 DEF HeldIn
<1>12. ReadIn(maps', arrays', current') = meaning'
  BY <1>1, <1>5, <1>6, <1>7, <1>8 DEF ReadIn
<1> QED BY <1>9, <1>10, <1>11, <1>12 DEF LLBInv, CurrentHeld, SharingIsInvisible, Read

LEMMA ConvertedShares == ASSUME LLBInv, StageConverted PROVE LLBInv'
<1>1. /\ current # NoStage /\ converted' = Append(converted, current)
      /\ meant' = Append(meant, meaning) /\ current' = NoStage
      /\ UNCHANGED <<maps, arrays, meaning>>
  BY DEF StageConverted
<1>2. /\ converted \in Seq(Addresses) /\ current \in Addresses
      /\ meant \in Seq(Meaning) /\ meaning \in Meaning /\ Len(meant) = Len(converted)
  BY DEF LLBInv, LLBTypeOK
<1>3. /\ converted' \in Seq(Addresses) /\ meant' \in Seq(Meaning) /\ Len(meant') = Len(converted')
      /\ \A i \in DOMAIN converted' : \/ i \in DOMAIN converted /\ converted'[i] = converted[i]
                                         /\ meant'[i] = meant[i]
                                      \/ converted'[i] = current /\ meant'[i] = meaning
  BY <1>1, <1>2
<1>4. HeldIn(maps, arrays, current) /\ ReadIn(maps, arrays, current) = meaning
  BY <1>1 DEF LLBInv, CurrentHeld, SharingIsInvisible, Read
<1>5. \A i \in DOMAIN converted : /\ HeldIn(maps, arrays, converted[i])
                                  /\ ReadIn(maps, arrays, converted[i]) = meant[i]
  BY DEF LLBInv, ConvertedHeld, SharingIsInvisible, Read
<1>6. \A i \in DOMAIN converted' : /\ HeldIn(maps', arrays', converted'[i])
                                   /\ ReadIn(maps', arrays', converted'[i]) = meant'[i]
  BY <1>1, <1>3, <1>4, <1>5
<1>7. NoStage \in Addresses /\ NoStage.list.array = 0
  BY DEF NoStage, NoList, Addresses, Slice
<1>8. LLBTypeOK' /\ ArrayOfItsOwn'
  BY <1>1, <1>3, <1>7 DEF LLBInv, LLBTypeOK, ArrayOfItsOwn
<1> QED BY <1>1, <1>6, <1>8 DEF LLBInv, ConvertedHeld, CurrentHeld, SharingIsInvisible, Read

(* For any values and any number of stages, instructions and bytes of       *)
(* memory: what a state of the converter holds is what its instructions and *)
(* those it starts from say, whatever maps and arrays it shares (cloneState, *)
(* llb_converter.go).  BuildPipeline may take states for values.            *)
THEOREM StatesAreValues == LLBSpec => []SharingIsInvisible
<1>1. LLBInit => LLBInv
  <2> SUFFICES ASSUME LLBInit PROVE LLBInv
    OBVIOUS
  <2>1. NoStage \in Addresses /\ NoStage.list.array = 0
    BY DEF NoStage, NoList, Addresses, Slice
  <2>2. meaning \in Meaning
    BY DEF LLBInit, Fresh, Meaning, Settings
  <2>3. DOMAIN converted = {} /\ current = NoStage
    BY DEF LLBInit
  <2>4. LLBTypeOK
    BY <2>1, <2>2 DEF LLBInit, LLBTypeOK
  <2> QED BY <2>1, <2>3, <2>4
          DEF LLBInv, ConvertedHeld, CurrentHeld, ArrayOfItsOwn, SharingIsInvisible
<1>2. LLBInv /\ [LLBNext]_llbVars => LLBInv'
  <2>1. ASSUME LLBInv, UNCHANGED llbVars PROVE LLBInv'
    BY <2>1 DEF LLBInv, LLBTypeOK, ConvertedHeld, CurrentHeld, ArrayOfItsOwn,
                SharingIsInvisible, Read, llbVars
  <2> QED BY <2>1, FromImageShares, FromStageShares, NewMapShares, AppendShares, ConvertedShares
          DEF LLBNext
<1>3. LLBInv => SharingIsInvisible
  BY DEF LLBInv
<1> QED BY <1>1, <1>2, <1>3, PTL DEF LLBSpec

===============================================================================
