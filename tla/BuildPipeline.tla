----------------------------- MODULE BuildPipeline -----------------------------
(***************************************************************************)
(* From the text of a Dockerfile to solved images: the parser              *)
(* (parser.go), line by line; the checks of the command line and of        *)
(* builder.Build; and for each platform a fresh LLB converter              *)
(* (llb_converter.go), instruction by instruction, and one Solve.          *)
(*                                                                         *)
(* All of it runs on one goroutine.  What makes it hard is the state that  *)
(* outlives a step: the parser's buildArgs, the request's BuildArgs map    *)
(* that every converter shares and writes, and the stage states a later    *)
(* stage starts from.                                                      *)
(***************************************************************************)
EXTENDS Dockerfile

CONSTANTS
    Platforms,
    Supported,      \* the platforms isSupportedPlatform knows
    StagePlatforms, \* what FROM --platform may say in the Dockerfiles of a run
    FromWords, AsNames, CopyWords, Defaults, Operands, \* what the lines of a run may say
    Ops,            \* which of RUN, CMD, ENV and VOLUME, each with its like, they are
    Within(_, _, _), \* a bound: the stages, lines and request TLC looks at together
    Requests        \* the build requests of a run

NoPlatform == NoWord

Request == [args      : [ArgNames -> Names \cup {NoWord}],
            target    : Names \cup {NoWord},
            platforms : Seq(Platforms),
            cacheFrom : BOOLEAN, cacheTo : BOOLEAN,
            validated : BOOLEAN]  \* the caller runs ParserImpl.Validate, as the CLI does

ASSUME PipelineAssumption ==
    /\ Supported \subseteq Platforms
    /\ StagePlatforms \subseteq Platforms
    /\ NoPlatform \notin Platforms
    /\ FromWords \subseteq Words /\ AsNames \subseteq Names
    /\ CopyWords \subseteq Names \cup {NoWord}
    /\ Defaults \subseteq Words \cup {NoWord}
    /\ Operands \subseteq Words /\ Ops \subseteq {"run", "cmd", "set", "list"}
    /\ Requests \subseteq Request

VARIABLES
    phase,       \* where the build is
    request,     \* the BuildRequest, but for the map below
    lines,       \* lines read
    stages,      \* AST.Stages
    parserArgs,  \* ParserImpl.buildArgs
    args,        \* req.BuildArgs, one map for the whole build
    platform,    \* index of the platform being built
    target,      \* targetIndex of the conversion
    pending,     \* stages findStageDependencies has been called on but not entered
    required,    \* stages it has entered: its visited and required maps
    states,      \* stageStates: the stages converted so far
    stage, next, \* the stage being converted and its next instruction
    state,       \* the LLBState being built
    images,      \* history: what was solved, in order
    failures,    \* the errors: those collected so far, then those returned
    outcome      \* what the build returned

parserVars  == <<lines, stages, parserArgs>>
convertVars == <<target, pending, required, states, stage, next, state>>
resultVars  == <<images, failures, outcome>>
vars == <<phase, request, args, platform, parserVars, convertVars, resultVars>>

Phases == {"parse", "validate", "context", "import", "platform", "require", "from",
           "body", "export", "done"}

LLBState ==
    [type     : {"image", "exec", "file"},
     src      : Words \cup {NoWord},    \* the image, the command, the image copied from
     stage    : Nat,                    \* the stage copied from, 0 if none
     platform : Platforms \cup {NoPlatform},
     value    : Words \cup {NoWord},    \* a value of the image configuration
     command  : Words \cup {NoWord},    \* the command in it
     list     : Seq(Words)]             \* a list of it

NoState == [type |-> "image", src |-> NoWord, stage |-> 0,
            platform |-> NoPlatform, value |-> NoWord, command |-> NoWord, list |-> << >>]

Image == [platform : Platforms \cup {NoPlatform}, state : LLBState, args : ArgMaps]

Causes == {"ARG before FROM", "instruction before FROM", "no FROM", "validate",
           "context", "import", "target", "reference", "solve", "export"}

ElementsOf(seq) == {seq[k] : k \in DOMAIN seq}

(* The platform of the current conversion, ConvertOptions.Platform. *)
Platform == IF platform \in DOMAIN request.platforms
            THEN request.platforms[platform] ELSE NoPlatform

MultiPlatform == Len(request.platforms) > 1

NoArgs == [a \in ArgNames |-> NoWord]

Init ==
    /\ phase = "parse"
    /\ request \in Requests
    /\ args = request.args
    /\ lines = 0 /\ stages = << >> /\ parserArgs = NoArgs
    /\ platform = 0
    /\ target = 0 /\ pending = {} /\ required = {} /\ states = << >>
    /\ stage = 0 /\ next = 0 /\ state = NoState
    /\ images = << >> /\ failures = {} /\ outcome = "none"

-----------------------------------------------------------------------------
(***************************************************************************)
(* Parsing.  The parser expands what it reads with the defaults it has     *)
(* seen, whatever the request says, and never forgets one.                 *)
(***************************************************************************)
ReadLine ==
    /\ phase = "parse"
    /\ lines' = lines + 1
    /\ Within(stages', lines', request)
    /\ UNCHANGED <<phase, request, args, platform, convertVars, resultVars>>

(* parseImageReference *)
Reference(word) ==
    [ref |-> IF HasStage(stages, word) THEN "stage" ELSE "image", word |-> word]

ParseFrom ==
    \E word \in FromWords, as \in AsNames \cup {NoWord},
       p \in StagePlatforms \cup {NoPlatform} :
        /\ stages' = Append(stages, [name     |-> as,
                                     from     |-> Reference(Expand(word, parserArgs)),
                                     platform |-> p,
                                     body     |-> << >>])
        /\ ReadLine
        /\ UNCHANGED parserArgs

AddInstruction(instr) ==
    /\ stages # << >>
    /\ stages' = [stages EXCEPT ![Len(stages)].body = Append(@, instr)]
    /\ ReadLine

ParseArg ==
    \E name \in ArgNames, default \in Defaults :
        LET value == IF default = NoWord THEN NoWord ELSE Expand(default, parserArgs)
        IN  /\ AddInstruction([op |-> "arg", name |-> name, word |-> value,
                               text |-> default])
            /\ parserArgs' = IF value = NoWord THEN parserArgs
                             ELSE [parserArgs EXCEPT ![name] = value]

(* Words of commands too are expanded as they are read (parseCommand). *)
Operation(op, word) ==
    [op |-> op, name |-> NoWord, word |-> Expand(word, parserArgs), text |-> word]

ParseOperand ==
    \E op \in Ops, word \in Operands :
        /\ AddInstruction(Operation(op, word))
        /\ UNCHANGED parserArgs

(* COPY, and ADD, which has no --from.  parseCopyFlag does not expand. *)
ParseCopy ==
    \E word \in CopyWords :
        /\ AddInstruction([op |-> "copy", name |-> NoWord, word |-> word, text |-> word])
        /\ UNCHANGED parserArgs

-----------------------------------------------------------------------------
(***************************************************************************)
(* builder.Build up to the first conversion.                               *)
(***************************************************************************)
Return(result, causes) ==
    /\ phase' = "done"
    /\ outcome' = result
    /\ failures' = causes
    /\ UNCHANGED images

Fail(p, cause) == Return("failed", {<<p, cause>>})

(* An instruction before the first FROM, ARG too, is an error. *)
EarlyInstruction ==
    /\ phase = "parse" /\ stages = << >>
    /\ \E cause \in {"ARG before FROM", "instruction before FROM"} : Fail(platform, cause)
    /\ UNCHANGED <<request, args, platform, parserVars, convertVars>>

EndOfFile ==
    /\ phase = "parse"
    /\ IF stages = << >> THEN Fail(platform, "no FROM")
       ELSE phase' = "validate" /\ UNCHANGED resultVars
    /\ UNCHANGED <<request, args, platform, parserVars, convertVars>>

RequestAccepted ==
    /\ request.validated => ParserAccepts(stages)
    /\ ElementsOf(request.platforms) \subseteq Supported
    /\ BuilderAccepts(stages, request.target)

ValidateRequest ==
    /\ phase = "validate"
    /\ IF RequestAccepted THEN phase' = "context" /\ UNCHANGED resultVars
       ELSE Fail(platform, "validate")
    /\ UNCHANGED <<request, args, platform, parserVars, convertVars>>

(* os.Stat of the context directory may fail. *)
PrepareContext ==
    /\ phase = "context"
    /\ \/ Fail(platform, "context")
       \/ /\ phase' = IF request.cacheFrom THEN "import" ELSE "platform"
          /\ UNCHANGED resultVars
    /\ UNCHANGED <<request, args, platform, parserVars, convertVars>>

ImportCache ==
    /\ phase = "import"
    /\ \/ Fail(platform, "import")
       \/ phase' = "platform" /\ UNCHANGED resultVars
    /\ UNCHANGED <<request, args, platform, parserVars, convertVars>>

-----------------------------------------------------------------------------
(* Mutant: the error of a platform is dropped. *)
PlatformFailsQuietly(p, cause) ==
    IF MultiPlatform
    THEN phase' = "platform" /\ UNCHANGED resultVars
    ELSE Fail(p, cause)

(***************************************************************************)
(* One platform: generateLLBDefinition, then Solve.  buildMultiPlatform    *)
(* collects a platform's error and goes on; with at most one platform the  *)
(* error is the result of the build.                                       *)
(***************************************************************************)
PlatformFails(p, cause) ==
    IF MultiPlatform
    THEN /\ phase' = "platform"
         /\ failures' = failures \cup {<<p, cause>>}
         /\ UNCHANGED <<images, outcome>>
    ELSE Fail(p, cause)

(* A build for no platform in particular is one build all the same. *)
LastPlatform == IF MultiPlatform THEN Len(request.platforms) ELSE 1

TargetFound == request.target = NoWord \/ HasStage(stages, request.target)

(* Mutant: the number of stages taken for the index of the last one. *)
OnePastTheLast ==
    IF request.target = NoWord THEN Len(stages) + 1
    ELSE FirstStageNamed(stages, request.target)

TargetIndex ==
    IF request.target = NoWord THEN Len(stages)
    ELSE FirstStageNamed(stages, request.target)

StartPlatform ==
    /\ phase = "platform" /\ platform < LastPlatform
    /\ platform' = platform + 1
    /\ required' = {} /\ states' = << >>
    /\ IF TargetFound
       THEN /\ phase' = "require"
            /\ target' = TargetIndex
            /\ pending' = {target'}
            /\ UNCHANGED resultVars
       ELSE PlatformFails(platform + 1, "target") /\ UNCHANGED <<target, pending>>
    /\ UNCHANGED <<request, args, parserVars, stage, next, state>>

(* The errors collected are returned if no platform was built, and dropped if one was. *)
PlatformsTried ==
    /\ phase = "platform" /\ platform = LastPlatform
    /\ IF images = << >> THEN Return("failed", failures)
       ELSE phase' = "export" /\ UNCHANGED resultVars
    /\ UNCHANGED <<request, args, platform, parserVars, convertVars>>

(* Mutant: every earlier stage is taken to be needed. *)
EnterStageAndEarlier ==
    /\ phase = "require"
    /\ \E i \in pending :
           /\ pending' = (pending \ {i}) \cup (IF i \in required THEN {} ELSE 1..(i - 1))
           /\ required' = required \cup {i}
    /\ UNCHANGED <<phase, request, args, platform, parserVars, target, states,
                   stage, next, state, resultVars>>

(* Mutant: a stage is entered again each time it is named. *)
EnterStageAgain ==
    /\ phase = "require"
    /\ \E i \in pending :
           /\ pending' = (pending \ {i}) \cup Dependencies(stages, i)
           /\ required' = required \cup {i}
    /\ UNCHANGED <<phase, request, args, platform, parserVars, target, states,
                   stage, next, state, resultVars>>

(***************************************************************************)
(* findStageDependencies: one recursive call is entered; it returns at     *)
(* once from a stage visited before.                                       *)
(***************************************************************************)
EnterStage ==
    /\ phase = "require"
    /\ \E i \in pending :
           /\ pending' = (pending \ {i}) \cup
                            (IF i \in required THEN {} ELSE Dependencies(stages, i))
           /\ required' = required \cup {i}
    /\ UNCHANGED <<phase, request, args, platform, parserVars, target, states,
                   stage, next, state, resultVars>>

StagesFound ==
    /\ phase = "require" /\ pending = {}
    /\ phase' = "from"
    /\ UNCHANGED <<request, args, platform, parserVars, convertVars, resultVars>>

-----------------------------------------------------------------------------
(***************************************************************************)
(* Conversion of the required stages in ascending order.                   *)
(***************************************************************************)
Unconverted == required \ DOMAIN states

NextStage == CHOOSE i \in Unconverted : \A j \in Unconverted : i <= j

(* A FROM --platform wins over the platform of the request. *)
OnPlatform(llb, s) ==
    [llb EXCEPT !.platform = IF s.platform # NoPlatform THEN s.platform
                             ELSE IF Platform # NoPlatform THEN Platform ELSE @]

StageAvailable(word) ==
    HasStage(stages, word) /\ StageNamed(stages, word) \in DOMAIN states

(* The state a stage starts from: a clone of the named stage's, or an image. *)
BaseState(from) ==
    IF from.ref = "stage" THEN states[StageNamed(stages, from.word)]
    ELSE [NoState EXCEPT !.src = from.word]

ConvertFrom ==
    /\ phase = "from" /\ Unconverted # {}
    /\ LET s == stages[NextStage]
       IN  IF s.from.ref = "stage" /\ ~StageAvailable(s.from.word)
           THEN PlatformFails(platform, "reference") /\ UNCHANGED <<stage, next, state>>
           ELSE /\ phase' = "body"
                /\ stage' = NextStage /\ next' = 1
                /\ state' = OnPlatform(BaseState(s.from), s)
                /\ UNCHANGED resultVars
    /\ UNCHANGED <<request, args, platform, parserVars, target, pending, required, states>>

Instr == stages[stage].body[next]

Converting(op) ==
    /\ phase = "body" /\ next <= Len(stages[stage].body)
    /\ Instr.op = op
    /\ UNCHANGED <<request, platform, parserVars, target, pending, required, states, stage>>

Converted ==
    /\ next' = next + 1
    /\ UNCHANGED <<phase, resultVars>>

(* Mutant: the configuration is not copied to the new state. *)
ReplaceAll(type, src, from) ==
    state' = [NoState EXCEPT !.type = type, !.src = src, !.stage = from]

(* RUN, COPY and ADD replace the operation and keep the configuration. *)
Replace(type, src, from) ==
    state' = [state EXCEPT !.type = type, !.src = src, !.stage = from,
                           !.platform = NoPlatform]

ConvertRun ==
    /\ Converting("run")
    /\ Replace("exec", Instr.word, 0)
    /\ Converted
    /\ UNCHANGED args

ConvertCopy ==
    /\ Converting("copy")
    /\ IF Instr.word = NoWord \/ ~HasStage(stages, Instr.word)
       THEN Replace("file", Instr.word, 0) /\ Converted
       ELSE IF StageAvailable(Instr.word)
       THEN Replace("file", NoWord, StageNamed(stages, Instr.word)) /\ Converted
       ELSE PlatformFails(platform, "reference") /\ UNCHANGED <<next, state>>
    /\ UNCHANGED args

ConvertSet ==
    /\ Converting("set")
    /\ state' = [state EXCEPT !.value = Expand(Instr.word, args)]
    /\ Converted
    /\ UNCHANGED args

(* Mutant: the command of the stage it started from is kept. *)
ConvertFirstCommand ==
    /\ Converting("cmd")
    /\ state' = IF state.command = NoWord THEN [state EXCEPT !.command = Instr.word] ELSE state
    /\ Converted
    /\ UNCHANGED args

(* CMD, ENTRYPOINT and HEALTHCHECK do not look at the build arguments. *)
ConvertCommand ==
    /\ Converting("cmd")
    /\ state' = [state EXCEPT !.command = Instr.word]
    /\ Converted
    /\ UNCHANGED args

ConvertList ==
    /\ Converting("list")
    /\ state' = [state EXCEPT !.list = Append(@, Expand(Instr.word, args))]
    /\ Converted
    /\ UNCHANGED args

(* Mutant: the default overwrites what the map holds. *)
ConvertArgAlways ==
    /\ Converting("arg")
    /\ args' = IF Instr.word # NoWord
               THEN [args EXCEPT ![Instr.name] = Instr.word] ELSE args
    /\ Converted
    /\ UNCHANGED state

(* c.buildArgs is the request's own map. *)
ConvertArg ==
    /\ Converting("arg")
    /\ args' = IF args[Instr.name] = NoWord
               THEN [args EXCEPT ![Instr.name] = Instr.word] ELSE args
    /\ Converted
    /\ UNCHANGED state

FinishStage ==
    /\ phase = "body" /\ next > Len(stages[stage].body)
    /\ states' = [i \in DOMAIN states \cup {stage} |->
                     IF i = stage THEN state ELSE states[i]]
    /\ phase' = "from"
    /\ UNCHANGED <<request, args, platform, parserVars, target, pending, required,
                   stage, next, state, resultVars>>

-----------------------------------------------------------------------------
(* The controller solves the definition or returns an error. *)
Solve ==
    /\ phase = "from" /\ Unconverted = {}
    /\ \/ /\ images' = Append(images, [platform |-> Platform,
                                        state    |-> states[target],
                                        args     |-> args])
          /\ phase' = IF MultiPlatform THEN "platform" ELSE "export"
          /\ UNCHANGED <<failures, outcome>>
       \/ PlatformFails(platform, "solve")
    /\ UNCHANGED <<request, args, platform, parserVars, convertVars>>

ExportCache ==
    /\ phase = "export"
    /\ \/ Return("built", {})
       \/ request.cacheTo /\ Fail(platform, "export")
    /\ UNCHANGED <<request, args, platform, parserVars, convertVars>>

Terminated == phase = "done" /\ UNCHANGED vars

Parse   == ParseFrom \/ ParseArg \/ ParseOperand \/ ParseCopy
           \/ EarlyInstruction \/ EndOfFile
Prepare == ValidateRequest \/ PrepareContext \/ ImportCache
Convert == \/ EnterStage \/ StagesFound
           \/ ConvertFrom \/ ConvertRun \/ ConvertCopy \/ ConvertSet \/ ConvertCommand
           \/ ConvertList \/ ConvertArg \/ FinishStage
Finish  == StartPlatform \/ PlatformsTried \/ Solve \/ ExportCache
Next    == Parse \/ Prepare \/ Convert \/ Finish \/ Terminated

(***************************************************************************)
(* Build is a sequential function: once its file is read it runs on, so    *)
(* the steps after parsing are weakly fair together.                       *)
(***************************************************************************)
Spec     == Init /\ [][Next]_vars
FairSpec == Spec /\ WF_vars(EndOfFile) /\ WF_vars(Prepare \/ Convert \/ Finish)

-----------------------------------------------------------------------------
(***************************************************************************)
(* Properties                                                              *)
(***************************************************************************)
Stage == [name : Names \cup {NoWord}, from : FromInstruction,
          platform : Platforms \cup {NoPlatform}, body : Seq(Instruction)]

TypeOK ==
    /\ phase \in Phases
    /\ request \in Request
    /\ args \in ArgMaps
    /\ lines \in Nat
    /\ stages \in Seq(Stage)
    /\ parserArgs \in ArgMaps
    /\ platform \in 0..LastPlatform
    /\ target \in 0..Len(stages)
    /\ pending \subseteq DOMAIN stages
    /\ required \subseteq DOMAIN stages
    /\ DOMAIN states \subseteq required
    /\ \A i \in DOMAIN states : states[i] \in LLBState
    /\ stage \in 0..Len(stages)
    /\ next \in Nat
    /\ state \in LLBState
    /\ images \in Seq(Image)
    /\ failures \subseteq (Nat \X Causes)
    /\ outcome \in {"none", "built", "failed"}

Closed(S) == \A i \in S : Dependencies(stages, i) \subseteq S

(***************************************************************************)
(* The stages converted for a target are the least set that holds the      *)
(* target and the dependencies of its members: none is missing, and none   *)
(* is built for nothing (findRequiredStages).                              *)
(***************************************************************************)
RequiredIsLeast ==
    phase \in {"from", "body"} =>
        /\ target \in required
        /\ Closed(required)
        /\ \A S \in SUBSET DOMAIN stages : target \in S /\ Closed(S) => required \subseteq S

(***************************************************************************)
(* What validateMultiStageBuild lets through converts: with two stages or  *)
(* more, ascending order always finds a referenced stage converted, and    *)
(* the target exists.  It does not look at a lone stage, whose errors the  *)
(* converter reports after the context and the cache were prepared.        *)
(***************************************************************************)
ReferencesResolve ==
    \A f \in failures : f[2] \in {"reference", "target"} => Len(stages) = 1

(***************************************************************************)
(* The validations agree: a Dockerfile that Validator.ValidateAST accepts  *)
(* is not refused by validateMultiStageBuild and converts, whatever the    *)
(* stages copy from and start from, for a target it has.  Unless a stage   *)
(* is named by a number: --from=0 is then the first stage to the validator *)
(* and the stage named 0 to the others.                                    *)
(***************************************************************************)
NoStageIsANumber == \A i \in DOMAIN stages : stages[i].name \notin Numerals

ValidatedFilesConvert ==
    ValidatorAccepts(stages) /\ NoStageIsANumber /\ TargetFound
            /\ ElementsOf(request.platforms) \subseteq Supported =>
        \A f \in failures : f[2] \notin {"validate", "reference"}

(***************************************************************************)
(* Convert takes the first stage of the target's name, references take the *)
(* last: behind ParserImpl.Validate they are the same stage.               *)
(***************************************************************************)
TargetIsUnambiguous ==
    request.validated /\ request.target # NoWord /\ phase \in {"require", "from", "body"} =>
        target = StageNamed(stages, request.target)

(***************************************************************************)
(* A name of a stage means the same stage to everyone who looks it up, and *)
(* what was accepted is there.                                             *)
(***************************************************************************)
ReferencesAgree == ReferencesResolve /\ TargetIsUnambiguous

(***************************************************************************)
(* A build argument given by the caller has the caller's value in every    *)
(* conversion, whatever ARG defaults the Dockerfile has (convertArg).      *)
(***************************************************************************)
UserArgsKept ==
    \A a \in ArgNames : request.args[a] # NoWord =>
        /\ args[a] = request.args[a]
        /\ \A k \in DOMAIN images : images[k].args[a] = request.args[a]

(***************************************************************************)
(* What a stage declares: the values its VOLUME and EXPOSE instructions    *)
(* append as written, after those of the stage it starts from; and its     *)
(* last command, or that of the stage it starts from.                      *)
(***************************************************************************)
Texts(body, op) ==
    LET texts[k \in 0..Len(body)] ==
            IF k = 0 THEN << >>
            ELSE IF body[k].op = op THEN Append(texts[k - 1], body[k].text)
            ELSE texts[k - 1]
    IN  texts

Scratch == [list |-> << >>, command |-> NoWord]

(* Declared on top of base by the first k instructions of a body. *)
DeclaredOn(base, body, k) ==
    LET commands == Texts(body, "cmd")[k]
    IN  [list    |-> base.list \o Texts(body, "list")[k],
         command |-> IF commands = << >> THEN base.command ELSE commands[Len(commands)]]

Declared ==
    LET declared[i \in DOMAIN stages] ==
            DeclaredOn(IF stages[i].from.ref = "stage"
                       THEN declared[StageNamed(stages, stages[i].from.word)] ELSE Scratch,
                       stages[i].body, Len(stages[i].body))
    IN  declared

(***************************************************************************)
(* The lists of a solved image hold what its stage and the stages it is    *)
(* based on declare, base first, nothing lost at a RUN or COPY and nothing *)
(* of any other stage (cloneState and the copies of Metadata); its command *)
(* is the nearest one declared.  For Dockerfiles where these name no build *)
(* argument.                                                               *)
(***************************************************************************)
DeclarationsAreLiteral ==
    \A i \in DOMAIN stages : \A k \in DOMAIN stages[i].body :
        stages[i].body[k].op \in {"list", "cmd"} => stages[i].body[k].text \in Names

ConfigurationIsInherited ==
    DeclarationsAreLiteral =>
        \A k \in DOMAIN images :
            /\ images[k].state.list = Declared[target].list
            /\ images[k].state.command = Declared[target].command

(***************************************************************************)
(* While platforms are tried each of those behind has an image or a reason *)
(* and none has both, the images in the order of the request.  At the end  *)
(* a build that fails gives a reason for every platform and has solved     *)
(* nothing, or it is the cache export that failed; one that succeeds has   *)
(* an image, and drops the reasons of the others: its caller finds out     *)
(* which are missing by the manifests alone (buildMultiPlatform).  For     *)
(* requests that name no platform twice.                                   *)
(***************************************************************************)
SolvedFor(p) == {k \in DOMAIN images : images[k].platform = request.platforms[p]}
FailedFor(p) == \E c \in Causes : <<p, c>> \in failures

InOrder ==
    \A p, q \in DOMAIN request.platforms :
        p < q => \A k \in SolvedFor(p), m \in SolvedFor(q) : k < m

EveryPlatformAccounted ==
    /\ MultiPlatform /\ phase \in {"platform", "export"} =>
           \A p \in 1..platform : SolvedFor(p) = {} <=> FailedFor(p)
    /\ MultiPlatform => InOrder
    /\ outcome = "built" => images # << >>
    /\ outcome = "failed" /\ images # << >> => failures = {<<platform, "export">>}
    /\ outcome = "failed" /\ images = << >> /\ MultiPlatform /\ platform # 0 =>
           \A p \in DOMAIN request.platforms : FailedFor(p)

(***************************************************************************)
(* What a build gives back: no platform is forgotten before it is decided  *)
(* whether the build failed, no error is one a validation should have      *)
(* found, and images are as declared.                                      *)
(***************************************************************************)
OutcomeIsRight == EveryPlatformAccounted /\ ValidatedFilesConvert /\ ConfigurationIsInherited

(***************************************************************************)
(* Every build ends: the search for dependencies visits a stage once, even *)
(* one that copies from itself, and no platform is tried twice.            *)
(***************************************************************************)
BuildEnds == <>(phase = "done")

(***************************************************************************)
(* A claim of the repository that the code does not keep.                  *)
(***************************************************************************)
LastSet(i) ==
    LET sets == {k \in DOMAIN stages[i].body : stages[i].body[k].op = "set"}
    IN  IF sets = {} THEN NoWord
        ELSE stages[i].body[CHOOSE k \in sets : \A m \in sets : m <= k].text

(***************************************************************************)
(* A value written as a build argument the caller gave is the caller's     *)
(* value: "Add to build args if not already set" (convertArgInstruction).  *)
(***************************************************************************)
CallersValueIsUsed ==
    \A k \in DOMAIN images :
        LastSet(target) \in ArgNames /\ request.args[LastSet(target)] # NoWord =>
            images[k].state.value = request.args[LastSet(target)]
=============================================================================
