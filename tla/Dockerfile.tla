------------------------------ MODULE Dockerfile ------------------------------
(***************************************************************************)
(* The syntax tree of a multi-stage Dockerfile (pkg/dockerfile) and the    *)
(* pure functions over it: name lookup, the stages a stage depends on, and *)
(* the three validations the repository has, ParserImpl.Validate,          *)
(* Validator.ValidateAST and builder.validateMultiStageBuild.              *)
(*                                                                         *)
(* A word is an element of Names, or an element x of ArgNames, which is    *)
(* the text "$x".  Stages are numbered from 1 here, from 0 in the code.    *)
(***************************************************************************)
EXTENDS Naturals, Sequences

CONSTANTS
    Names,      \* literal words: image names, stage names, values
    ArgNames,   \* names of build arguments
    NoWord,     \* an absent word: no AS, no --from, no default, no target
    Numerals,   \* the literal words that are numerals
    ValueOf     \* the stage number, from 1, a numeral stands for

ASSUME WordsAssumption ==
    /\ Names \cap ArgNames = {}
    /\ NoWord \notin Names \cup ArgNames
    /\ Numerals \subseteq Names
    /\ ValueOf \in [Numerals -> Nat]

Words == Names \cup ArgNames

(***************************************************************************)
(* A build argument map: NoWord for an argument the map does not hold.     *)
(***************************************************************************)
ArgMaps == [ArgNames -> Words \cup {NoWord}]

Expand(word, args) ==
    IF word \in ArgNames /\ args[word] # NoWord THEN args[word] ELSE word

(***************************************************************************)
(* Instructions.  "set" stands for the instructions that put one expanded  *)
(* value in the image configuration (ENV, WORKDIR, USER, LABEL,            *)
(* STOPSIGNAL), "list" for those that append one (VOLUME, EXPOSE), "run"   *)
(* for RUN, "cmd" for one of CMD, ENTRYPOINT and HEALTHCHECK, which have a *)
(* field each, "copy" for COPY and ADD (word is --from), "arg" for ARG     *)
(* (word is the default).  text is the word as written, before the parser  *)
(* expanded it: no code reads it, only properties do.                      *)
(***************************************************************************)
Instruction ==
    {i \in [op   : {"run", "cmd", "copy", "set", "list", "arg"},
             name : ArgNames \cup {NoWord},
             word : Words \cup {NoWord},
             text : Words \cup {NoWord}] :
        /\ i.op = "arg" => i.name \in ArgNames
        /\ i.op \in {"run", "cmd", "set", "list"} => i.word \in Words}

(***************************************************************************)
(* FromInstruction.Stage is set when base is a stage, Image otherwise.     *)
(***************************************************************************)
FromInstruction == [ref : {"stage", "image"}, word : Words]

-----------------------------------------------------------------------------
HasStage(stages, name) == \E i \in DOMAIN stages : stages[i].name = name

(* stageNames[name]: a later stage of the same name overwrites the entry. *)
StageNamed(stages, name) ==
    CHOOSE i \in DOMAIN stages :
        /\ stages[i].name = name
        /\ \A j \in DOMAIN stages : stages[j].name = name => j <= i

(* The target loop of Convert, which stops at the first stage of the name. *)
FirstStageNamed(stages, name) ==
    CHOOSE i \in DOMAIN stages :
        /\ stages[i].name = name
        /\ \A j \in DOMAIN stages : stages[j].name = name => i <= j

(* The words by which stage i names another stage, or may. *)
References(stage) ==
    {stage.body[k].word : k \in {j \in DOMAIN stage.body :
                                    stage.body[j].op = "copy"}}
        \cup (IF stage.from.ref = "stage" THEN {stage.from.word} ELSE {})

(* findStageDependencies: the stages one stage calls it on. *)
Dependencies(stages, i) ==
    {StageNamed(stages, w) :
        w \in {v \in References(stages[i]) : v # NoWord /\ HasStage(stages, v)}}

-----------------------------------------------------------------------------
(* Mutant: the names of earlier stages are not looked at. *)
NoNameCheck(stages) == stages # << >>

(***************************************************************************)
(* ParserImpl.Validate, which the command line runs after parsing.         *)
(***************************************************************************)
ParserAccepts(stages) ==
    /\ stages # << >>
    /\ \A i, j \in DOMAIN stages :
           i # j /\ stages[i].name # NoWord => stages[i].name # stages[j].name

(* Mutant: only FROM is checked against the order of the stages. *)
FromChecked(stages, target) ==
    Len(stages) > 1 =>
        /\ target # NoWord => HasStage(stages, target)
        /\ \A i \in DOMAIN stages :
               stages[i].from.ref = "stage" =>
                   /\ HasStage(stages, stages[i].from.word)
                   /\ StageNamed(stages, stages[i].from.word) < i

(* Mutant: the first stage, whose index is 0 in the code, taken for none. *)
FirstIsNone(stages, target) ==
    Len(stages) > 1 =>
        /\ target # NoWord => HasStage(stages, target)
        /\ \A i \in DOMAIN stages :
               /\ stages[i].from.ref = "stage" =>
                      HasStage(stages, stages[i].from.word)
               /\ \A d \in Dependencies(stages, i) : d < i /\ d > 1

(***************************************************************************)
(* builder.validateMultiStageBuild: a single stage is not looked at; a     *)
(* COPY --from whose word names no stage is an external image.             *)
(***************************************************************************)
BuilderAccepts(stages, target) ==
    Len(stages) > 1 =>
        /\ target # NoWord => HasStage(stages, target)
        /\ \A i \in DOMAIN stages :
               /\ stages[i].from.ref = "stage" =>
                      HasStage(stages, stages[i].from.word)
               /\ \A d \in Dependencies(stages, i) : d < i

(***************************************************************************)
(* Validator.ValidateAST, which no command runs: names are unique, FROM    *)
(* names an earlier stage, and COPY --from is a numeral below the stage's  *)
(* own number or the name of an earlier stage, never an external image.    *)
(* CMD, ENTRYPOINT and HEALTHCHECK appear once in a stage, each by itself. *)
(***************************************************************************)
ReferenceAccepted(stages, i, word) ==
    IF word \in Numerals
    THEN ValueOf[word] \in 1..(i - 1)
    ELSE \E j \in 1..(i - 1) : stages[j].name = word

AtMostOneCommand(stage) ==
    \A j, k \in DOMAIN stage.body :
        stage.body[j].op = "cmd" /\ stage.body[k].op = "cmd" => j = k

ValidatorAccepts(stages) ==
    /\ ParserAccepts(stages)
    /\ \A i \in DOMAIN stages :
           /\ AtMostOneCommand(stages[i])
           /\ stages[i].from.ref = "stage" =>
                  \E j \in 1..(i - 1) : stages[j].name = stages[i].from.word
           /\ \A k \in DOMAIN stages[i].body :
                  LET c == stages[i].body[k]
                  IN  c.op = "copy" /\ c.word # NoWord =>
                          ReferenceAccepted(stages, i, c.word)
=============================================================================
