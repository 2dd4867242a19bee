--------------------------- MODULE DockerfileParser ---------------------------
(***************************************************************************)
(* From the text of a Dockerfile to its syntax tree: Lexer (lexer.go) and  *)
(* ParserImpl.parseAST with the instruction parsers under it (parser.go).  *)
(*                                                                         *)
(* The text is a sequence of pieces, each with a blank before it unless it *)
(* begins a line:                                                          *)
(*   a keyword    of an instruction; one stands for all of its grammar     *)
(*   "w" "kv"     words without and with an equals sign; "AS" is the word  *)
(*   "[]" "str"   a JSON array and a quoted string, each in one piece      *)
(*   "known"      a flag the instructions with flags know                  *)
(*   "flag"       a flag no instruction knows                              *)
(*   "ESC"        the escape character, alone                              *)
(*   "wESC"       a word that ends in the escape character                 *)
(*   "#"          the character that begins a comment                      *)
(*   "NL"         the end of a line                                        *)
(* What the parser does with values (variables, image references, mounts)  *)
(* is left out: Dockerfile and BuildPipeline have what matters of it.      *)
(***************************************************************************)
EXTENDS Naturals, FiniteSets, SequencesExt

CONSTANT
    Texts       \* a bound: the kinds of files, each with the pieces its files
                \* are made of, how they begin and how many pieces follow

Piece == {"FROM", "RUN", "CMD", "ENV", "VOLUME", "COPY", "WORKDIR", "ONBUILD", "HEALTHCHECK",
          "w", "kv", "AS", "[]", "str", "known", "flag", "ESC", "wESC", "#", "NL"}

ASSUME TextAssumption ==
    Texts \subseteq [pieces : SUBSET Piece, prefix : Seq(Piece), max : Nat]

(* RUN; CMD, ENTRYPOINT and SHELL; ENV and LABEL; VOLUME and EXPOSE; COPY and ADD;
   WORKDIR, USER, ARG and STOPSIGNAL. *)
Keywords == {"FROM", "RUN", "CMD", "ENV", "VOLUME", "COPY", "WORKDIR", "ONBUILD", "HEALTHCHECK"}
Flagged  == {"FROM", "RUN", "COPY", "HEALTHCHECK"}

VARIABLES
    src,      \* Lexer.source
    pos,      \* Lexer.position
    tokens,   \* ParserImpl.tokens
    current,  \* ParserImpl.current, from 1
    pc,       \* the function, or the loop of it, the parser is in
    op,       \* the instruction being parsed
    words,    \* the words of it consumed so far
    args,     \* how many sources and destinations parseSourcesAndDest collected
    ast       \* the instructions parsed, FROM among them

vars == <<src, pos, tokens, current, pc, op, words, args, ast>>
parseVars == <<op, words, args, ast>>

Init ==
    /\ \E t \in Texts : \E s \in BoundedSeq(t.pieces, t.max) : src = t.prefix \o s
    /\ pos = 1 /\ tokens = << >> /\ current = 1
    /\ pc = "lex" /\ op = "none" /\ words = << >> /\ args = 0 /\ ast = << >>

-----------------------------------------------------------------------------
(* Mutant: a line is begun by a keyword whatever line is before it. *)
AnyLineStart(i) == i = 1 \/ (i > 1 /\ src[i - 1] = "NL")

(***************************************************************************)
(* The lexer.  isLineStart: nothing but blanks since the line began, and   *)
(* the last line that is not empty does not end in the escape character,   *)
(* unless that is the first character of all.                              *)
(***************************************************************************)
LineStart(i) ==
    \/ i = 1
    \/ /\ i > 1 /\ src[i - 1] = "NL"
       /\ \A j \in 1..(i - 1) :
              (\A k \in (j + 1)..(i - 1) : src[k] = "NL") =>
                  ~(src[j] = "wESC" \/ (src[j] = "ESC" /\ j > 1))

Token(type, i) == [type |-> type, value |-> src[i]]

BeforeNewline(i) == i < Len(src) /\ src[i + 1] = "NL"

(* A comment, directives included, extends to the end of its line. *)
CommentEnds(i, e) ==
    /\ \A k \in i..e : src[k] # "NL"
    /\ e = Len(src) \/ BeforeNewline(e)

NextToken ==
    /\ pc = "lex" /\ pos <= Len(src)
    /\ LET piece == src[pos]
           Lexed(type, last) == tokens' = Append(tokens, Token(type, pos)) /\ pos' = last + 1
       IN  \/ piece = "NL" /\ Lexed("Newline", pos)
           \/ piece = "#" /\ \E e \in pos..Len(src) : CommentEnds(pos, e) /\ Lexed("Comment", e)
           \/ piece = "str" /\ Lexed("String", pos)
           \/ piece \in {"known", "flag"} /\ Lexed("Flag", pos)
           \/ piece \in Keywords /\ LineStart(pos) /\ Lexed("Instruction", pos)
           \/ /\ piece = "ESC" /\ BeforeNewline(pos)
              /\ Lexed("LineContinuation", pos + 1)
           \/ /\ \/ piece \in {"w", "kv", "AS", "[]", "wESC"}
                 \/ piece \in Keywords /\ ~LineStart(pos)
                 \/ piece = "ESC" /\ ~BeforeNewline(pos)
              /\ Lexed("Argument", pos)
    /\ UNCHANGED <<src, current, pc, parseVars>>

LexEnd ==
    /\ pc = "lex" /\ pos > Len(src)
    /\ tokens' = Append(tokens, [type |-> "EOF", value |-> ""])
    /\ pc' = "top"
    /\ UNCHANGED <<src, pos, current, parseVars>>

-----------------------------------------------------------------------------
Peek == tokens[current]
IsWord == Peek.type \in {"Argument", "String"}
EndsInstruction == Peek.type \in {"EOF", "Newline", "Instruction"}

Skip    == current' = current + 1 /\ UNCHANGED words
Consume == current' = current + 1 /\ words' = Append(words, Peek.value)
Fail    == pc' = "failed" /\ UNCHANGED <<current, parseVars>>

(* The instruction, of the words ws, is complete. *)
Complete(ws) == ast' = Append(ast, ws) /\ words' = << >> /\ pc' = "top" /\ UNCHANGED <<op, args>>
CompleteHere == Complete(words) /\ UNCHANGED current
CompleteWith == Complete(Append(words, Peek.value)) /\ current' = current + 1

(* Where the parser of an instruction goes on after its flags. *)
Body(keyword) ==
    CASE keyword = "FROM"        -> "image"
      [] keyword \in {"RUN", "CMD"} -> "command"
      [] keyword = "ENV"         -> "pairs"
      [] keyword = "VOLUME"      -> "list"
      [] keyword = "COPY"        -> "files"
      [] keyword = "WORKDIR"     -> "single"
      [] keyword = "ONBUILD"     -> "sub"
      [] keyword = "HEALTHCHECK" -> "type"

(* Mutant: the arguments of the last COPY count for this one. *)
OpenOnArgs ==
    /\ Consume
    /\ op' = Peek.value
    /\ pc' = IF Peek.value \in Flagged THEN "flags" ELSE Body(Peek.value)
    /\ UNCHANGED <<args, ast>>

Open ==
    /\ Consume
    /\ op' = Peek.value /\ args' = 0
    /\ pc' = IF Peek.value \in Flagged THEN "flags" ELSE Body(Peek.value)
    /\ UNCHANGED ast

(***************************************************************************)
(* parseAST, one turn of its loop.                                         *)
(***************************************************************************)
Top ==
    /\ pc = "top"
    /\ \/ /\ Peek.type = "EOF"
          /\ pc' = IF ast = << >> THEN "failed" ELSE "done"
          /\ UNCHANGED <<current, parseVars>>
       \/ /\ Peek.type \in {"Comment", "Newline"}
          /\ Skip
          /\ UNCHANGED <<pc, op, args, ast>>
       \/ /\ Peek.type = "Instruction" /\ (Peek.value = "FROM" \/ ast # << >>)
          /\ Open
       \/ /\ Peek.type = "Instruction" /\ Peek.value # "FROM" /\ ast = << >>
          /\ Fail
       \/ /\ Peek.type \in {"Argument", "String", "Flag", "LineContinuation"}
          /\ Fail
    /\ UNCHANGED <<src, pos, tokens>>

(* parseOnbuildInstruction looks at the next token's value, whatever its type. *)
Sub ==
    /\ pc = "sub"
    /\ IF Peek.value \in Keywords THEN Open ELSE Fail
    /\ UNCHANGED <<src, pos, tokens>>

(***************************************************************************)
(* The loops over an instruction's flags.  RUN leaves a flag it does not   *)
(* know to the command.                                                    *)
(***************************************************************************)
Flags ==
    /\ pc = "flags"
    /\ \/ /\ Peek.type = "Flag" /\ Peek.value = "known"
          /\ Consume
          /\ UNCHANGED <<pc, op, args, ast>>
       \/ /\ Peek.type = "Flag" /\ Peek.value = "flag" /\ op # "RUN"
          /\ Fail
       \/ /\ Peek.type # "Flag" \/ (Peek.value = "flag" /\ op = "RUN")
          /\ pc' = Body(op)
          /\ UNCHANGED <<current, parseVars>>
    /\ UNCHANGED <<src, pos, tokens>>

(***************************************************************************)
(* parseFromInstruction, after the flags.                                  *)
(***************************************************************************)
From ==
    /\ \/ /\ pc = "image" /\ IsWord
          /\ Consume
          /\ pc' = "as"
          /\ UNCHANGED <<op, args, ast>>
       \/ /\ pc = "as" /\ Peek.type = "Argument" /\ Peek.value = "AS"
          /\ Consume
          /\ pc' = "name"
          /\ UNCHANGED <<op, args, ast>>
       \/ /\ pc = "as" /\ ~(Peek.type = "Argument" /\ Peek.value = "AS")
          /\ CompleteHere
       \/ pc = "name" /\ IsWord /\ CompleteWith
       \/ pc \in {"image", "name"} /\ ~IsWord /\ Fail
    /\ UNCHANGED <<src, pos, tokens>>

(* parseCommand: a JSON array is the whole command. *)
Command ==
    /\ pc = "command"
    /\ IF Peek.type = "Argument" /\ Peek.value = "[]"
       THEN CompleteWith
       ELSE pc' = "shell" /\ UNCHANGED <<current, parseVars>>
    /\ UNCHANGED <<src, pos, tokens>>

(***************************************************************************)
(* The loops of parseCommand, parseEnvInstruction and                      *)
(* parseVolumeInstruction, one turn.  The break in their default case      *)
(* leaves the switch, not the loop: on a token they do not expect they     *)
(* turn for ever (Spin).                                                   *)
(***************************************************************************)
Loops == {"shell", "pairs", "list"}

(* Mutant: a continuation is looked at and not skipped. *)
TurnInPlace ==
    /\ pc \in Loops
    /\ \/ EndsInstruction /\ CompleteHere
       \/ /\ Peek.type = "LineContinuation"
          /\ UNCHANGED <<current, pc, parseVars>>
       \/ /\ IsWord \/ (Peek.type = "Flag" /\ pc = "shell")
          /\ Consume
          /\ pc' = IF pc = "pairs" /\ Peek.value # "kv" THEN "value" ELSE pc
          /\ UNCHANGED <<op, args, ast>>
    /\ UNCHANGED <<src, pos, tokens>>

Turn ==
    /\ pc \in Loops
    /\ \/ EndsInstruction /\ CompleteHere
       \/ /\ Peek.type = "LineContinuation"
          /\ Skip
          /\ UNCHANGED <<pc, op, args, ast>>
       \/ /\ IsWord \/ (Peek.type = "Flag" /\ pc = "shell")
          /\ Consume
          /\ pc' = IF pc = "pairs" /\ Peek.value # "kv" THEN "value" ELSE pc
          /\ UNCHANGED <<op, args, ast>>
    /\ UNCHANGED <<src, pos, tokens>>

Spin ==
    /\ pc \in Loops
    /\ Peek.type = "Comment" \/ (Peek.type = "Flag" /\ pc # "shell")
    /\ UNCHANGED vars

Value ==
    /\ pc = "value"
    /\ IF IsWord
       THEN Consume /\ pc' = "pairs" /\ UNCHANGED <<op, args, ast>>
       ELSE Fail
    /\ UNCHANGED <<src, pos, tokens>>

(* Mutant: three words are wanted. *)
FilesOfThree ==
    /\ pc = "files"
    /\ \/ /\ IsWord
          /\ Consume
          /\ args' = args + 1
          /\ UNCHANGED <<pc, op, ast>>
       \/ ~IsWord /\ args > 2 /\ CompleteHere
       \/ ~IsWord /\ args <= 2 /\ Fail
    /\ UNCHANGED <<src, pos, tokens>>

(* parseSourcesAndDest, whose break leaves the loop. *)
Files ==
    /\ pc = "files"
    /\ \/ /\ IsWord
          /\ Consume
          /\ args' = args + 1
          /\ UNCHANGED <<pc, op, ast>>
       \/ ~IsWord /\ args >= 2 /\ CompleteHere
       \/ ~IsWord /\ args < 2 /\ Fail
    /\ UNCHANGED <<src, pos, tokens>>

(* WORKDIR, USER, ARG and STOPSIGNAL take one word. *)
Single ==
    /\ pc = "single"
    /\ IF IsWord THEN CompleteWith ELSE Fail
    /\ UNCHANGED <<src, pos, tokens>>

(* parseHealthcheckInstruction, after the flags. *)
Type ==
    /\ pc = "type"
    /\ \/ /\ Peek.type = "LineContinuation"
          /\ Skip
          /\ UNCHANGED <<pc, op, args, ast>>
       \/ /\ Peek.type = "Argument" /\ Peek.value = "CMD"
          /\ Consume
          /\ pc' = "command"
          /\ UNCHANGED <<op, args, ast>>
       \/ Peek.type = "Argument" /\ Peek.value # "CMD" /\ CompleteWith
       \/ Peek.type \notin {"LineContinuation", "Argument"} /\ Fail
    /\ UNCHANGED <<src, pos, tokens>>

Ended == pc \in {"done", "failed"}
Stop  == Ended /\ UNCHANGED vars

Next == \/ NextToken \/ LexEnd \/ Top \/ Sub \/ Flags \/ From \/ Command \/ Turn \/ Spin
        \/ Value \/ Files \/ Single \/ Type \/ Stop

(* The parser is sequential code: while it has a step to take it takes it. *)
Spec == Init /\ [][Next]_vars /\ WF_vars(Next)

-----------------------------------------------------------------------------
(***************************************************************************)
(* What a text means, from its lines: the reference the parser is checked  *)
(* against.                                                                *)
(***************************************************************************)
Commented(i) == \E h \in 1..i : src[h] = "#" /\ \A k \in h..i : src[k] # "NL"

(* The line ends in the escape character at i, so the next one continues it. *)
Continues(i) ==
    /\ src[i] \in {"ESC", "wESC"} /\ ~Commented(i)
    /\ BeforeNewline(i)

EndsLine(i) == src[i] = "NL" /\ ~(i > 1 /\ Continues(i - 1))
IsText(i)   == src[i] # "NL" /\ ~Commented(i) /\ ~(src[i] = "ESC" /\ Continues(i))
LineOf(i)   == Cardinality({j \in 1..(i - 1) : EndsLine(j)})
Written     == {i \in DOMAIN src : IsText(i)}

(* The lines with any text, numbered, and the words of a line that          *)
(* continuations have joined.                                               *)
Row(i)    == Cardinality({LineOf(j) : j \in {h \in 1..i : IsText(h)}})
Column(i) == Cardinality({j \in 1..i : IsText(j) /\ LineOf(j) = LineOf(i)})

Lines ==
    LET row    == [i \in Written |-> Row(i)]
        column == [i \in Written |-> Column(i)]
    IN  [n \in {row[i] : i \in Written} |->
            [k \in {column[i] : i \in {j \in Written : row[j] = n}} |->
                src[CHOOSE i \in Written : row[i] = n /\ column[i] = k]]]

(* The line of i begins with one of the keywords. *)
Opens(i, keywords) ==
    \E j \in 1..i : /\ IsText(j) /\ LineOf(j) = LineOf(i) /\ Column(j) = 1
                    /\ src[j] \in keywords

(* The grammar of an instruction. *)
IsFlag(word) == word \in {"known", "flag"}
LegalCommand(ws) == ws # << >> /\ ws[1] = "[]" => Len(ws) = 1

(* There are words at which the pairs begin, the next one after a word with *)
(* an equals sign or after a name and its value.                            *)
LegalPairs(ws) ==
    \E starts \in SUBSET (1..(Len(ws) + 1)) :
        /\ 1 \in starts
        /\ \A k \in starts : \/ k = Len(ws) + 1
                             \/ ws[k] = "kv" /\ k + 1 \in starts
                             \/ ws[k] # "kv" /\ k + 2 \in starts

LegalAfter(keyword, ws) ==
    /\ keyword \notin {"RUN", "CMD", "HEALTHCHECK"} => \A k \in DOMAIN ws : ~IsFlag(ws[k])
    /\ CASE keyword = "FROM" -> Len(ws) = 1 \/ (Len(ws) = 3 /\ ws[2] = "AS")
         [] keyword \in {"RUN", "CMD"} -> LegalCommand(ws)
         [] keyword = "ENV" -> LegalPairs(ws)
         [] keyword = "VOLUME" -> TRUE
         [] keyword = "COPY" -> Len(ws) >= 2
         [] keyword = "WORKDIR" -> Len(ws) = 1
         [] keyword = "HEALTHCHECK" ->
                /\ ws # << >> /\ ~IsFlag(ws[1]) /\ ws[1] # "str"
                /\ IF ws[1] = "CMD" THEN LegalCommand(Tail(ws)) ELSE Len(ws) = 1
         [] OTHER -> FALSE

(* After any ONBUILD comes the keyword, at n, then its flags up to f. *)
Legal(line) ==
    \E n \in DOMAIN line : \E f \in (n + 1)..(Len(line) + 1) :
        /\ \A k \in 1..(n - 1) : line[k] = "ONBUILD"
        /\ line[n] \in Keywords \ {"ONBUILD"}
        /\ \A k \in (n + 1)..(f - 1) : line[k] = "known"
        /\ IF line[n] \in Flagged THEN f > Len(line) \/ line[f] # "known" ELSE f = n + 1
        /\ LegalAfter(line[n], SubSeq(line, f, Len(line)))

LegalFile ==
    /\ Lines # << >> /\ Lines[1][1] = "FROM"
    /\ \A n \in DOMAIN Lines : Legal(Lines[n])

(* Comments have lines of their own, and flags are where flags can be. *)
LoopsEnd ==
    \A i \in DOMAIN src :
        /\ src[i] = "#" => i = 1 \/ EndsLine(i - 1) \/ Commented(i - 1)
        /\ IsFlag(src[i]) /\ IsText(i) => Opens(i, Flagged \cup {"CMD"})

(* Continuations are within a RUN, CMD or VOLUME, and text follows at once. *)
ContinuationsInLoops ==
    \A i \in DOMAIN src :
        src[i] \in {"ESC", "wESC"} =>
            /\ src[i] = "ESC" /\ Continues(i)
            /\ i + 2 <= Len(src) /\ IsText(i + 2)
            /\ Opens(i, {"RUN", "CMD", "VOLUME"})

-----------------------------------------------------------------------------
(***************************************************************************)
(* Properties                                                              *)
(***************************************************************************)
TokenTypes == {"EOF", "Newline", "Comment", "Instruction", "Argument", "Flag", "String",
               "LineContinuation"}
TypeOK ==
    /\ src \in Seq(Piece)
    /\ pos \in 1..(Len(src) + 1)
    /\ Len(tokens) <= Len(src) + 1
    /\ \A k \in DOMAIN tokens : tokens[k].type \in TokenTypes
    /\ current \in 1..(Len(tokens) + 1)
    /\ pc \in Loops \cup {"lex", "top", "sub", "flags", "image", "as", "name", "command",
                          "value", "files", "single", "type", "done", "failed"}
    /\ op \in Keywords \cup {"none"}
    /\ args \in 0..Len(src)
    /\ pc = "files" => args < Len(words)
    /\ \A n \in DOMAIN ast : ast[n] # << >> /\ ast[n][1] \in Keywords

(***************************************************************************)
(* The instructions of a file that is parsed are its lines: no word is     *)
(* lost, repeated, moved to another instruction or taken for one, whatever *)
(* comments and continuations are between.                                 *)
(***************************************************************************)
ParsedIsWritten == pc = "done" => ast = Lines

(***************************************************************************)
(* A file of legal instructions is not rejected, with lines continued in   *)
(* the instructions whose loops skip continuations.                        *)
(***************************************************************************)
LegalIsParsed == pc = "failed" /\ ContinuationsInLoops => ~LegalFile

(***************************************************************************)
(* Parsing ends for every file, legal or not, with no comment after the    *)
(* beginning of an instruction and no flag in one that takes none.         *)
(***************************************************************************)
ParseEnds == LoopsEnd => <>Ended
===============================================================================
