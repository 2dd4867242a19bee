-------------------------- MODULE MCBuildContext --------------------------
(* Small instances of BuildContext, of ErrorClassifier and of LLBStates,    *)
(* which share no state: a behaviour is of one of them.                     *)
EXTENDS BuildContext, ErrorClassifier, LLBStates

CONSTANTS local, git, tar, upward, archive, file, stdin, a, b

Plain(f, body) == [name |-> f, type |-> "file", body |-> body]
Dir(f)      == [name |-> f, type |-> "dir", body |-> <<>>]
Link(f)     == [name |-> f, type |-> "other", body |-> <<>>]

\* One context of each type and a second archive; the download that is an
\* archive and the one that is a file use the same directory.
MCContexts == {local, git, tar, upward, archive, file, stdin}
MCKind == [c \in MCContexts |->
             CASE c = local -> "local" [] c = git -> "git" [] c \in {tar, upward} -> "tar"
               [] c = archive -> "archive" [] c = file -> "file" [] c = stdin -> "stdin"]
MCSource == [c \in MCContexts |->
               CASE c \in {local, git} -> <<>>
                 [] c = tar -> <<Plain("main.go", <<"t", "t">>), Dir("docs"),
                                 Plain("main.go", <<"u">>), Link("latest")>>
                 [] c = upward -> <<Link("../etc")>>
                 [] c = archive -> <<Plain("docs", <<"h">>), Plain("docs", <<"h", "k">>)>>
                 [] c = file -> <<Plain("Dockerfile", <<"d">>)>>
                 [] c = stdin -> <<Plain("Dockerfile", <<"i">>)>>]

\* The texts of context.go.
MCStages ==
  [temporary |-> {}, missing |-> {"build-context", "context-directory", "directory-does-not-exist"},
   exclude |-> {"dockerignore"}, tarDirectory |-> {"context-directory", "tar"},
   openTar |-> {"tar"}, download |-> {"download", "http"}, status |-> {"http"},
   saveDownload |-> {"http"}, createDockerfile |-> {"dockerfile"}, readStdin |-> {}]

\* What the operating system and the network say, with the words of the path.
MCCauses ==
  {{}, {"no-such-file", "tar"}, {"permission-denied"}, {"no-space-left"},
   {"no-space-left", "http"}, {"timeout", "connection"}}

MCRemarks == {{}, {"timeout"}, {"import-cache", "cache"}}

\* What ENV, LABEL, VOLUME and a platform may give.
MCValues == {a, b}
MCSingles == {a}

VARIABLE machine   \* which of the three this behaviour is of

MCInit ==
  machine \in {"context", "errors", "states"} /\ ContextInit /\ ErrInit /\ LLBInit

MCNext ==
  /\ \/ machine = "context" /\ ContextNext /\ UNCHANGED <<errs, llbVars>>
     \/ machine = "errors" /\ ErrNext /\ UNCHANGED <<contextVars, llbVars>>
     \/ machine = "states" /\ LLBNext /\ UNCHANGED <<contextVars, errs>>
  /\ UNCHANGED machine

MCSpec == MCInit /\ [][MCNext]_<<contextVars, errs, llbVars, machine>>
=============================================================================
