---------------------------- MODULE ErrorClassifier ----------------------------
(***************************************************************************)
(* pkg/builder/errors.go: an error is put into a category by the keywords  *)
(* its text contains, and becomes a *BuildError with a message of its own. *)
(* Errors go up through callers that add words to their text and may       *)
(* classify them again.                                                    *)
(*                                                                         *)
(* A text is the set of the keywords it contains in lower case, the words  *)
(* of a keyword joined by hyphens; a message is the text it makes.  The    *)
(* wording around the keywords, the suggestions and the context entries    *)
(* that go with a message are left out.                                    *)
(***************************************************************************)
EXTENDS Naturals, Sequences, FiniteSetsExt

CONSTANTS
  Stages,      \* [stage -> text]: what a step that fails says itself
  Causes,      \* the texts of the errors below it
  Remarks,     \* the texts callers add with errors.Wrap
  Steps,       \* build steps given to WrapError
  MaxErrors    \* bound on the errors of a history

(***************************************************************************)
(* The categories.  "when" chooses the message by the keywords of the text *)
(* in the order of the switch, "says" is the message; a message with no    *)
(* keywords to wait for is the default.                                    *)
(***************************************************************************)
Case(when, says) == [when |-> when, says |-> says]
Default(says)    == [when |-> {}, says |-> says]

ContextErrors ==
  [keywords |-> {"build-context", "context-directory", "dockerignore", "git-clone",
                 "tar-extract", "download", "http", "context-not-found"},
   messages |-> <<Case({"directory-does-not-exist"}, {"build-context", "context-directory"}),
                  Case({"git-clone"}, {}),
                  Case({"tar"}, {"tar"}),
                  Case({"http"}, {"download", "http"}),
                  Default({"build-context"})>>]

DockerfileErrors ==
  [keywords |-> {"dockerfile", "parse-error", "syntax-error", "unknown-instruction",
                 "invalid-format", "ast"},
   messages |-> <<Case({"parse", "syntax"}, {"dockerfile", "syntax", "syntax-error"}),
                  Case({"unknown-instruction"}, {"dockerfile"}),
                  Case({"ast"}, {"dockerfile", "ast"}),
                  Default({"dockerfile"})>>]

DependencyErrors ==
  [keywords |-> {"package-not-found", "no-such-file", "command-not-found",
                 "executable-not-found", "apt-get", "yum", "apk", "npm-install",
                 "pip-install", "gem-install"},
   messages |-> <<Case({"package-not-found"}, {"package-not-found"}),
                  Case({"command-not-found"}, {"command-not-found"}),
                  Case({"apt-get", "yum", "apk"}, {}),
                  Default({})>>]

PermissionErrors ==
  [keywords |-> {"permission-denied", "access-denied", "operation-not-permitted",
                 "insufficient-privileges", "rootless"},
   messages |-> <<Default({})>>]

NetworkErrors ==
  [keywords |-> {"network", "connection", "timeout", "resolve", "dns", "no-route",
                 "unreachable", "proxy"},
   messages |-> <<Case({"timeout"}, {"network", "timeout"}),
                  Case({"resolve", "dns"}, {"dns"}),
                  Case({"proxy"}, {"proxy", "connection"}),
                  Default({"network", "connection"})>>]

CacheErrors ==
  [keywords |-> {"cache", "import-cache", "export-cache", "cache-mount"},
   messages |-> <<Default({"cache"})>>]

(* Mutant: the message repeats the keyword of a cache that is full. *)
ResourceErrorsAboutCache ==
  [keywords |-> {"no-space-left", "out-of-memory", "resource-temporarily-unavailable",
                 "too-many-open-files", "disk-full"},
   messages |-> <<Default({"cache"})>>]

ResourceErrors ==
  [keywords |-> {"no-space-left", "out-of-memory", "resource-temporarily-unavailable",
                 "too-many-open-files", "disk-full"},
   messages |-> <<Case({"no-space-left", "disk-full"}, {}),
                  Case({"out-of-memory"}, {}),
                  Case({"too-many-open-files"}, {}),
                  Default({})>>]

ExecutionErrors ==
  [keywords |-> {"exit-code", "command-failed", "execution-failed", "process-exited"},
   messages |-> <<Default({"execution-failed"})>>]

ConfigurationErrors ==
  [keywords |-> {"configuration", "invalid-option", "unsupported", "not-implemented",
                 "buildkit", "worker"},
   messages |-> <<Default({"configuration"})>>]

UnknownErrors == [keywords |-> {}, messages |-> <<Default({})>>]

Categories ==
  [context |-> ContextErrors, dockerfile |-> DockerfileErrors,
   dependency |-> DependencyErrors, permission |-> PermissionErrors,
   network |-> NetworkErrors, cache |-> CacheErrors, resource |-> ResourceErrors,
   execution |-> ExecutionErrors, configuration |-> ConfigurationErrors,
   unknown |-> UnknownErrors]

(* Mutant: the network is asked about first. *)
NetworkFirst ==
  <<"network", "context", "dockerfile", "dependency", "permission", "cache", "resource",
    "execution", "configuration">>

(* The order of the switch in ClassifyError. *)
Priority ==
  <<"context", "dockerfile", "dependency", "permission", "network", "cache", "resource",
    "execution", "configuration">>

Category(text) ==
  LET matching == {i \in DOMAIN Priority : text \cap Categories[Priority[i]].keywords # {}}
  IN  IF matching = {} THEN "unknown" ELSE Priority[Min(matching)]

Message(category, text) ==
  LET cases == Categories[category].messages
      fits(i) == cases[i].when = {} \/ cases[i].when \cap text # {}
  IN  cases[Min({i \in DOMAIN cases : fits(i)})].says

------------------------------------------------------------------------------
VARIABLE errs       \* the errors made so far; an error's index is its identity

Nil == 0

(* Any error that is not a BuildError; cause is what it wraps.  History:    *)
(* it began as a failure of stage or as the BuildError base, and added is   *)
(* the text that came to that.                                              *)
PlainError(text, cause, stage, base, added) ==
  [build |-> FALSE, type |-> "unknown", text |-> text, cause |-> cause, step |-> "none",
   stage |-> stage, base |-> base, added |-> added]

(* A BuildError's Error() is its message, without its cause. *)
NewBuildError(type, message, cause) ==
  [build |-> TRUE, type |-> type, text |-> message, cause |-> cause, step |-> "none",
   stage |-> "none", base |-> Nil, added |-> {}]

IsRetryableError(e) == errs[e].build /\ errs[e].type \in {"network", "resource"}

GetErrorType(e) == IF errs[e].build THEN errs[e].type ELSE "unknown"

ErrInit == errs = << >>

(* A step of the program fails because of something below it. *)
Raise(stage, cause) ==
  errs' = Append(errs, PlainError(Stages[stage] \cup cause, Nil, stage, Nil, cause))

(* A caller adds its remark with errors.Wrap. *)
Annotate(e, remark) ==
  LET old == errs[e]
      text == old.text \cup remark
  IN  errs' = Append(errs, IF old.build THEN PlainError(text, e, "none", e, remark)
                           ELSE PlainError(text, e, old.stage, old.base, old.added \cup remark))

Classified(e) ==
  LET type == Category(errs[e].text)
  IN  NewBuildError(type, Message(type, errs[e].text), e)

(* Mutant: a BuildError is classified again, by its message. *)
WrapAgain(e, step) ==
  errs' = IF errs[e].build
            THEN [errs EXCEPT ![e].type = Category(errs[e].text), ![e].step = step]
            ELSE Append(errs, [Classified(e) EXCEPT !.step = step])

(* A BuildError is returned as it is, the same object with another step. *)
WrapError(e, step) ==
  errs' = IF errs[e].build
            THEN [errs EXCEPT ![e].step = step]
            ELSE Append(errs, [Classified(e) EXCEPT !.step = step])

ErrNext ==
  \/ /\ Len(errs) < MaxErrors
     /\ \/ errs = << >> /\ \E stage \in DOMAIN Stages, cause \in Causes : Raise(stage, cause)
        \/ \E e \in DOMAIN errs, remark \in Remarks : Annotate(e, remark)
        \/ \E e \in DOMAIN errs, step \in Steps : ~errs[e].build /\ WrapError(e, step)
  \/ \E e \in DOMAIN errs, step \in Steps : errs[e].build /\ WrapError(e, step)

ErrSpec == ErrInit /\ [][ErrNext]_errs

------------------------------------------------------------------------------
(* What a BuildError that callers wrapped shows of its category when it is  *)
(* classified again: it says its message, not its cause.  The messages of   *)
(* two categories never name them, those of two others not always.          *)
Shown(e) ==
  IF \/ e.type \in {"permission", "resource"}
     \/ e.type \in {"context", "dependency"} /\ e.text \cap Categories[e.type].keywords = {}
  THEN "unknown" ELSE e.type

Own(plain) == IF plain.base = Nil THEN Category(Stages[plain.stage]) ELSE Shown(errs[plain.base])

(* The category of an error that is classified is that of its own words or  *)
(* of the words that came to them, however many callers added some: of its  *)
(* own, if nothing else says one, or if that is the context; of the others, *)
(* if its own words say none; one that names the Dockerfile is of the       *)
(* Dockerfile or of the context.  Its own words are those of the step that  *)
(* failed, or the message it was given when it was classified before: a     *)
(* network error stays what it is and may be tried again, unless a caller   *)
(* speaks of something asked about before the network, while a full disk    *)
(* that is wrapped and classified again is unknown and not tried again.     *)
(* Nothing else becomes retryable on its way up.                            *)
CategoriesAreRight ==
  \A b \in DOMAIN errs : errs[b].build =>
    LET plain == errs[errs[b].cause]
        own == Own(plain)
        others == Category(plain.added)
    IN  /\ errs[b].type \in {own, others}
        /\ own = "context" \/ others = "unknown" => errs[b].type = own
        /\ own = "unknown" => errs[b].type = others
        /\ own = "dockerfile" => errs[b].type \in {"context", "dockerfile"}
        /\ plain.base # Nil =>
             /\ own = "network" /\ others \notin {"context", "dockerfile", "dependency", "permission"}
                  => IsRetryableError(b)
             /\ IsRetryableError(b) => own = "network" \/ others \in {"network", "resource"}
==============================================================================
