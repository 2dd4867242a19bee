# shmocker: a TLA+ model of the image builder

shmocker builds container images from Dockerfiles without a Docker daemon. It
parses the Dockerfile, converts it to BuildKit's LLB, lets a BuildKit solve it
(embedded on Linux, inside a Lima or Colima machine elsewhere), pushes the
result to a registry, and can keep its build cache there and sign what it built.

This directory models the parts of it that keep state and can go wrong in an
order nobody wrote a test for. Every definition is taken from the code at the
lines `PROJECT.json` maps it to. TLC checks the modules on small instances;
TLAPS proves their safety properties, in eight proof modules, for every value of
their constants.

To repeat a check: `tlc -workers 2 -config Registry.cfg MCRegistry`; to repeat a
proof: `tlapm RegistryProofs.tla`.

## The system

| Component | State it keeps | Operations | What makes it hard | What makes it correct |
|---|---|---|---|---|
| Retry loop, `pkg/registry/retry.go` | loop counter, delay, timer; the request body and the responses of HTTP | `RetryWithBackoff`, `CalculateDelay`, `RetryableHTTPClient.Do` | float to integer overflow, jitter, a cancellation that races with the timer, attempts that share a body | bounded attempts and waits, no retry of a final error, prompt return; one response open, an accepted request sent whole |
| Registry client, `pkg/registry/client.go` | none of its own: the registry's blobs and tags, the caller's readers | `Push`, `Pull`, `PutBlob`, `DeleteBlob`, each several requests and retried as a whole | requests of several clients interleave, a request may fail before or after it took effect, readers are read once | a tag never shows an image whose blobs were never there; what a call reports is so |
| Authentication, `pkg/registry/auth.go` | credentials and tokens by host | `GetCredentials`, `RefreshToken`, `SetCredentials`, `ClearCredentials` | expiry, refresh tokens that are spent, answers lost | a token kept has an expiry, an expired credential is renewed |
| Cache exporter and importer, `pkg/registry/cache.go` | config blobs and manifests in a registry | `Export`, `Import` | exports and imports of one tag overlap, other tools write it | an import never fails or mixes because an export is half done |
| Lexer and parser, `pkg/dockerfile/lexer.go`, `parser.go` | position, tokens, cursor, AST | `NextToken`, `parseAST`, a loop per instruction | comments and continuations between words, loops that must advance | the AST is what the file says; parsing ends |
| Validator, `pkg/dockerfile/validator.go` | none | `ValidateAST` | three validations of the same file must agree | what it accepts converts |
| LLB converter, `pkg/dockerfile/llb_converter.go` | stage states, build arguments | `Convert`, `findRequiredStages`, `convert*` | states and argument maps shared between stages and platforms | the right stages, in order; no stage reaches into the memory of another |
| Builder, `pkg/builder/builder.go` | the request | `Build`, `BuildWithProgress`, `buildMultiPlatform` | platforms that fail one by one, caches that fail | no platform forgotten before the build is decided, images in the order of the request |
| Build command, `cmd/shmocker/main.go`, `pkg/builder/builder_stub.go` | channels of progress, done and signals; the context | `executeBuild`, `reportProgress` | three goroutines, a bounded channel, signals at any moment | no event lost or after the result, an interrupt ends it |
| Progress handler, `pkg/builder/progress.go` | vertices, logs | `HandleProgress`, `GetBuildStats`, `GetCompletedVertexes`, `GetVertexLogs` | readers meanwhile, repeated and older snapshots, an interface that does not read | statistics of whole statuses, one start and one end per step, never waits |
| Context manager, `pkg/builder/context.go` | a temporary directory | `PrepareContext`, `Close` | contexts prepared at once share directories; half-done preparations | a context holds the files of its source as long as nobody shares its directory |
| Lima and Colima controllers, `pkg/builder/buildkit_controller_lima.go`, `_colima.go` | machine status as last seen, BuildKit client | construct, `Solve`, import and export of caches, sessions, `RestartVM`, `Close` | the machine stops by itself, the daemon is late or hangs | what succeeds had the daemon's answer; a client is open when used and closed in the end; construction ends |
| Build error classifier, `pkg/builder/errors.go` | the errors made | `ClassifyError`, `WrapError`, `IsRetryableError` | words of a nested error or of a path choose the category, errors are classified again by their message | known words decide the category, nothing else becomes retryable on its way up |
| File key provider, `pkg/signing/cosign.go` | key files in a directory | `StoreKey`, `GetPrivateKey`, `GetPublicKey`, `ListKeys`, `DeleteKey` | two files per pair, killed between them, names that meet | a stored pair is found and matches; a deleted one is gone |
| Signer, verifier, attestations, `pkg/signing/cosign.go`, `attestation.go` | none: they read the key files | `Sign`, `Verify`, `SignBlob`, `VerifyBlob`, `Generate*Attestation`, `ValidateAttestation` | half-written pairs, ports and tags in references, optional signatures | what was signed is accepted with the key of the same reference |
| SBOM generator, `pkg/sbom/generator.go` | documents, and packages they share by pointer | `Generate`, `Merge`, `Serialize`, `Deserialize` | a merge completes packages other documents hold | each package once, descriptions stay, every package described |

How they meet: `executeBuild` makes a builder and hands it a channel; the
builder parses, validates, converts and calls `Solve` of a controller, once per
platform; events go over the channel to the reporter. After the build the
command pushes the tags, through the registry client, which runs each call in
the retry loop and takes the credentials of each request from the provider. The
builder's cache import and export call the cache manager. The signer, the
verifier and the attestation generator read their keys from the file provider,
between any two writes of another command. The progress handler, the context
manager, the registry cache, the error classifier, the signer and the SBOM
generator are complete but not yet called by the command: they are modelled
against the callers their interfaces and tests describe.

### Not modelled

* The builder's cache manager (`pkg/builder/cache.go`) checks options and hands
  them to BuildKit; its local, S3 and GHA variants are placeholders. It keeps
  nothing that a step could leave wrong.
* The configuration reads settings and asks `limactl` and `colima` one question
  each; the machines themselves are part of `VMController`.
* `internal/errors`, `internal/workflow`, `internal/cache`, `pkg/cache` declare
  types of planned parts, without implementation. Scripts and manifests run
  BuildKit outside of the program.
* Of modelled parts: the validator's checks of values (each tests the text of
  one argument and keeps nothing), the command's other subcommands, the embedded
  controller's construction, sessions and executor (a placeholder that reports
  success), `AttestationStore` and `PolicyEnforcer` (placeholders), the SBOM's
  tables of names and the XML formats, which it refuses. What a model leaves out
  of a part is in that component's note in `PROJECT.json`.

## The modules

| Module | Models | State and actions in terms of the code |
|---|---|---|
| `RetryContract` | what a caller of `RetryWithBackoff` relies on | `outcome` is what the operation returned last; at most `MaxCalls` calls; after a success or a final error there is no other, after a transient error there is unless the budget is spent or the caller has cancelled |
| `Retry` | `RetryWithBackoff` | `stage` is the place in the loop body; `Call`, `ReturnSuccess`, `ReturnError` are the operation; `SeeCancelled` and `StartTimer` the two sides of the check before the sleep, `TimerFires` the select; `err` is the error at hand, from which the contract's `outcome` is read. `Scaled` and `Wrap` give `Duration` its width, and the multiplier is a fraction, `Multiplier / Unit` |
| `HTTPRetry` | `RetryableHTTPClient.Do`, extending `Retry` | `unread` is the body reader all clones of the request share, `open` the attempts whose response is open; `SendFails` and `Respond` are the operation of the loop, `OtherReturns` any operation that is no HTTP request |
| `ImageRepository` | what users of a registry rely on | a tag is moved (`Publish`) only to an image whose blobs are all there but for those removed since its upload began |
| `Registry` | `ClientImpl` under `RetryableRegistryClient`, and the registry | one action per HTTP request of each call; each may be answered, refused, or lost before or after it took effect; `Fail` is the retry wrapper, which enters the call anew with readers as they are (`drained`) |
| `AuthProvider` | `RegistryAuthProvider` and its token endpoints | a credential is its kind and the time it has left; `Stored` and `FromEnv` say what the Docker config files and the environment give; `StartRefresh`, `StartGrant`, `TakeFromEnvironment` are the branches of `GetCredentials`; `Answered`, `Refused`, `AnswerLost` what becomes of the request |
| `CacheTransfer` | `Export` and `Import` | one action per request of the client, with other writers of the tag |
| `DockerfileParser` | `Lexer` and `ParserImpl.parseAST` | the text is a sequence of pieces (keywords, words, flags, escapes, comments, line ends); `NextToken` is the lexer, one action per loop or branch of the instruction parsers |
| `Dockerfile` | the AST and the three validations of its stages | operators over stages, used by the next |
| `BuildPipeline` | parser, `Build`, converter and `Solve` | a line per `Parse*` action, then one action per step of `Build`, per call of `findStageDependencies` and per instruction converted; instructions that are converted alike are one (`Ops`); the converter's states are values here, for which `LLBStates` gives the ground |
| `LLBStates` | the converter's states in memory | `maps` and `arrays` are the maps and the arrays behind slices, by address; `FromStage` is `cloneState` and the platform written behind it, `AppendList` an append that writes in place when the slice has room. `meant` is what the instructions of a stage say |
| `BuildSession` | `executeBuild` with its goroutines | `main`, `reporter` and `handler` are the places of the three; channels as the code makes them; `outcome` is what became of each tag |
| `Progress` | `ProgressHandler` | `todo` is what is left of the status under the mutex; `GetBuildStats`, with the two other readers, runs when the mutex is free |
| `BuildContext` | `ContextManager` | `dirs` are the directories by type of context; contexts of one manager interleave at every entry of an archive, which is a file, a directory or what the code passes over, and may be refused; a file's content is a sequence, so that what a shorter entry leaves of a longer one shows; `disturbed` remembers which contexts shared a directory |
| `ErrorClassifier` | `errors.go` | a text is the set of keywords in it; `Raise` is a step that fails, `Annotate` a caller's `errors.Wrap`, `WrapError` the code's; `errs` holds every error made, its index its identity, and of each what it began as and what was added; suggestions are left out |
| `VMController` | both controllers, chosen by `colima` | status, start, wait and probe of the machine; `Solve`, `Transfer` (import and export of caches, entry by entry), `GetSession`, `Command` and `Restart` in any order; clients are numbered so that it is known which are open |
| `KeyStore` | `FileKeyProvider` | file names are sequences of parts; `os.WriteFile` is two steps, each of which may fail, and a command may be killed between any two |
| `Signing` | `CosignSigner`, `CosignVerifier`, attestations | operators over a state of `KeyStore`, which it extends: they have no state, and read the store in the middle of another command's work |
| `SBOM` | `SyftGenerator`, `SyftSerializer` | `pkgs` is the heap of packages, `docs` the documents with their addresses; `Merge` completes packages in place |
| `MC*` | the instances TLC checks | `MCKeyStore` holds two machines that share no state, `MCBuildContext` three; a behaviour is of one of them (`machine`) |
| `*Proofs` | theorems | `RegistryAccessProofs` about `Retry`, `HTTPRetry`, `CacheTransfer` and `AuthProvider`, `HostProofs` about `VMController`, `BuildContext` and `ErrorClassifier`, `ArtifactProofs` about `KeyStore`, `Signing` and `SBOM`, `BuildPipelineProofs` also about `LLBStates`, the others about the module they are named after |

Definitions that precede another one and are commented "Mutant" are plausible
bugs of it. Each property of a run is known to fail when one of them takes the
place of the definition it varies.

What is abstracted everywhere: text, wording and layout; digests and keys are
values that equal themselves; the time of the clock is a count of ticks.

## The runs

Each run answers one question. Properties that are conjunctions have their parts
named and commented in the module.

| Run | Instance | Properties |
|---|---|---|
| `retry_loop` | five retries, delays of 9 units times one and a half up to a cap of 24 in a type that ends at 31, every jitter, seven kinds of error; HTTP requests with a body of known or unknown length or none, three kinds of transport error, every class of status | `DelaysAreRight` (bounded, those of `CalculateDelay`, and not too short, until the product, or its sum with the jitter, overflows), `OneCallAfterCancellation`, `ResponsesAreRight`, `ImplementsContract` |
| `registry` | two pushes of images that share a layer and the tag, with a pull of it; and a push with a `PutBlob` and a `DeleteBlob` of its layer; one retry | `MissingOnlyIfDeleted`, `AnswersAreTrue`, `ImplementsRepository`, `CallsReturn` |
| `auth` | a host that tells lifetimes, one that may not, one with a password in the Docker config; a malformed config entry, and a variable that hides the generic ones | `TokensExpire`, `ExpiredIsRenewed` |
| `cache` | two exporters of different versions, two importers and other tools at one tag, one exporter to another repository | `TransfersAreRight` |
| `parse` | 39,156 files of five kinds | `ParsedIsWritten`, `LegalIsParsed`, `ParseEnds` |
| `build` | files of five lines and three stages that name one another or inherit lists, of four lines with a stage named by a number, of five lines and two stages that inherit commands, and of four lines with arguments used on two platforms by stages of which the second starts from the first, with the requests that matter to each | `RequiredIsLeast`, `ReferencesAgree`, `UserArgsKept`, `OutcomeIsRight`, `BuildEnds` |
| `build_callers_value` | four lines, one build argument | `CallersValueIsUsed`, which fails: see the last section |
| `session` | a channel of two for six events, two tags, two signals | `EventsAreShown`, `TagsAreTried`, `InterruptEnds` |
| `progress` | two vertices, two statuses out of twenty, an event channel of two | `StatusesAreTakenWhole`, `OneStartOneEnd`, `StatusesAreHandled` |
| `context` | seven contexts of six types in one manager, with archives that repeat a file longer and shorter, hold a directory, a link and a name with dots; errors with the texts of `context.go` over six causes, three remarks of callers, up to five errors; and three stages of the converter with lists of up to four | `ReadyHoldsSource`, `CategoriesAreRight`, `SharingIsInvisible` |
| `vm` | both controllers, three stops, three restarts, two caches, a wait of three ticks | `ClientsAreSound`, `ConstructionEnds` |
| `keys` | two commands, two references whose file names meet, a `.pem` file of the user's, four image references with and without port and tag; and three scans that share packages, merged, merged again and reloaded | `KeysAreKept`, `SignaturesAreAccepted`, `DocumentsAreRight` |

The runs also check their module's `TypeOK`, but for `auth`, `context`, `keys`
and `cache`: of these the types are a part of the invariant that is proved.

Some properties hold only under a condition that they name, because the code
does otherwise in the case left out. The hazard in `PROJECT.json` then has a
note that says which part of it is covered, and the last section but one lists
what the code does.

### Why these bounds

* Retries: the delays are 9, 13, 19 and 28, and the product after that leaves
  the type, which five retries reach; 28 passes the cap and still fits, when its
  jitter does not. A fraction is cut off at each of them. One retry shows in
  `Registry` everything a second one could: a retry begins in a state that
  depends only on what was read and on what took effect.
* Callers: a tag has at most two writers and a reader in conflict, a blob one
  pusher, one putter and one deleter. `Teams` names these two sets.
* Dockerfiles: with three stages there is a stage that nothing needs, one
  between a reference and what it refers to, and a name used twice. `Within`
  names the bounds on lines and stages (what an image inherits is
  `ConfigurationIsInherited`, a part of `OutcomeIsRight`), `Texts` those on the
  pieces of a file; the loops of the parser look at most one token ahead and one
  behind.
* Channels: capacities of one or two fill and drain in a run, which those of the
  code (100) do too but later. The proof about `BuildSession` has every
  capacity.
* Processes: two of a kind meet in every way two can.
* The converter's memory: three stages are a base and two that start from it, or
  a chain; a list of three has room for a fourth behind it, the place where two
  stages would meet; eight maps and arrays are enough for a clone of a clone
  with a variable and a list.
* Errors: five are a failure, classified, annotated and classified again, with
  one remark more.

### Fairness

* `Retry`, `DockerfileParser`, `BuildPipeline`: one goroutine that can take a
  step does so.
* `Registry`: each call proceeds, since every request ends (HTTP timeouts);
  which way it ends is not assumed.
* `BuildSession`: the three goroutines are scheduled; a build or push ends when
  its context is cancelled and is not assumed to end otherwise.
* `Progress`: the handler is scheduled; the interface need never read.
* `VMController`: commands end, time passes, and a `select` with two ready cases
  does not choose one of them for ever (strong fairness of the timeout).
* `AuthProvider`: the client keeps making requests, so `GetCredentials` is
  called again after each failure, and not every answer of an endpoint that is
  up is lost.
* The other modules have no liveness property.

`CHECK_DEADLOCK FALSE` stands where calls end for good: the calls of `Retry`,
`Registry` and `CacheTransfer` return, contexts and controllers are closed, the
progress handler returns.

## The proofs

* `RegistryAccessProofs`, the retry loop. From `RetryAssumption` alone (any
  configuration, any width of the integer): type correctness, no wait beyond
  `MaxDelay` although the delay may have overflowed to a negative or saturated
  value, at most one operation after the cancellation, and refinement of
  `RetryContract`, whose outcomes are read from the errors the operation
  returned. The invariant adds to the types that `returned` counts the attempts
  (`Counted`), that a result exists exactly at the end, and that a late call is
  the last one (`LateCallIsLast`): without that, the bound on late calls is not
  inductive. The lemma `WaitIsBounded` carries the arithmetic. With a multiplier
  of at least one, whole or a fraction, also `DelaysAreRight`: before the
  overflow the delay is close to the product (`DelayIsClose`: what is cut off at
  a step grows with the later ones, and stays below a nanosecond of initial
  delay for each; `FitsBefore` says that a product that fits did so one factor
  earlier), and the wait is that delay jittered (`WaitIsJittered`). The rounding
  of the float64 product itself is left out. That the recursive power has its
  equations is `PowerUnfold`, by the least exponent for which it would not. From
  `HTTPAssumption` as well: a step of `HTTPRetry` is a step of the loop
  (`HTTPStepIsLoopStep`), so the invariant and the prompt cancellation hold of
  HTTP requests too, and `ResponsesAreRight` for every body length and any
  statuses and errors; it is inductive over the loop's invariant, which says
  that a result ends the loop.
* `RegistryProofs`. For any sets of callers, images and tags:
  `MissingOnlyIfDeleted` and refinement of `ImageRepository`. The invariant says
  of each pusher how far it has come: the parts before `idx` are in the store or
  were deleted since the push began (`ProgressOf`), and the same of every tagged
  image (`TaggedAvailable`). Neither follows from the property itself, since the
  tag is set long after the blobs were uploaded. One lemma (`Kept`) states that
  a step which only adds blobs, or records a deletion, keeps what was available;
  each action's case then has to look at its own caller only. `AnswersAreTrue`
  is proved with what a call knows of itself (`Sound`): its result is open until
  it returns, every retry had its fault, and a push without a fault has read
  only the parts behind it. A step of one caller disturbs none of that in
  another (`Frame`, `OthersAnswer`).
* `BuildPipelineProofs`. For any Dockerfile and request: the required stages are
  the least closed set, accepted references and targets resolve to the same
  stage for everyone, and the caller's build arguments are kept. The invariant
  remembers which validation has accepted the file (`Accepted`), that the search
  has entered or will enter every dependency (`Searching`, `Searched`), and that
  stages are converted in ascending order (`Ascending`), which with the
  validation's "only earlier stages" shows that a reference is converted before
  it is needed. That the validator is stricter than the builder
  (`ValidatorImpliesBuilder`) gives `ValidatedFilesConvert`; a lone stage, which
  the builder does not look at, is a case of its own (`FirstStageRefersToNone`).
  What a build returns is proved for requests that name no platform twice
  (`OnePlatformEach`): while platforms are tried, `Tried` are those that are
  over, and exactly those have an image or an error, in order (`Matched`), so a
  build fails only if all have failed, and succeeds with the images of the
  others. What images inherit is proved along the conversion: a state has what
  its base and the instructions so far declare (`StatesConfigured`). The
  recursive definitions `Texts` and `Declared` are unfolded by the least length
  for which no function with their equations exists (`TextsUnfold`,
  `DeclaredUnfold`), the second along `BasesPrecede`. Together these are
  `OutcomeIsRight`. That the states of the converter are values is
  `StatesAreValues`, about `LLBStates`: what is read at an address in use is
  never written (`ReadsAlike`), but for the array of the stage at hand, in which
  an append writes, and which no converted stage has (`ArrayOfItsOwn`): a
  clone's slices have no room left (`CloneIsNew`).
* `BuildSessionProofs`. For any capacity, number of tags and of signals: events
  printed, in hand and buffered are those sent, in order, and all are printed
  before a push or the result. The invariant ties the place of `main` to the
  channel being closed and the reporter done (`MainKnows`, `ReporterKnows`).
  `TagsAreTried` needs that exactly the tags passed were tried, that pushes
  begin only behind a build that succeeded, that a success which is not quiet
  comes behind the last of them, and that before the command exits only a signal
  cancels the context (`TagsInv`).
* `ProgressProofs`. For any vertices, statuses and channel capacities: types,
  and `OneStartOneEnd`. The property is about what was shown, the code decides
  by what is in the vertex; the invariant joins them by `Pending`, the events in
  the channel and then those still to be sent, in which an end never precedes a
  start and no event repeats (`Ordered`), the first fits what was shown, and
  each was noted in its vertex (`Follows`). It needs that events are sent before
  anything else is done and that a completed vertex has started.
* `HostProofs`, the controllers. For any length of the wait and any number of
  stops, restarts and cache entries: types and `ClientsAreSound`. The invariant
  says in which operation a place may be (`StagesOK`), that clients are numbered
  in the order they are made, one for the constructor and one for each restart
  (`ClientsOK`), and counts those left open (`FewOpen`), with the cardinality
  theorems of finite sets.
* `ArtifactProofs`, keys and signatures. For any commands, key pairs and
  references (non-empty sequences of strings): `KeysAreKept`. The invariant says
  which operation owns a reference (`AloneIsAlone`, `Settled`), what the files
  then hold (`Known`) and hold halfway (`HalfDone`). The file names are the
  crux: `PathsDiffer` shows from the injectivity of `Append` that distinct
  references share no file of their pairs, although they may be read at one
  another's. And `SignaturesAreAccepted`, in every state of the store, for any
  images that carry a tag or none (`ImageAssumption`): that `StripTag` takes off
  what the grammar calls the tag (`TagIsStripped`), so that the lookup parses,
  and that the key an attestation is validated with is the one it was signed
  with (`GeneratedIsValid`).
* `RegistryAccessProofs`, the cache. For any exporters, importers, repositories
  and tags, and any manifests of other tools that name no exporter's config
  (`CacheAssumption`): `TransfersAreRight`. A config is in its exporter's
  repository before a manifest names it (`ConfigComesFirst`); an importer's
  source has a cache of its own unless that was overwritten (`SourceIsOwn`), and
  what it has fetched stays right though the tag moves on (`FetchedIsRight`).
* `RegistryAccessProofs`, credentials. For any registries, credentials and
  lifetimes: the types (`AuthTypesAreCorrect`), and `TokensExpire`. The
  invariant adds that a request under way is for a host with an endpoint, and
  that time, which wears a lifetime down, never turns it into none.
* `HostProofs`, contexts. For any contexts and sources, with names repeated,
  refused or passed over: `ReadyHoldsSource`. Between two entries the directory
  of a context that nobody disturbed holds what the entries so far make of an
  empty one (`OwnDirectory`), and a directory whose contexts are all new or
  closed is not there (`Cleared`). What one more entry makes of a file is
  `ContentStep`, part by part of its content.
* `HostProofs`, errors. For any stages, causes and remarks of the code's
  keywords: `CategoriesAreRight`. Every error made says what it was made of
  (`Explained`); the rest is about the tables: what a message shows of its
  category when it is classified again (`MessageShowsCategory`), and which of
  two texts wins (`CategoryOfBoth`).
* `ArtifactProofs`, documents. For any scans that tell packages apart by their
  ID (`ScanAssumption`, as Syft's collection does): `DocumentsAreRight`, for
  documents merged and reloaded in any order. Since packages are shared by
  address, what a step writes must be harmless to every other document: the heap
  only grows, and a description that is there stays (`Grows`, `StaysRight`). The
  packages a merge keeps are unfolded from its two folds by rank (`Ranks`,
  `KeptPackages`, `CompletedPackages`).
* `ProgressProofs`, also `StatusesAreTakenWhole`: what a reader sees are the
  totals over whole statuses. The invariant counts, during a status, what has
  been handled of it and what remains to be done (`Handled`, `Remains`,
  `Underway`), knows that the statuses in the channel are those sent and not
  taken (`InTransit`), and that a vertex was announced before logs of it come
  (`AnnouncedFirst`, which the sender keeps).
* `DockerfileParserProofs`. For files of any kind and length: types, and
  `ParsedIsWritten`. The parser sees tokens, the reference sees lines of text;
  the invariant joins them by the positions at which the tokens begin
  (`Placed`). No token begins within a comment (`Clean`), so a token is a word
  of the text or no text at all (`TokenText`). What was parsed mirrors the text
  up to the token at hand (`Mirrors`), between instructions (`Between`) or
  within one (`Within`). For a step it then matters only how it moves over that
  token (`Moves`), and that a line begins where the lexer saw an instruction,
  once the file does not begin with a continuation (`NewLine`, `Plain`).
* `DockerfileParserProofs`, also `LegalIsParsed`. The words consumed are the
  beginning of the line at hand (`OfLine`), and the token at hand is its next
  word, its end or a continuation (`Reading`): a word of a line is an
  instruction to the lexer only at its start (`StartsLine`, `NewLine`), and a
  line end that is a token is not one a continuation joined (`NewlineOver`). The
  invariant (`Promise`) says what the rest of the line must be at each place of
  the grammar (`Owes`), and that between instructions no line is open (`Over`).
  `LegalStep` has a case for each parse function: it takes the next word and is
  owed the rest, or completes at the end of the line, and nowhere else.

Only model-checked: the liveness properties (`CallsReturn`, `ExpiredIsRenewed`,
`ParseEnds`, `BuildEnds`, `InterruptEnds`, `StatusesAreHandled`,
`ConstructionEnds`), since fairness and `ENABLED` are beyond the prover. Every
invariant of a passing run is a theorem.

## What the code does otherwise than it says

Met while modelling. The first is checked by the run `build_callers_value`. The
models contain the behaviour of all the others; the properties name the
condition under which the promise holds, and fail without it.

* `--build-arg` loses to the default of `ARG`: the parser expands words with the
  defaults it meets (`parser.go:812`) before the converter can prefer the
  caller's value (`llb_converter.go:627`).
* An `ARG` before the first `FROM` is refused by the parser (`parser.go:165`)
  though the validator allows it (`validator.go:557`); `--from=0` passes the
  validator (`validator.go:694`) and is a name to the converter
  (`llb_converter.go:384`); platforms of one build share the map of build
  arguments, so one platform's `ARG` defaults are the next one's arguments
  (`builder.go:429`); the errors of platforms that failed are dropped once
  another one was built, so a build that succeeds says nothing of them, and its
  caller has to count the manifests (`builder.go:463-478`); a cache import or
  export that fails fails the build (`builder.go:86`, ADR 0003 calls caches
  optional).
* A stage may be named by a number. `--from=0` is then the first stage to the
  validator (`validator.go:694`) and the stage named 0 to `builder.Build`
  (`builder.go:222`) and the converter, so a file the validator accepts may be
  refused or copied from another stage: `ValidatedFilesConvert` is about files
  with no such name.
* A comment inside a continued instruction stops the parser in a loop that does
  not advance (`parser.go:575`; `ParseEnds` assumes `LoopsEnd`); `COPY` ends at
  a continuation (`parser.go:593`); an escape glued to a word at the end of a
  line is part of the word (`lexer.go:188`). `LegalIsParsed` assumes
  `ContinuationsInLoops`.
* A retried `Push` or `PutBlob` reads readers that are already at their end, and
  a `DELETE` whose answer was lost is retried and told 404 (`retry.go:270`,
  `347`, `361`): `AnswersAreTrue` says when a failure is explained by that. The
  delay leaves its type after enough retries (`retry.go:189`): `DelaysAreRight`
  holds while it fits. The jitter is added before the cut at `MaxDelay`
  (`retry.go:171`), so the wait may wrap one retry earlier than the delay does.
* `RetryableHTTPClient` retries a request whose body it has already read
  (`retry.go:223`). With a known length the server notices; without one it is
  sent an empty body, and may accept it. `AcceptedWhole` is about known lengths.
* `--quiet` returns before the pushes (`main.go:316`); an interrupt during the
  pushes ends with success (`main.go:352`).
* A hung daemon keeps the Lima constructor waiting beyond its timeout
  (`buildkit_controller_lima.go:189`); a restart leaves the old client open
  (`:618`); Colima's connect makes no connection
  (`buildkit_controller_colima.go:189`), and Lima's import and export of caches
  ask nobody (`buildkit_controller_lima.go:306`). `SuccessMeansAnswered` names
  the operations that do ask.
* `GetVertexLogs` copies what it returns, "to avoid race conditions"
  (`progress.go:205`); `GetCompletedVertexes` returns the handler's own vertices
  (`:219`), which later statuses change. The model has which they are.
* A progress channel closed by its owner makes the handler's send panic
  (`progress.go:188`); the model's owner keeps it open.
* Contexts of one type share a directory that is not emptied (`context.go:178`):
  two that are in use at once mix, and one prepared after another that failed
  finds what that left. `ReadyHoldsSource` is about the others (`disturbed`). A
  file that comes again in an archive is written without truncation (`:465`), so
  it keeps the end of a longer earlier one; links and all else that is neither
  file nor directory are passed over without an error (`:454-475`); a name with
  dots, `a..b` too, is refused (`:448`). The property says just that. An
  extraction that outlives the manager makes its directory again (`:461`); the
  model's owner closes the manager last.
* A cache exported to another repository than the configured one has its config
  in the configured one (`cache.go:325`) and cannot be imported;
  `TransfersAreRight` says where it is.
* A refresh token that was spent by a request whose answer was lost is sent
  again for ever (`auth.go:143`), and a refresh without `expires_in` leaves the
  old expiry in place (`auth.go:106`), so that every request refreshes again.
  `ExpiredIsRenewed` exempts the first and is about endpoints that tell
  lifetimes.
* A key stored as `a.key` is written to `a.key.key` and read from `a.key`
  (`cosign.go:484`); `.pem` files are readable but not listed (`:448`).
  `KeysAreKept` is about references without extension. The public key is derived
  from the private one when that can be read (`cosign.go:386`), so a `.pub` file
  of another pair beside it goes unnoticed, by the property too.
* An image reference that has a digest already is signed with another one behind
  it and then refused by the verifier (`cosign.go:94`, `:270`);
  `ImageAssumption` excludes it.
* The signer's payload is the reference with its tag (`cosign.go:116`), the
  verifier looks up the reference without it (`StripTag`); with placeholders for
  the registry and the cryptography this has no consequence yet.
* A "dependency-of" of Syft becomes a "depends-on" with its ends not exchanged
  (`RelationshipType`), so the dependency is said to depend on its dependent;
  packages of a merged document stay described by the IDs of its inputs; a merge
  fills in what other documents say nothing of (`generator.go:166`), and
  `DocumentsAreRight` is about what they do say; XML
  formats are listed as supported and refused by the serializer.
* Keywords of a path count as keywords of the error (`errors.go:120`): "no space
  left" on a file called `Dockerfile` is an error of the Dockerfile. An error
  that was classified shows its message only: of a full disk or a missing
  permission, wrapped with `errors.Wrap` and classified again, nothing is known
  any more, and the full disk is no longer retried (`errors.go:131-153`).
  `CategoriesAreRight` says which words decide.

## Limits of the models

* `builder.go` and the macOS files import packages they do not use and do not
  compile at this commit; they are modelled from their text.
* The context manager, progress handler, registry cache and Colima controller
  are not called from the command, and `ValidateAST` only by its package.
  Colima's `Solve` does not pass the LLB definition on.
* The lexer reads bytes; the model's pieces have no half of a character. Strings
  that do not end are not among the pieces.
* `KeyStore` reads a key at one instant. `CacheTransfer` has no garbage
  collection in the registry, and its client requests are atomic.
* `AuthProvider` is used by one goroutine at a time: its maps have no lock.
* `HTTPRetry`, `Signing` and `SBOM` are next to, not composed with, the registry
  client: the code does not use the HTTP client there, and the command neither
  signs nor lists packages yet.

## Plan

What is left, in the order of its worth:

1. An abstract specification of the key store (a map from references to keys
   that fails as a whole) with `KeyStore` as its refinement between operations,
   and one of a build's outcome above `BuildPipeline`.
2. The validator's checks of values against reference definitions, and the
   builder's cache manager once its variants do something.
