---------------------------- MODULE MCBuildPipeline ----------------------------
(***************************************************************************)
(* Instances of BuildPipeline for TLC: three kinds of Dockerfiles, each    *)
(* with the requests it is built for.                                      *)
(***************************************************************************)
EXTENDS BuildPipeline

CONSTANTS a, b, img, zero, p1, p2, x, u

(* "0" is the first stage. *)
MCValueOf == [n \in Numerals |-> 1]

NoArgsGiven == [n \in ArgNames |-> NoWord]
Plain == [args |-> NoArgsGiven, target |-> NoWord, platforms |-> << >>,
          cacheFrom |-> FALSE, cacheTo |-> FALSE, validated |-> TRUE]

(* No target, and one that is checked by the caller first or not. *)
TargetRequests ==
    {Plain, [Plain EXCEPT !.target = a], [Plain EXCEPT !.target = a, !.validated = FALSE]}

(* Two platforms with and without the caller's value of an argument; no platform, and
   one that is not supported. *)
PlatformRequests ==
    LET Cached == [Plain EXCEPT !.cacheFrom = TRUE, !.cacheTo = TRUE]
        Given  == [Cached EXCEPT !.args = [n \in ArgNames |-> u]]
    IN  {[Cached EXCEPT !.platforms = <<p1, p2>>], [Given EXCEPT !.platforms = <<p1, p2>>],
         Given, [Given EXCEPT !.platforms = <<"other">>]}

MCRequests == TargetRequests \cup PlatformRequests
GivenArg   == {[Plain EXCEPT !.args = [n \in ArgNames |-> u]]}

(* The stages are named, start from, and contain only what is given. *)
Made(ss, names, froms, platforms, instructions) ==
    \A i \in DOMAIN ss :
        /\ ss[i].name \in names \cup {NoWord} /\ ss[i].from.word \in froms
        /\ ss[i].platform \in platforms \cup {NoPlatform}
        /\ \A k \in DOMAIN ss[i].body :
               <<ss[i].body[k].op, ss[i].body[k].text>> \in instructions

(* What stages name one another by; a name no stage has before is an image.
   One may have a number for its name. *)
Stages(ss, n, r) ==
    /\ r \in TargetRequests /\ n <= 5 /\ Len(ss) <= 3
    /\ \/ Made(ss, {a, b}, {a, b}, {}, {"copy"} \X {a, b, zero})
       \/ n <= 4 /\ Made(ss, {a, zero}, {a}, {}, {"copy"} \X {a, zero})

(* What stages inherit. *)
Lists(ss, n, r) ==
    /\ r = Plain /\ n <= 5 /\ Len(ss) <= 3
    /\ Made(ss, {a}, {a, img}, {}, {<<"list", a>>, <<"list", b>>, <<"run", a>>, <<"copy", a>>})

(* Which of the commands they keep, and that they copy from the build context. *)
Commands(ss, n, r) ==
    /\ r = Plain /\ n <= 5 /\ Len(ss) <= 2
    /\ Made(ss, {a}, {a, img}, {}, {<<"cmd", a>>, <<"cmd", b>>, <<"copy", NoWord>>})

(* What platforms share: the second stage starts from the first. *)
Shared(ss, n, r) ==
    /\ r \in PlatformRequests /\ Len(ss) <= 2
    /\ n <= (IF Len(r.platforms) = 2 THEN 4 ELSE 3)
    /\ Len(ss) = 2 => ss[2].from.word = a
    /\ Made(ss, {a}, {a, img, x}, {p1},
            ({"set", "run"} \X {x}) \cup ({"arg"} \X {img, NoWord}))

MCWithin(ss, n, r) ==
    Stages(ss, n, r) \/ Lists(ss, n, r) \/ Commands(ss, n, r) \/ Shared(ss, n, r)

FourLines(ss, n, r) == n <= 4 /\ Len(ss) <= 2
===============================================================================
