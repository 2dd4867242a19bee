-------------------------- MODULE MCDockerfileParser --------------------------
(***************************************************************************)
(* Instances of DockerfileParser for TLC: files about how lines begin, end *)
(* and go on, files about what follows the keyword of an instruction, and  *)
(* files about the words of one line.                                      *)
(***************************************************************************)
EXTENDS DockerfileParser

FilesOf(pieces, max) == [pieces |-> pieces, prefix |-> <<"FROM", "w", "NL">>, max |-> max]

MCTexts ==
  {FilesOf({"FROM", "RUN", "w", "ESC", "NL", "#", "flag"}, 5),
   FilesOf({"ENV", "COPY", "WORKDIR", "HEALTHCHECK", "CMD", "w", "kv", "NL"}, 4),
   FilesOf({"RUN", "w", "wESC", "NL"}, 5),
   FilesOf({"COPY", "w", "NL"}, 7),
   FilesOf({"FROM", "RUN", "VOLUME", "ONBUILD", "AS", "known", "flag", "[]", "str", "w"}, 4)}
===============================================================================
