---------------------------- MODULE BuildContext ----------------------------
(***************************************************************************)
(* ContextManager of pkg/builder/context.go: it turns the source of a      *)
(* build context (a directory, an archive, a download, standard input, a   *)
(* git repository) into a directory BuildKit can read, inside one          *)
(* temporary directory of the manager, and removes it again.               *)
(*                                                                         *)
(* The contexts of one manager may be prepared at once, or one after       *)
(* another.  A file's content is a sequence; what an archive holds is a    *)
(* sequence of entries, which may be files, directories or anything else   *)
(* (links, devices), in which a name may come again, as in an archive that *)
(* was appended to, and be refused.  A name is a path; that the            *)
(* directories above it are made on the way is left out, and so are the    *)
(* exclude patterns, which only choose among the files.                    *)
(***************************************************************************)
EXTENDS Naturals, Sequences, SequencesExt

CONSTANTS
  Contexts,      \* build contexts prepared by one manager
  Kind,          \* [Contexts -> "local", "git", "tar", "archive", "file" or "stdin"]
  Source,        \* [Contexts -> sequence of [name, type, body], what the source holds
  Dotted         \* the names that contain ".."

Kinds == {"local", "git", "tar", "archive", "file", "stdin"}

Archives == {"tar", "archive"}

IsSequence(s) == s \in Seq({s[i] : i \in DOMAIN s})

ASSUME ContextAssumption ==
  /\ Kind \in [Contexts -> Kinds]
  /\ DOMAIN Source = Contexts
  /\ \A c \in Contexts : IsSequence(Source[c])
  /\ \A c \in Contexts : \A i \in DOMAIN Source[c] :
       IsSequence(Source[c][i].body) /\ Source[c][i].type \in {"file", "dir", "other"}
  /\ \A c \in Contexts : Kind[c] \in {"file", "stdin"} =>
       Len(Source[c]) = 1 /\ Source[c][1].type = "file"

Files == UNION {{Source[c][i].name : i \in DOMAIN Source[c]} : c \in Contexts}

\* The subdirectory of the temporary directory: one for each type of context.
Subdir(c) == CASE Kind[c] = "git" -> "git-context"
               [] Kind[c] = "tar" -> "tar-context"
               [] Kind[c] \in {"archive", "file"} -> "http-context"
               [] Kind[c] = "stdin" -> "stdin-context"
               [] Kind[c] = "local" -> "source"

Subdirs == {"git-context", "tar-context", "http-context", "stdin-context"}

VARIABLES
  dirs,      \* [Subdirs -> the directory, or NoDir]
  phase,     \* [Contexts -> how far its preparation is]
  left,      \* [Contexts -> entries of the source not yet written]
  manager,   \* "open" or "closed"
  disturbed  \* history: contexts that had their directory together with another

contextVars == <<dirs, phase, left, manager, disturbed>>

File(body) == [type |-> "file", body |-> body]
Directory  == [type |-> "dir",  body |-> <<>>]
NoFile     == [type |-> "none", body |-> <<>>]
NoDir      == [exists |-> FALSE, files |-> [f \in Files |-> NoFile]]
EmptyDir   == [exists |-> TRUE,  files |-> [f \in Files |-> NoFile]]

\* os.MkdirAll leaves alone a directory that is there.
Made(dir) == IF dir.exists THEN dir ELSE EmptyDir

(* Mutant: the file is opened with O_APPEND. *)
AppendedTo(old, new) == old \o new

\* os.OpenFile without O_TRUNC: what the new content does not cover stays.
Overlaid(old, new) ==
  [k \in DOMAIN old \cup DOMAIN new |-> IF k \in DOMAIN new THEN new[k] ELSE old[k]]

\* A directory in which a name now is this.
With(dir, f, node) == [exists |-> TRUE, files |-> [dir.files EXCEPT ![f] = node]]

\* An archive's entry is written over what is there, in a directory made if need be;
\* what is neither a file nor a directory is passed over.
Extracted(dir, entry) ==
  CASE entry.type = "dir"   -> With(Made(dir), entry.name, Directory)
    [] entry.type = "file"  -> With(Made(dir), entry.name,
                                    File(Overlaid(dir.files[entry.name].body, entry.body)))
    [] entry.type = "other" -> dir

\* A name is not refused, and not at once a file and a directory.
Fits(dir, entry) ==
  /\ entry.name \notin Dotted
  /\ entry.type = "dir" => dir.files[entry.name].type # "file"
  /\ entry.type = "file" => dir.files[entry.name].type # "dir"

ContextInit ==
  /\ dirs = [s \in Subdirs |-> NoDir]
  /\ phase = [c \in Contexts |-> "new"]
  /\ left = [c \in Contexts |-> Source[c]]
  /\ manager = "open"
  /\ disturbed = {}

Enter(c, p) == phase' = [phase EXCEPT ![c] = p]

(***************************************************************************)
(* PrepareContext.  Every step may fail, and leaves what is there behind.  *)
(***************************************************************************)
\* prepareLocalContext reads the source where it is, if it is a directory.
PrepareLocal(c) ==
  /\ phase[c] = "new" /\ Kind[c] = "local"
  /\ \E p \in {"ready", "failed"} : Enter(c, p)
  /\ UNCHANGED <<dirs, left, manager, disturbed>>

\* The contexts whose directory c's is, in use or left behind by a failure.
Others(c) == {d \in Contexts \ {c} : Subdir(d) = Subdir(c) /\ phase[d] \notin {"new", "closed"}}

\* Contexts of one type use one directory, and find in it what is there.
MakeDirectory(c) ==
  /\ phase[c] = "new" /\ Kind[c] # "local"
  /\ dirs' = [dirs EXCEPT ![Subdir(c)] = Made(@)]
  /\ Enter(c, "made")
  /\ disturbed' = disturbed \cup (IF Others(c) = {} THEN {} ELSE Others(c) \cup {c})
  /\ UNCHANGED <<left, manager>>

\* Cloning is not implemented: a git context always fails here.
CloneRepository(c) ==
  /\ phase[c] = "made" /\ Kind[c] = "git"
  /\ Enter(c, "failed")
  /\ UNCHANGED <<dirs, left, manager, disturbed>>

\* The archive is opened, or the download is answered, or not.
OpenSource(c) ==
  /\ phase[c] = "made" /\ Kind[c] # "git"
  /\ \E p \in {"writing", "failed"} : Enter(c, p)
  /\ UNCHANGED <<dirs, left, manager, disturbed>>

\* extractTarArchive writes the next entry.
ExtractEntry(c) ==
  /\ phase[c] = "writing" /\ Kind[c] \in Archives
  /\ left[c] # <<>>
  /\ Fits(dirs[Subdir(c)], Head(left[c]))
  /\ dirs' = [dirs EXCEPT ![Subdir(c)] = Extracted(@, Head(left[c]))]
  /\ left' = [left EXCEPT ![c] = Tail(@)]
  /\ UNCHANGED <<phase, manager, disturbed>>

\* os.Create empties the one file of a download or of standard input.
SaveFile(c) ==
  /\ phase[c] = "writing" /\ Kind[c] \in {"file", "stdin"}
  /\ left[c] # <<>>
  /\ dirs[Subdir(c)].exists
  /\ LET entry == Head(left[c])
     IN /\ dirs[Subdir(c)].files[entry.name].type # "dir"
        /\ dirs' = [dirs EXCEPT ![Subdir(c)] = With(@, entry.name, File(entry.body))]
  /\ left' = [left EXCEPT ![c] = Tail(@)]
  /\ UNCHANGED <<phase, manager, disturbed>>

\* The source or a write breaks off, or an entry does not fit.
WriteFails(c) ==
  /\ phase[c] = "writing"
  /\ Enter(c, "failed")
  /\ UNCHANGED <<dirs, left, manager, disturbed>>

\* createExcludeFunc cannot read the .dockerignore that came with the source;
\* what comes from standard input has none.
ExcludeFails(c) ==
  /\ phase[c] = "writing" /\ left[c] = <<>> /\ Kind[c] # "stdin"
  /\ Enter(c, "failed")
  /\ UNCHANGED <<dirs, left, manager, disturbed>>

\* The exclude function is made and the context returned.
ReturnContext(c) ==
  /\ phase[c] = "writing" /\ left[c] = <<>>
  /\ Enter(c, "ready")
  /\ UNCHANGED <<dirs, left, manager, disturbed>>

(***************************************************************************)
(* PreparedContext.Close runs the CleanupFunc, which a local context does  *)
(* not have; ContextManager.Close removes the temporary directory.         *)
(***************************************************************************)
(* Mutant: closing a context removes the manager's whole directory. *)
CloseRemovingAll(c) ==
  /\ phase[c] = "ready"
  /\ dirs' = [s \in Subdirs |-> NoDir]
  /\ Enter(c, "closed")
  /\ UNCHANGED <<left, manager, disturbed>>

(* Mutant: a context without a CleanupFunc. *)
CloseKeepingDirectory(c) ==
  /\ phase[c] = "ready"
  /\ Enter(c, "closed")
  /\ UNCHANGED <<dirs, left, manager, disturbed>>

CloseContext(c) ==
  /\ phase[c] = "ready"
  /\ dirs' = [s \in Subdirs |-> IF s = Subdir(c) THEN NoDir ELSE dirs[s]]
  /\ Enter(c, "closed")
  /\ UNCHANGED <<left, manager, disturbed>>

InUse(c) == phase[c] \in {"made", "writing", "ready"}

CloseManager ==
  /\ manager = "open"
  /\ \A c \in Contexts : ~InUse(c)
  /\ dirs' = [s \in Subdirs |-> NoDir]
  /\ manager' = "closed"
  /\ UNCHANGED <<phase, left, disturbed>>

\* The owner closes the manager when its contexts are done with, and nobody
\* starts a context with a manager that is closed.
ContextNext ==
  \/ \E c \in Contexts :
       \/ manager = "open" /\ (PrepareLocal(c) \/ MakeDirectory(c))
       \/ CloneRepository(c) \/ OpenSource(c)
       \/ ExtractEntry(c) \/ SaveFile(c) \/ WriteFails(c)
       \/ ExcludeFails(c) \/ ReturnContext(c)
       \/ CloseContext(c)
  \/ CloseManager

ContextSpec == ContextInit /\ [][ContextNext]_contextVars

-----------------------------------------------------------------------------
ContextTypeOK ==
  /\ \A s \in Subdirs : /\ dirs[s].exists \in BOOLEAN
                        /\ DOMAIN dirs[s].files = Files
                        /\ ~dirs[s].exists => dirs[s] = NoDir
  /\ phase \in [Contexts -> {"new", "made", "writing", "ready", "failed", "closed"}]
  /\ \A c \in Contexts : IsSuffix(left[c], Source[c])
  /\ manager \in {"open", "closed"}
  /\ disturbed \subseteq Contexts

\* What the first n entries of the source make of a name: of a file that comes
\* more than once, each part is that of the last entry long enough to have it.
ContentAfter(c, n, f) ==
  LET of(t) == {i \in 1..n : Source[c][i].name = f /\ Source[c][i].type = t}
      having(k) == {i \in of("file") : k \in DOMAIN Source[c][i].body}
      parts == UNION {DOMAIN Source[c][i].body : i \in of("file")}
  IN  IF of("file") # {} THEN File([k \in parts |-> Source[c][Max(having(k))].body[k]])
      ELSE IF of("dir") # {} THEN Directory
      ELSE NoFile

Content(c, f) == ContentAfter(c, Len(Source[c]), f)

Holds(dir, c) == dir = [exists |-> TRUE, files |-> [f \in Files |-> Content(c, f)]]

Refused(c) ==
  Kind[c] \in Archives /\ \E i \in DOMAIN Source[c] : Source[c][i].name \in Dotted

(* A context that was returned and not yet closed holds the files and       *)
(* directories of its source, none more, none less and none with other      *)
(* content, whatever the manager's other contexts did or failed to do,      *)
(* those of other types before and meanwhile, those of its own type before  *)
(* if they were closed.  A file that comes again in an archive has its      *)
(* last content and, as it is opened without O_TRUNC, what an earlier       *)
(* longer one had beyond that; an entry that is no file or directory is     *)
(* passed over; and no archive with a name that is refused is returned.     *)
ReadyHoldsSource ==
  \A c \in Contexts :
    phase[c] = "ready" /\ Kind[c] # "local" =>
      /\ ~Refused(c)
      /\ c \notin disturbed => Holds(dirs[Subdir(c)], c)
========================================
