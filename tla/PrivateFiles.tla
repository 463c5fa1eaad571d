---------------------------- MODULE PrivateFiles -----------------------------
(***************************************************************************)
(* Opening the database and a pane's log.                                  *)
(*                                                                         *)
(* Both files are prepared by the same protocol before a program that      *)
(* opens by name gets their path: look at the path, open or create it,     *)
(* check that the path still names what was opened, repair the mode, check *)
(* again.  Several daemons may do this to one missing database at a time,  *)
(* and the file may be removed or replaced between any two steps.  SQLite  *)
(* then opens the database by its path; the shell at the end of tmux's     *)
(* pipe opens the log by its path and compares it with the prepared file.  *)
(***************************************************************************)
EXTENDS Integers, FiniteSets

CONSTANTS
  DbOpeners,      \* daemons that run Store::open on one database
  LogOpeners,     \* calls of pipe_pane for one pane
  CreateRetries,  \* lost creations the database's protocol forgives: 8
  MaxSwaps        \* bound: removals and replacements by others

ASSUME FilesAssumption ==
  /\ CreateRetries \in Nat \ {0} /\ MaxSwaps \in Nat
  /\ DbOpeners \cap LogOpeners = {}

VARIABLES
  named,    \* what each path names: 0, or the number of a file
  inode,    \* each file made so far: "private", "loose" (mode) or "foreign"
  opener,   \* each opener: its step, the file it saw, the file it opened
  swaps     \* removals and replacements so far

fileVars == <<named, inode, opener, swaps>>

Openers == DbOpeners \cup LogOpeners
PathOf(o) == IF o \in DbOpeners THEN "db" ELSE "log"
FileCount == Cardinality(DOMAIN inode)
NotYet == [at |-> "look", saw |-> 0, fd |-> 0, lost |-> 0]

\* The variables stay within their types.
FilesTypeOK ==
  /\ named \in [{"db", "log"} -> 0..FileCount]
  /\ \A f \in DOMAIN inode: inode[f] \in {"private", "loose", "foreign"}
  /\ \A o \in Openers:
       /\ opener[o].at \in {"look", "open", "check", "repair", "ready", "in",
                            "confirmed", "refused"}
       /\ {opener[o].saw, opener[o].fd} \subseteq 0..FileCount
       /\ opener[o].lost \in 0..CreateRetries
  /\ swaps \in 0..MaxSwaps

\* Nothing there yet, or what an earlier run left.
FilesInit ==
  /\ \E db, log \in {"none", "private", "loose", "foreign"}:
       /\ inode = [f \in (IF db = "none" THEN {} ELSE {1})
                           \cup (IF log = "none" THEN {} ELSE {2}) |->
                     IF f = 1 THEN db ELSE log]
       /\ db = "none" => log = "none"
       /\ named = [p \in {"db", "log"} |->
                     IF p = "db" THEN (IF db = "none" THEN 0 ELSE 1)
                     ELSE IF log = "none" THEN 0 ELSE 2]
  /\ opener = [o \in Openers |-> NotYet] /\ swaps = 0

Is(o, at) == opener[o].at = at
Path(o) == named[PathOf(o)]
Ours(f) == inode[f] # "foreign"
OpenerTo(o, at) == opener' = [opener EXCEPT ![o].at = at]
NewFile(p, kind) ==
  /\ inode' = [f \in 1..(FileCount + 1) |->
                 IF f \in DOMAIN inode THEN inode[f] ELSE kind]
  /\ named' = [named EXCEPT ![p] = FileCount + 1]

-----------------------------------------------------------------------------
(* Preparing                                                               *)

\* The first lstat; the parent directory has been made and verified.
LookAt(o) ==
  /\ Is(o, "look")
  /\ IF Path(o) # 0 /\ ~Ours(Path(o)) THEN OpenerTo(o, "refused")
     ELSE opener' = [opener EXCEPT ![o].at = "open", ![o].saw = Path(o)]
  /\ UNCHANGED <<named, inode, swaps>>

\* create_new when nothing was there.  Whoever loses the race to create the
\* database looks again; for a log it is an error.
CreateFile(o) ==
  /\ Is(o, "open") /\ opener[o].saw = 0
  /\ \/ /\ Path(o) = 0 /\ NewFile(PathOf(o), "private")
        /\ opener' = [opener EXCEPT ![o].at = "check",
                                    ![o].fd = FileCount + 1]
     \/ /\ Path(o) # 0 /\ UNCHANGED <<named, inode>>
        /\ IF o \in DbOpeners /\ opener[o].lost < CreateRetries
           THEN opener' = [opener EXCEPT ![o].at = "look", ![o].lost = @ + 1]
           ELSE OpenerTo(o, "refused")
  /\ UNCHANGED swaps

\* What was there is opened, and must be what was seen.
OpenFile(o) ==
  /\ Is(o, "open") /\ opener[o].saw # 0
  /\ IF Path(o) = opener[o].saw
     THEN opener' = [opener EXCEPT ![o].at = "check", ![o].fd = Path(o)]
     ELSE OpenerTo(o, "refused")
  /\ UNCHANGED <<named, inode, swaps>>

CheckPath(o) ==
  /\ Is(o, "check")
  /\ OpenerTo(o, IF Path(o) = opener[o].fd THEN "repair" ELSE "refused")
  /\ UNCHANGED <<named, inode, swaps>>

\* fchmod of the open file, and the path must still name it.
RepairMode(o) ==
  /\ Is(o, "repair")
  /\ inode' = [inode EXCEPT ![opener[o].fd] = "private"]
  /\ OpenerTo(o, IF Path(o) = opener[o].fd THEN "ready" ELSE "refused")
  /\ UNCHANGED <<named, swaps>>

\* The database's protocol and the log's, after the directory of each.
DatabaseLooks(o) == o \in DbOpeners /\ LookAt(o)
LogLooks(o) == o \in LogOpeners /\ LookAt(o)

DatabaseStep(o) ==
  /\ o \in DbOpeners
  /\ CreateFile(o) \/ OpenFile(o) \/ CheckPath(o) \/ RepairMode(o)

LogStep(o) ==
  /\ o \in LogOpeners
  /\ CreateFile(o) \/ OpenFile(o) \/ CheckPath(o) \/ RepairMode(o)

-----------------------------------------------------------------------------
(* Using                                                                   *)

\* SQLite opens the path, and never creates it.
SqliteOpens(o) ==
  /\ o \in DbOpeners /\ Is(o, "ready")
  /\ IF Path(o) = 0 \/ ~Ours(Path(o)) THEN OpenerTo(o, "refused")
     ELSE opener' = [opener EXCEPT ![o].at = "in", ![o].fd = Path(o)]
  /\ UNCHANGED <<named, inode, swaps>>

\* secure_database_files after connecting and after the migrations: the file
\* at the path is checked and repaired, or the pool is closed.
Revalidate(o) ==
  /\ o \in DbOpeners /\ Is(o, "in")
  /\ IF Path(o) # 0 /\ Ours(Path(o))
     THEN /\ OpenerTo(o, "confirmed")
          /\ inode' = [inode EXCEPT ![Path(o)] = "private"]
     ELSE OpenerTo(o, "refused") /\ UNCHANGED inode
  /\ UNCHANGED <<named, swaps>>

\* The pipe's shell compares the path with the prepared identity and mode
\* before it copies anything.
SinkStarts(o) ==
  /\ o \in LogOpeners /\ Is(o, "ready")
  /\ OpenerTo(o, IF Path(o) = opener[o].fd /\ inode[Path(o)] = "private"
                 THEN "confirmed" ELSE "refused")
  /\ UNCHANGED <<named, inode, swaps>>

\* Somebody removes a file, replaces it or widens its mode.
SwapFile ==
  /\ swaps < MaxSwaps /\ swaps' = swaps + 1
  /\ \E p \in {"db", "log"}:
       \/ /\ named[p] # 0 /\ named' = [named EXCEPT ![p] = 0]
          /\ UNCHANGED inode
       \/ \E kind \in {"loose", "foreign"}: NewFile(p, kind)
       \/ /\ named[p] # 0 /\ Ours(named[p])
          /\ inode' = [inode EXCEPT ![named[p]] = "loose"]
          /\ UNCHANGED named
  /\ UNCHANGED opener

FilesNext ==
  \/ SwapFile
  \/ \E o \in Openers:
       \/ DatabaseLooks(o) \/ DatabaseStep(o) \/ SqliteOpens(o) \/ Revalidate(o)
       \/ LogLooks(o) \/ LogStep(o) \/ SinkStarts(o)

FilesSpec == FilesInit /\ [][FilesNext]_fileVars

-----------------------------------------------------------------------------
(* Properties                                                              *)

\* Daemons that start together on one database all come up, on one file: as
\* long as nobody else touches the path, none of them is refused for a file
\* that is ours, and all that are in use the same one (store lib.rs
\* secure_database_file's lost creations, open).
DaemonsShareDatabase ==
  swaps = 0 /\ (named["db"] # 0 => Ours(named["db"])) =>
    \A o, p \in DbOpeners:
      /\ ~Is(o, "refused")
      /\ Is(o, "confirmed") /\ Is(p, "confirmed") => opener[o].fd = opener[p].fd
=============================================================================
