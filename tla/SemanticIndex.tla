---------------------------- MODULE SemanticIndex ----------------------------
(***************************************************************************)
(* The lexical index of packages/context and the compiler that searches it *)
(* for every turn.  `index` is asynchronous: it yields before it begins    *)
(* and after some files, and gives up as soon as a newer call has taken    *)
(* the generation.  The compiler of a daemon owns one index for all the    *)
(* workspaces of its Runs, and remembers by workspace what it had indexed. *)
(*                                                                         *)
(* The files of a workspace are a function from some paths, numbered in    *)
(* sorting order, to contents; a content is a pair whose first part is its *)
(* length, all that a fingerprint has of it.  A chunk is a path with its   *)
(* content: how a file is cut, scored and ranked is left out, and a search *)
(* may show any chunk there is.  An index that fails (status "failed")     *)
(* needs a file that is not text, which the walk does not yield.           *)
(***************************************************************************)
EXTENDS Integers, FiniteSets

CONSTANTS Callers,       \* other users of the index: the class is exported
          Workspaces,    \* workspaces of the Runs of this daemon
          Paths,         \* 1 .. n
          Lengths, Texts, \* of a file's content
          Stride,        \* files between two yields: 32 in the code
          MaxRequests    \* bound: calls of index, update, cancel and compile

ASSUME IndexAssumption == Stride \in Nat \ {0} /\ MaxRequests \in Nat /\ Paths \subseteq Nat

TextContents == Lengths \X Texts
FileSets == UNION {[P -> TextContents] : P \in SUBSET Paths}
NoFiles == << >>
Unprinted == {}

VARIABLES indexStatus, generation,
          indexed,     \* `files`: what is searched, once ready
          chunks,
          desired,     \* desiredFiles: the latest requested snapshot
          build,       \* the call of index in flight of each caller
          disk,        \* the files of each workspace, as a walk finds them
          prints,      \* workspaceFingerprints of the compiler
          compile,     \* the compilation under way, and what it was shown
          requests

indexVars == <<indexStatus, generation, indexed, chunks, desired, build, disk, prints,
               compile, requests>>

Compiler == "compiler"
Users == Callers \cup {Compiler}
NoBuild == [pc |-> "idle", gen |-> 0, files |-> NoFiles, done |-> {}]
NoCompile == [pc |-> "idle", workspace |-> CHOOSE w \in Workspaces : TRUE,
              files |-> NoFiles, shown |-> {}]

IndexTypeOK ==
  /\ indexStatus \in {"idle", "indexing", "ready", "unavailable"}
  /\ indexed \in FileSets /\ desired \in FileSets
  /\ \A u \in Users : /\ build[u].pc \in {"idle", "building"}
                      /\ build[u].gen <= generation /\ build[u].done \subseteq Paths
  /\ compile.pc \in {"idle", "indexing", "done"}
  /\ requests \in 0 .. MaxRequests

IndexInit ==
  /\ indexStatus = "idle" /\ generation = 0
  /\ indexed = NoFiles /\ chunks = {} /\ desired = NoFiles
  /\ build = [u \in Users |-> NoBuild]
  /\ disk \in [Workspaces -> {[p \in Paths |-> c] : c \in TextContents}]
  /\ prints = [w \in Workspaces |-> Unprinted]
  /\ compile = NoCompile /\ requests = 0

-----------------------------------------------------------------------------
(* toChunks *)
Chunks(files, paths) == {<<p, files[p]>> : p \in paths}

Request == requests < MaxRequests /\ requests' = requests + 1

(* index, up to its first await; without a build of its own in flight *)
StartIndex(u, files) ==
  /\ build[u].pc = "idle"
  /\ desired' = files
  /\ generation' = generation + 1
  /\ indexStatus' = "indexing"
  /\ build' = [build EXCEPT ![u] =
       [pc |-> "building", gen |-> generation + 1, files |-> files, done |-> {}]]
  /\ UNCHANGED <<indexed, chunks>>

(* Mutant of Superseded: a call does not look whether it is the latest. *)
MutantSuperseded(u) == build[u].gen < 0

Superseded(u) == build[u].gen # generation

(* The paths of the next stretch of the loop: up to the next yield *)
Stretch(u) ==
  LET left == DOMAIN build[u].files \ build[u].done
      took == Cardinality(build[u].done)
      room == IF took = 0 THEN Stride + 1 ELSE Stride
  IN {p \in left : Cardinality({q \in left : q < p}) < room}

(* One stretch; it ends in a yield, or the index is replaced.  A yield after *)
(* the last file changes nothing but when the generation is looked at.       *)
BuildYields(u) ==
  /\ build[u].pc = "building" /\ ~Superseded(u)
  /\ build[u].done \cup Stretch(u) # DOMAIN build[u].files
  /\ build' = [build EXCEPT ![u].done = @ \cup Stretch(u)]
  /\ UNCHANGED <<indexStatus, generation, indexed, chunks, desired, disk, prints,
                 compile, requests>>

BuildEnds(u) ==
  /\ build[u].pc = "building" /\ ~Superseded(u)
  /\ build[u].done \cup Stretch(u) = DOMAIN build[u].files
  /\ indexed' = build[u].files
  /\ chunks' = Chunks(build[u].files, DOMAIN build[u].files)
  /\ indexStatus' = "ready"
  /\ build' = [build EXCEPT ![u] = NoBuild]
  /\ UNCHANGED <<generation, desired, disk, prints, compile, requests>>

BuildGivesUp(u) ==
  /\ build[u].pc = "building" /\ Superseded(u)
  /\ build' = [build EXCEPT ![u] = NoBuild]
  /\ UNCHANGED <<indexStatus, generation, indexed, chunks, desired, disk, prints,
                 compile, requests>>

-----------------------------------------------------------------------------
Others == UNCHANGED <<disk, prints, compile>>

IndexFiles(u, files) == Request /\ StartIndex(u, files) /\ Others

(* update: on top of the latest request, which need not be indexed yet *)
Updated(file, removed) ==
  [p \in (DOMAIN desired \ {removed}) \cup DOMAIN file |->
     IF p \in DOMAIN file THEN file[p] ELSE desired[p]]

UpdateFiles(u, file, removed) ==
  Request /\ StartIndex(u, Updated(file, removed)) /\ Others

(* markUnavailable and cancel *)
Withdraw(to) ==
  /\ Request
  /\ generation' = generation + 1 /\ indexStatus' = to
  /\ UNCHANGED <<indexed, chunks, desired, build>> /\ Others

-----------------------------------------------------------------------------
(* A user or a tool writes a file of a workspace *)
WriteFile(w, p, content) ==
  /\ Request
  /\ disk' = [disk EXCEPT ![w] = [@ EXCEPT ![p] = content]]
  /\ UNCHANGED <<indexStatus, generation, indexed, chunks, desired, build, prints, compile>>

Fingerprint(files) == {<<p, files[p][1]>> : p \in DOMAIN files}

(* search *)
Search == IF indexStatus = "ready" THEN chunks ELSE {}

(* readWorkspace and searchSemanticIndex: what is known to be indexed is    *)
(* searched at once                                                         *)
CompileCached(w) ==
  /\ compile.pc # "indexing" /\ Request
  /\ prints[w] = Fingerprint(disk[w])
  /\ compile' = [pc |-> "done", workspace |-> w, files |-> disk[w], shown |-> Search]
  /\ UNCHANGED <<indexStatus, generation, indexed, chunks, desired, build, disk, prints>>

CompileIndexes(w) ==
  /\ compile.pc # "indexing" /\ Request
  /\ prints[w] # Fingerprint(disk[w])
  /\ compile' = [pc |-> "indexing", workspace |-> w, files |-> disk[w], shown |-> {}]
  /\ StartIndex(Compiler, disk[w])
  /\ UNCHANGED <<disk, prints>>

(* After the await, however the index ended *)
CompileSearches ==
  /\ compile.pc = "indexing" /\ build[Compiler].pc = "idle"
  /\ prints' = [prints EXCEPT ![compile.workspace] = Fingerprint(compile.files)]
  /\ compile' = [compile EXCEPT !.pc = "done", !.shown = Search]
  /\ UNCHANGED <<indexStatus, generation, indexed, chunks, desired, build, disk, requests>>

IndexNext ==
  \/ \E u \in Users : BuildYields(u) \/ BuildEnds(u) \/ BuildGivesUp(u)
  \/ \E u \in Callers :
       \/ \E files \in FileSets : IndexFiles(u, files)
       \/ \E P \in {{}} \cup {{p} : p \in Paths}, removed \in Paths \cup {0} :
            \E file \in [P -> TextContents] : UpdateFiles(u, file, removed)
  \/ Callers # {} /\ (Withdraw("idle") \/ Withdraw("unavailable"))
  \/ \E w \in Workspaces :
       \/ \E p \in Paths, c \in TextContents : WriteFile(w, p, c)
       \/ CompileCached(w) \/ CompileIndexes(w)
  \/ CompileSearches

IndexSpec == IndexInit /\ [][IndexNext]_indexVars

-----------------------------------------------------------------------------
(* An index that is ready is of the latest snapshot anybody asked for, and  *)
(* an index that says it is being built has a build that will make it so,   *)
(* although calls overtake each other and yield half way (`index`,          *)
(* `update`, `cancel`).                                                     *)
IndexIsCurrent ==
  /\ indexStatus = "ready" =>
       indexed = desired /\ chunks = Chunks(desired, DOMAIN desired)
  /\ indexStatus = "indexing" =>
       \E u \in Users : build[u].pc = "building" /\ ~Superseded(u)
                          /\ build[u].files = desired

(* What a turn is shown as relevant code is code of the workspace of its    *)
(* Run: the compiler reads the checked-out workspace and inherits nothing.  *)
MatchesAreOfWorkspace ==
  compile.pc = "done" => compile.shown \subseteq Chunks(compile.files, DOMAIN compile.files)
=============================================================================
