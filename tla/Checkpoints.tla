----------------------------- MODULE Checkpoints -----------------------------
(***************************************************************************)
(* Milestone checkpoints and delegated worktrees of one Run.  A turn of a  *)
(* delegated Agent works in a Git worktree of its own, provisioned on its  *)
(* first turn; a turn that completed a Task captures its workspace under   *)
(* the private ref of the next sequence number and then records the row;   *)
(* the server restores a recorded ref into the primary workspace while the *)
(* Run is paused.  Git works outside the store's transactions, so a crash, *)
(* a lost lease, a pause or a resume may fall between any two of its steps.*)
(*                                                                         *)
(* The files of a workspace are a number, new for each edit; "partial" are *)
(* the files between `git clean` and `git checkout-index`.  Worktrees share *)
(* the repository's refs.  The index, which is captured and restored next  *)
(* to the files, goes the same way as they do and is left out.             *)
(***************************************************************************)
EXTENDS Integers, Sequences

CONSTANTS CpExecutors, CpClients,
          Helpers,      \* delegated Agents; the coordinator is Chief
          MaxEdits,     \* bound: edits of any workspace
          MaxCpTurns    \* bound: turns of the Run

ASSUME CheckpointAssumption ==
  /\ MaxEdits \in Nat /\ MaxCpTurns \in Nat
  /\ {"primary", "partial", "none"} \cap Helpers = {}

Chief == "primary"        \* the coordinator Agent, and where it works
Unset == -1               \* no such ref
HeadFiles == 0            \* the files of the HEAD commit
Partial == -2
Places == Helpers \cup {Chief}

VARIABLES files,      \* the files of each workspace
          refs,       \* refs/ottili/coder/<run>/checkpoint/<n>
          rows,       \* the checkpoints table, in sequence order
          registered, \* Helpers whose worktree Git lists
          recorded,   \* Helpers whose worktreeUri the store holds
          cpStatus,   \* the Run: running or paused
          seat,       \* the turn of each executor
          ask,        \* the restore request of each client
          restored,   \* checkpoint.restored events: the row of each
          edits, turnsBegun

cpVars == <<files, refs, rows, registered, recorded, cpStatus, seat, ask,
            restored, edits, turnsBegun>>

EmptySeat == [pc |-> "idle", gen |-> 0, agent |-> Chief, place |-> Chief,
              seq |-> 0, snap |-> Unset, beside |-> Unset]
NoAsk == [pc |-> "idle", row |-> 0, pre |-> Unset]
Contents == {Partial, Unset} \cup 0 .. MaxEdits
Sequence == 1 .. MaxCpTurns

CpTypeOK ==
  /\ files \in [Places -> Contents]
  /\ refs \in [Sequence -> Contents]
  /\ rows \in Seq([ref : Sequence, snap : Contents, beside : Contents])
  /\ recorded \subseteq registered /\ registered \subseteq Helpers
  /\ cpStatus \in {"running", "paused"}
  /\ \A e \in CpExecutors :
       /\ seat[e].pc \in {"idle", "provision", "record", "work", "count",
                          "capture", "publish", "row"}
       /\ seat[e].place \in Places
  /\ \A c \in CpClients :
       /\ ask[c].pc \in {"idle", "backup", "clean", "checkout", "note"}
       /\ ask[c].pc # "idle" => ask[c].row \in DOMAIN rows
  /\ restored \subseteq DOMAIN rows

CpInit ==
  /\ files = [p \in Places |-> HeadFiles]
  /\ refs = [n \in Sequence |-> Unset]
  /\ rows = << >> /\ restored = {}
  /\ registered = {} /\ recorded = {}
  /\ cpStatus = "running"
  /\ seat = [e \in CpExecutors |-> EmptySeat]
  /\ ask = [c \in CpClients |-> NoAsk]
  /\ edits = 0 /\ turnsBegun = 0

-----------------------------------------------------------------------------
Seated(e, pc) == seat[e].pc = pc
Move(e, pc) == seat' = [seat EXCEPT ![e].pc = pc]
Leave(e) == seat' = [seat EXCEPT ![e] = EmptySeat]
HasLease(e) == seat[e].gen = turnsBegun
OnlySeat == UNCHANGED <<files, refs, rows, registered, recorded, cpStatus,
                        ask, restored, edits, turnsBegun>>

(* A turn begins under a newer lease; ensureAgentWorktree: the coordinator  *)
(* and an Agent with a recorded worktree go straight to it                  *)
BeginsTurn(e, a) ==
  /\ Seated(e, "idle") /\ cpStatus = "running" /\ turnsBegun < MaxCpTurns
  /\ turnsBegun' = turnsBegun + 1
  /\ LET ready == a = Chief \/ a \in recorded
     IN  seat' = [seat EXCEPT ![e] = [EmptySeat EXCEPT
           !.pc = IF ready THEN "work" ELSE "provision",
           !.gen = turnsBegun + 1, !.agent = a, !.place = IF ready THEN a ELSE Chief]]
  /\ UNCHANGED <<files, refs, rows, registered, recorded, cpStatus, ask,
                 restored, edits>>

(* WorktreeManager.find and create: a worktree Git lists already is used as *)
(* it is, otherwise one is added, detached at HEAD                          *)
WithWorktree(a) ==
  IF a \in registered THEN files ELSE [files EXCEPT ![a] = HeadFiles]

(* GitWorktreeProvisioner.provision, at the path of this Agent *)
Provision(e) ==
  LET a == seat[e].agent IN
  /\ Seated(e, "provision")
  /\ files' = WithWorktree(a)
  /\ registered' = registered \cup {a}
  /\ Move(e, "record")
  /\ UNCHANGED <<refs, rows, recorded, cpStatus, ask, restored, edits, turnsBegun>>

(* Git cannot add it: the failure is an event, the turn works in primary *)
ProvisionFails(e) ==
  /\ Seated(e, "provision") /\ HasLease(e)
  /\ Move(e, "work") /\ OnlySeat

(* setAgentWorktree, under the lease *)
RecordWorktree(e) ==
  /\ Seated(e, "record") /\ HasLease(e)
  /\ recorded' = recorded \cup {seat[e].agent}
  /\ seat' = [seat EXCEPT ![e].pc = "work", ![e].place = seat[e].agent]
  /\ UNCHANGED <<files, refs, rows, registered, cpStatus, ask, restored, edits,
                 turnsBegun>>

(* A tool of the turn writes; what is under way is not fenced *)
EditFiles(e) ==
  /\ Seated(e, "work") /\ edits < MaxEdits
  /\ edits' = edits + 1
  /\ files' = [files EXCEPT ![seat[e].place] = edits + 1]
  /\ UNCHANGED <<refs, rows, registered, recorded, cpStatus, seat, ask,
                 restored, turnsBegun>>

(* The turn ends without a completed Task, or with one *)
NothingToKeep(e) == Seated(e, "work") /\ HasLease(e) /\ Leave(e) /\ OnlySeat
TaskCompleted(e) == Seated(e, "work") /\ HasLease(e) /\ Move(e, "count") /\ OnlySeat

(* createMilestoneCheckpoint: the next number is read outside the           *)
(* transaction that will number the row                                     *)
CountRows(e) ==
  /\ Seated(e, "count") /\ Len(rows) < MaxCpTurns
  /\ seat' = [seat EXCEPT ![e].pc = "capture", ![e].seq = Len(rows) + 1]
  /\ OnlySeat

(* captureWorkspaceSnapshot: the tree is written, then the ref is created *)
WriteTree(e) ==
  /\ Seated(e, "capture")
  /\ seat' = [seat EXCEPT ![e].pc = "publish", ![e].snap = files[seat[e].place],
                          ![e].beside = files[Chief]]
  /\ OnlySeat

(* Mutant of UpdateRef: an existing ref is overwritten. *)
MutantUpdateRef(e) ==
  /\ Seated(e, "publish")
  /\ refs' = [refs EXCEPT ![seat[e].seq] = seat[e].snap]
  /\ Move(e, "row")
  /\ UNCHANGED <<files, rows, registered, recorded, cpStatus, ask, restored,
                 edits, turnsBegun>>

UpdateRef(e) ==
  /\ Seated(e, "publish") /\ refs[seat[e].seq] = Unset
  /\ refs' = [refs EXCEPT ![seat[e].seq] = seat[e].snap]
  /\ Move(e, "row")
  /\ UNCHANGED <<files, rows, registered, recorded, cpStatus, ask, restored,
                 edits, turnsBegun>>
RefExists(e) ==
  /\ Seated(e, "publish") /\ HasLease(e) /\ refs[seat[e].seq] # Unset
  /\ Leave(e) /\ OnlySeat

(* createCheckpoint numbers the row itself, under the lease *)
RecordRow(e) ==
  /\ Seated(e, "row") /\ HasLease(e)
  /\ rows' = Append(rows, [ref |-> seat[e].seq, snap |-> seat[e].snap,
                           beside |-> seat[e].beside])
  /\ Leave(e)
  /\ UNCHANGED <<files, refs, registered, recorded, cpStatus, ask, restored,
                 edits, turnsBegun>>

(* A crash, an abort, or a write that meets the newer lease *)
TurnDropped(e) == ~Seated(e, "idle") /\ Leave(e) /\ OnlySeat

-----------------------------------------------------------------------------
OnlyAsk == UNCHANGED <<files, refs, rows, registered, recorded, cpStatus,
                       seat, restored, edits, turnsBegun>>

(* POST .../restore: the status is checked before the files are touched *)
AskRestore(c, i) ==
  /\ ask[c].pc = "idle" /\ cpStatus = "paused"
  /\ ask' = [ask EXCEPT ![c] = [pc |-> "backup", row |-> i, pre |-> Unset]]
  /\ OnlyAsk

(* The pre-restore backup goes to a ref of its own *)
BackUp(c) ==
  /\ ask[c].pc = "backup"
  /\ ask' = [ask EXCEPT ![c].pc = "clean", ![c].pre = files[Chief]]
  /\ OnlyAsk

(* restoreWorkspaceSnapshot: read-tree and clean, then checkout-index; it   *)
(* is refused when it would overwrite an ignored file, and Git may fail     *)
(* halfway, which leaves the files as they are then                         *)
RestoreRefused(c) ==
  /\ ask[c].pc \in {"backup", "clean", "checkout"}
  /\ ask' = [ask EXCEPT ![c] = NoAsk]
  /\ OnlyAsk
SnapshotOf(row) == refs[row.ref]    \* readCheckpointSnapshot
CleanFiles(c) ==
  /\ ask[c].pc = "clean"
  /\ files' = [files EXCEPT ![Chief] = Partial]
  /\ ask' = [ask EXCEPT ![c].pc = "checkout"]
  /\ UNCHANGED <<refs, rows, registered, recorded, cpStatus, seat, restored,
                 edits, turnsBegun>>
CheckoutFiles(c) ==
  /\ ask[c].pc = "checkout"
  /\ files' = [files EXCEPT ![Chief] = SnapshotOf(rows[ask[c].row])]
  /\ ask' = [ask EXCEPT ![c].pc = "note"]
  /\ UNCHANGED <<refs, rows, registered, recorded, cpStatus, seat, restored,
                 edits, turnsBegun>>

(* recordCheckpointRestore asserts the status again, or the request fails *)
NoteRestore(c) ==
  /\ ask[c].pc = "note"
  /\ restored' = IF cpStatus = "paused" THEN restored \cup {ask[c].row} ELSE restored
  /\ ask' = [ask EXCEPT ![c] = NoAsk]
  /\ UNCHANGED <<files, refs, rows, registered, recorded, cpStatus, seat, edits,
                 turnsBegun>>

PauseOrResume ==
  /\ cpStatus' = IF cpStatus = "running" THEN "paused" ELSE "running"
  /\ UNCHANGED <<files, refs, rows, registered, recorded, seat, ask, restored,
                 edits, turnsBegun>>

CpNext ==
  \/ \E e \in CpExecutors :
       \/ \E a \in Places : BeginsTurn(e, a)
       \/ Provision(e) \/ ProvisionFails(e) \/ RecordWorktree(e) \/ EditFiles(e)
       \/ NothingToKeep(e) \/ TaskCompleted(e) \/ CountRows(e) \/ WriteTree(e)
       \/ UpdateRef(e) \/ RefExists(e) \/ RecordRow(e) \/ TurnDropped(e)
  \/ \E c \in CpClients :
       \/ \E i \in DOMAIN rows : AskRestore(c, i)
       \/ BackUp(c) \/ RestoreRefused(c) \/ CleanFiles(c) \/ CheckoutFiles(c)
       \/ NoteRestore(c)
  \/ PauseOrResume

CpSpec == CpInit /\ [][CpNext]_cpVars

-----------------------------------------------------------------------------
(* Every recorded checkpoint can be restored as captured: row n names ref n, *)
(* and that ref still holds the files of the capture, although the number  *)
(* is read before the capture is awaited and the ref is created outside    *)
(* the store's transaction.                                                *)
CheckpointIsAsCaptured ==
  \A n \in DOMAIN rows : rows[n].ref = n /\ refs[n] = rows[n].snap

(* A restore gets the files of the primary workspace back to how they were  *)
(* when the checkpoint was captured.                                        *)
RestoreBringsFilesBack == \A n \in restored : rows[n].snap = rows[n].beside
=============================================================================
