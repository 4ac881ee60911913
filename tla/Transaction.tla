---------------------------- MODULE Transaction ----------------------------
(***************************************************************************)
(* The file transaction of crates/cli/src/transaction.rs: the workspace    *)
(* lock, commit (journal every original, replace the sources one by one,   *)
(* verify, mark the journal complete), rollback and recover, run by        *)
(* processes that can be killed, that share the sources with an editor and *)
(* whose machine can lose power.                                           *)
(*                                                                         *)
(* The file system has two levels.  src and jr are what a process reads;   *)
(* srcD and jrD are what a power loss may leave behind.  A write adds to   *)
(* the second, the fsync of the directory that holds the entry reduces it  *)
(* to what is read now.  File data is fsynced before it is renamed in      *)
(* place (atomic_bytes), so an entry is never seen with partial data.      *)
(***************************************************************************)
EXTENDS Naturals, FiniteSets

CONSTANTS
    Procs, NoProc,      \* invocations of the tool; no invocation
    Files,              \* snapshot files, numbered in the order BTreeMap keeps
    Contents,           \* contents of a file (absent is one of them, for an editor)
    Fix,                \* the content the verified candidate gives for a content
    Protected,          \* files commit refuses to replace (hard links, not .rs)
    Txns, NoTxn,        \* names of journal directories; no directory
    Saves,              \* contents the editor saves
    Env,                \* what the environment may do or be, see below
    MaxSaves, MaxFaults \* bounds on editor saves and on faults

(***************************************************************************)
(* "race": the editor may save a source between the read that checks it    *)
(* and the rename that replaces it.  "io": a file-system call or the final *)
(* check fails.  "commitSync": the fsync that follows the rename of the    *)
(* complete journal fails.  "signal": SIGINT (ctrl-c).    "kill": the      *)
(* process dies, the machine stays up.  "power": the machine goes down.    *)
(* "unrooted": the entry of .statement-spacing in the workspace root, which *)
(* workspace_lock makes and nothing fsyncs, is not on disk yet: the first  *)
(* run in a workspace.                                                     *)
(***************************************************************************)
EnvKinds == {"race", "io", "commitSync", "signal", "kill", "power", "unrooted"}
Rooted == "unrooted" \notin Env

ASSUME FilesAssumption == Files \subseteq Nat /\ IsFiniteSet(Files)
ASSUME NoProcAssumption == NoProc \notin Procs
ASSUME NoTxnAssumption == NoTxn \notin Txns
\* The second lint of the candidate must find nothing left to change.
ASSUME FixAssumption ==
    /\ Fix \in [Contents -> Contents]
    /\ \A c \in Contents : Fix[Fix[c]] = Fix[c]
ASSUME EnvAssumption ==
    /\ Protected \subseteq Files
    /\ Saves \subseteq Contents
    /\ Env \subseteq EnvKinds
    /\ MaxSaves \in Nat /\ MaxFaults \in Nat

VARIABLES
    src, srcD,      \* source files: content read, contents that may be on disk
    jr, jrD,        \* journal directories: what is read, what may be on disk
    anchored,       \* every entry on the path to transactions/ is on disk
    lock,           \* the process that holds the flock on .statement-spacing/lock
    run,            \* each process: where it is and its local variables
    before,         \* each transaction: the snapshot it started from
    user, dirty,    \* history: the editor's last save, files saved since then
    last,           \* history: the transaction that started last
    saves, faults   \* bounds: editor saves and faults so far

fs   == <<src, srcD, jr, jrD, anchored>>
hist == <<user, dirty, last>>
bnds == <<saves, faults>>
vars == <<fs, lock, run, before, hist, bnds>>

-----------------------------------------------------------------------------
(* Journal directories.                                                    *)

Phases == {"none", "prepared", "complete"}   \* "none": no journal.json
Image  == [dir : BOOLEAN, phase : Phases, backups : SUBSET Files]
Nothing == [dir |-> FALSE, phase |-> "none", backups |-> {}]

\* What the journal's entries record: path and after of each changed file.
After(t, f) == Fix[before[t][f]]
Changed(t)  == {f \in Files : After(t, f) # before[t][f]}

Visible == {t \in Txns : jr[t].dir}

\* An entry is added to or removed from a journal directory; until an fsync
\* any image that may be on disk may or may not show the change.
PutBackup(t, f) ==
    /\ jr' = [jr EXCEPT ![t].backups = @ \cup {f}]
    /\ jrD' = [jrD EXCEPT ![t] =
                 @ \cup {[i EXCEPT !.backups = @ \cup {f}] : i \in jrD[t]}]
DropBackup(t, f) ==
    /\ jr' = [jr EXCEPT ![t].backups = @ \ {f}]
    /\ jrD' = [jrD EXCEPT ![t] =
                 @ \cup {[i EXCEPT !.backups = @ \ {f}] : i \in jrD[t]}]
PutPhase(t, phase) ==
    /\ jr' = [jr EXCEPT ![t].phase = phase]
    /\ jrD' = [jrD EXCEPT ![t] =
                 @ \cup {[i EXCEPT !.phase = phase] : i \in jrD[t]}]
PutDir(t, there) ==
    /\ jr' = [jr EXCEPT ![t].dir = there]
    /\ jrD' = [jrD EXCEPT ![t] =
                 @ \cup {[i EXCEPT !.dir = there] : i \in jrD[t]}]

\* fsync_dir(journal_dir) and fsync_dir(transactions).
SyncDir(t) ==
    /\ jrD' = [jrD EXCEPT ![t] =
                 {i \in @ : i.phase = jr[t].phase /\ i.backups = jr[t].backups}]
    /\ UNCHANGED jr
SyncList ==
    /\ jrD' = [t \in Txns |-> IF jr[t].dir THEN {i \in jrD[t] : i.dir} ELSE {jr[t]}]
    /\ UNCHANGED jr

\* atomic_bytes on a source: the rename, then fsync_dir of its directory.
PutSource(f, c) ==
    /\ src' = [src EXCEPT ![f] = c]
    /\ srcD' = [srcD EXCEPT ![f] = @ \cup {c}]
SyncSource(f) ==
    /\ srcD' = [srcD EXCEPT ![f] = {src[f]}]
    /\ UNCHANGED src

-----------------------------------------------------------------------------
(* Processes.                                                              *)

\* A run of commit: before any write, while the journal is prepared, while
\* the sources are replaced; rollback; the removal of a journal directory.
Opening   == {"open", "assert"}
Preparing == {"backup", "backupSync", "journalSync", "listSync", "rootSync"}
Replacing == {"check", "rename", "sync", "final", "verify", "complete", "completeSync"}
Restoring == {"restore", "restoreRename", "restoreSync"}
Removing  == {"remove", "removeSync"}
Labels == {"idle", "list"} \cup Opening \cup Preparing \cup Replacing
            \cup Restoring \cup Removing

Commands == {"fix", "recover"}
Outcomes == {"none", "fixed", "failed", "restored"}

Idle == [pc |-> "idle", cmd |-> "fix", txn |-> NoTxn, todo |-> {},
         conflicts |-> {}, interrupted |-> FALSE, outcome |-> "none"]

Goto(p, label) == run' = [run EXCEPT ![p].pc = label]
\* A loop over the files of S starts, or goes on, at label.
Loop(p, label, S) == run' = [run EXCEPT ![p].pc = label, ![p].todo = S]

\* The process ends; its locals and its flock go with it.
Return(p) ==
    /\ run' = [run EXCEPT ![p] = Idle]
    /\ lock' = NoProc

\* Mutant: an error of the replacement closure is not rolled back.
OnErrorNoRollback(p) ==
    \/ /\ run[p].pc \in Preparing \cup Replacing
       /\ run' = [run EXCEPT ![p].pc = "remove", ![p].outcome = "failed"]
       /\ UNCHANGED lock
    \/ /\ run[p].pc \notin Preparing \cup Replacing
       /\ Return(p)

\* An error: preparation removes the journal directory, the replacement
\* closure is rolled back, anything else is returned to the caller.
OnError(p) ==
    LET t == run[p].txn IN
    \/ /\ run[p].pc \in Preparing
       /\ run' = [run EXCEPT ![p].pc = "remove", ![p].outcome = "failed"]
       /\ UNCHANGED lock
    \/ /\ run[p].pc \in Replacing
       /\ run' = [run EXCEPT ![p].pc = "restore", ![p].todo = Changed(t),
                             ![p].outcome = "failed"]
       /\ UNCHANGED lock
    \/ /\ run[p].pc \notin Preparing \cup Replacing
       /\ Return(p)

Interrupted(p) == run[p].interrupted

\* The loop at label of process p is at file f, the first one left.
AtFile(p, label, f) ==
    /\ run[p].pc = label
    /\ f \in run[p].todo /\ \A g \in run[p].todo : f <= g
\* The loop at label of process p is over.
AtEnd(p, label) == run[p].pc = label /\ run[p].todo = {}

-----------------------------------------------------------------------------
(* commit, with the part of the workflow that leads to it.                 *)

\* Mutant: the flock is shared.
LockWorkspaceShared(p, c) ==
    /\ run[p].pc = "idle"
    /\ lock' = p
    /\ run' = [run EXCEPT ![p].pc = IF c = "fix" THEN "open" ELSE "list",
                          ![p].cmd = c]
    /\ UNCHANGED <<fs, before, hist, bnds>>

\* A process that finds the lock taken fails at once and changes nothing.
LockWorkspace(p, c) ==
    /\ run[p].pc = "idle" /\ lock = NoProc
    /\ lock' = p
    /\ run' = [run EXCEPT ![p].pc = IF c = "fix" THEN "open" ELSE "list",
                          ![p].cmd = c]
    /\ UNCHANGED <<fs, before, hist, bnds>>

\* A directory name tempfile can still pick.
Free(t) == jrD[t] = {Nothing} /\ \A p \in Procs : run[p].txn # t

\* The workflow refuses to start over an unfinished transaction; otherwise it
\* scans the workspace and derives the fixed contents from that snapshot.
Open(p) ==
    /\ run[p].pc = "open"
    /\ UNCHANGED <<fs, user, bnds>>
    /\ \/ /\ \/ Interrupted(p)
             \/ Visible # {}
             \/ \A f \in Files : Fix[src[f]] = src[f]
          /\ OnError(p)
          /\ UNCHANGED <<before, dirty, last>>
       \/ /\ ~Interrupted(p)
          /\ Visible = {}
          /\ \E f \in Files : Fix[src[f]] # src[f]
          /\ \E t \in Txns :
                /\ Free(t)
                /\ before' = [before EXCEPT ![t] = src]
                /\ run' = [run EXCEPT ![p].pc = "assert", ![p].txn = t,
                                      ![p].todo = Files]
                /\ last' = t /\ dirty' = {}
          /\ UNCHANGED lock

\* assert_snapshot(original): the scan reads one file at a time, directory by
\* directory, and not in the order of the snapshot.
AssertSnapshot(p, f) ==
    /\ run[p].pc = "assert" /\ f \in run[p].todo
    /\ \/ /\ src[f] = before[run[p].txn][f]
          /\ Loop(p, "assert", run[p].todo \ {f})
          /\ UNCHANGED lock
       \/ /\ src[f] # before[run[p].txn][f]
          /\ OnError(p)
    /\ UNCHANGED <<fs, before, hist, bnds>>

\* Mutant: backups and a restore for every file of the snapshot.
MakeJournalDirAll(p) ==
    LET t == run[p].txn IN
    /\ AtEnd(p, "assert")
    /\ \/ /\ Changed(t) \cap Protected # {} \/ Visible # {}
          /\ OnError(p)
          /\ UNCHANGED fs
       \/ /\ Changed(t) \cap Protected = {} /\ Visible = {}
          /\ PutDir(t, TRUE)
          /\ Loop(p, "backup", Files)
          /\ UNCHANGED <<src, srcD, anchored, lock>>
    /\ UNCHANGED <<before, hist, bnds>>

\* The name checks, the emptiness check, and the fresh journal directory.
MakeJournalDir(p) ==
    LET t == run[p].txn IN
    /\ AtEnd(p, "assert")
    /\ \/ /\ Changed(t) \cap Protected # {} \/ Visible # {}
          /\ OnError(p)
          /\ UNCHANGED fs
       \/ /\ Changed(t) \cap Protected = {} /\ Visible = {}
          /\ PutDir(t, TRUE)
          /\ Loop(p, "backup", Changed(t))
          /\ UNCHANGED <<src, srcD, anchored, lock>>
    /\ UNCHANGED <<before, hist, bnds>>

\* One backup: checked against the snapshot, renamed in place, fsynced.
WriteBackup(p, f) ==
    LET t == run[p].txn IN
    /\ AtFile(p, "backup", f)
    /\ \/ /\ Interrupted(p) \/ src[f] # before[t][f]
          /\ OnError(p)
          /\ UNCHANGED fs
       \/ /\ ~Interrupted(p) /\ src[f] = before[t][f]
          /\ PutBackup(t, f)
          /\ Goto(p, "backupSync")
          /\ UNCHANGED <<src, srcD, anchored, lock>>
    /\ UNCHANGED <<before, hist, bnds>>
SyncBackup(p, f) ==
    /\ AtFile(p, "backupSync", f)
    /\ SyncDir(run[p].txn)
    /\ Loop(p, "backup", run[p].todo \ {f})
    /\ UNCHANGED <<src, srcD, anchored, lock, before, hist, bnds>>

\* Mutant: the journal is written with its final phase.
WriteJournalComplete(p) ==
    /\ AtEnd(p, "backup")
    /\ PutPhase(run[p].txn, "complete")
    /\ Goto(p, "journalSync")
    /\ UNCHANGED <<src, srcD, anchored, lock, before, hist, bnds>>

\* journal.json in phase "prepared", then the fsyncs of the three directories
\* on the way to it.
WriteJournal(p) ==
    /\ AtEnd(p, "backup")
    /\ PutPhase(run[p].txn, "prepared")
    /\ Goto(p, "journalSync")
    /\ UNCHANGED <<src, srcD, anchored, lock, before, hist, bnds>>
SyncJournal(p) ==
    /\ run[p].pc = "journalSync"
    /\ SyncDir(run[p].txn)
    /\ Goto(p, "listSync")
    /\ UNCHANGED <<src, srcD, anchored, lock, before, hist, bnds>>
SyncTransactions(p) ==
    /\ run[p].pc = "listSync"
    /\ SyncList
    /\ Goto(p, "rootSync")
    /\ UNCHANGED <<src, srcD, anchored, lock, before, hist, bnds>>
\* Mutant: the parent of the transactions directory is not fsynced.
SyncStateDirSkipped(p) ==
    /\ run[p].pc = "rootSync"
    /\ Loop(p, "check", Changed(run[p].txn))
    /\ UNCHANGED <<fs, lock, before, hist, bnds>>
\* It puts the entry of transactions/ on disk.  That of .statement-spacing is
\* in the workspace root, which is not fsynced.
SyncStateDir(p) ==
    /\ run[p].pc = "rootSync"
    /\ anchored' = (anchored \/ Rooted)
    /\ Loop(p, "check", Changed(run[p].txn))
    /\ UNCHANGED <<src, srcD, jr, jrD, lock, before, hist, bnds>>

\* One replacement: the digest of the source is compared, then atomic_bytes
\* writes a temporary file and renames it over whatever is there by then.
CheckSource(p, f) ==
    /\ AtFile(p, "check", f)
    /\ \/ /\ Interrupted(p) \/ src[f] # before[run[p].txn][f]
          /\ OnError(p)
       \/ /\ ~Interrupted(p) /\ src[f] = before[run[p].txn][f]
          /\ Goto(p, "rename")
          /\ UNCHANGED lock
    /\ UNCHANGED <<fs, before, hist, bnds>>
RenameSource(p, f) ==
    /\ AtFile(p, "rename", f)
    /\ PutSource(f, After(run[p].txn, f))
    /\ Goto(p, "sync")
    /\ UNCHANGED <<jr, jrD, anchored, lock, before, hist, bnds>>
\* Mutant: atomic_bytes returns without fsync_dir.
SyncRenamedSkipped(p, f) ==
    /\ AtFile(p, "sync", f)
    /\ Loop(p, "check", run[p].todo \ {f})
    /\ UNCHANGED <<fs, lock, before, hist, bnds>>
SyncRenamed(p, f) ==
    /\ AtFile(p, "sync", f)
    /\ SyncSource(f)
    /\ Loop(p, "check", run[p].todo \ {f})
    /\ UNCHANGED <<jr, jrD, anchored, lock, before, hist, bnds>>

\* All sources are replaced; cargo fmt --check runs on the workspace.
CheckEnd(p) ==
    /\ AtEnd(p, "check")
    /\ \/ Interrupted(p) /\ OnError(p)
       \/ ~Interrupted(p) /\ Goto(p, "final") /\ UNCHANGED lock
    /\ UNCHANGED <<fs, before, hist, bnds>>
FinalCheck(p) ==
    /\ run[p].pc = "final"
    /\ \/ Interrupted(p) /\ OnError(p)
       \/ ~Interrupted(p) /\ Loop(p, "verify", Files) /\ UNCHANGED lock
    /\ UNCHANGED <<fs, before, hist, bnds>>

\* assert_snapshot(expected), the last interrupt check, and the completion.
VerifySnapshot(p, f) ==
    /\ run[p].pc = "verify" /\ f \in run[p].todo
    /\ \/ /\ src[f] = After(run[p].txn, f)
          /\ Loop(p, "verify", run[p].todo \ {f})
          /\ UNCHANGED lock
       \/ /\ src[f] # After(run[p].txn, f)
          /\ OnError(p)
    /\ UNCHANGED <<fs, before, hist, bnds>>
VerifyEnd(p) ==
    /\ AtEnd(p, "verify")
    /\ \/ Interrupted(p) /\ OnError(p)
       \/ ~Interrupted(p) /\ Goto(p, "complete") /\ UNCHANGED lock
    /\ UNCHANGED <<fs, before, hist, bnds>>
WriteComplete(p) ==
    /\ run[p].pc = "complete"
    /\ PutPhase(run[p].txn, "complete")
    /\ Goto(p, "completeSync")
    /\ UNCHANGED <<src, srcD, anchored, lock, before, hist, bnds>>
SyncComplete(p) ==
    /\ run[p].pc = "completeSync"
    /\ SyncDir(run[p].txn)
    /\ run' = [run EXCEPT ![p].pc = "remove", ![p].outcome = "fixed"]
    /\ UNCHANGED <<src, srcD, anchored, lock, before, hist, bnds>>

-----------------------------------------------------------------------------
(* rollback, recover and the removal of a journal directory.               *)

\* Mutant: recover takes every journal for a complete one.
ListTransactionsNoPhase(p) ==
    /\ run[p].pc = "list"
    /\ \/ /\ Visible = {} \/ \E t \in Visible : jr[t].phase = "none"
          /\ OnError(p)
       \/ \E t \in Visible :
             /\ jr[t].phase # "none"
             /\ run' = [run EXCEPT ![p].pc = "remove", ![p].txn = t,
                                   ![p].outcome = "restored"]
             /\ UNCHANGED lock
    /\ UNCHANGED <<fs, before, hist, bnds>>

\* recover takes the directories one by one.  tempfile's names are random, so
\* their sorted order is any order.
ListTransactions(p) ==
    /\ run[p].pc = "list"
    /\ \/ /\ \/ Visible = {}
             \/ \E t \in Visible : jr[t].phase = "none"
          /\ OnError(p)
       \/ \E t \in Visible :
             /\ \/ /\ jr[t].phase = "complete"
                   /\ run' = [run EXCEPT ![p].pc = "remove", ![p].txn = t,
                                         ![p].outcome = "fixed"]
                \/ /\ jr[t].phase = "prepared"
                   /\ run' = [run EXCEPT ![p].pc = "restore", ![p].txn = t,
                                         ![p].todo = Changed(t),
                                         ![p].outcome = "restored"]
             /\ UNCHANGED lock
    /\ UNCHANGED <<fs, before, hist, bnds>>

\* Mutant: rollback restores whatever differs from the original.
RestoreCheckForced(p, f) ==
    /\ AtFile(p, "restore", f)
    /\ IF src[f] = before[run[p].txn][f]
       THEN Loop(p, "restore", run[p].todo \ {f})
       ELSE Goto(p, "restoreRename")
    /\ UNCHANGED <<fs, lock, before, hist, bnds>>
\* Mutant: rollback waits for a conflict to go away.
RestoreCheckRetry(p, f) ==
    /\ AtFile(p, "restore", f)
    /\ IF src[f] = before[run[p].txn][f]
       THEN Loop(p, "restore", run[p].todo \ {f})
       ELSE /\ src[f] = After(run[p].txn, f)
            /\ Goto(p, "restoreRename")
    /\ UNCHANGED <<fs, lock, before, hist, bnds>>

\* One entry of the journal: the backup must be there; a source that holds its
\* original is left alone, one that holds neither content is a conflict.
RestoreCheck(p, f) ==
    LET t == run[p].txn IN
    /\ AtFile(p, "restore", f)
    /\ \/ /\ f \notin jr[t].backups
          /\ OnError(p)
       \/ /\ f \in jr[t].backups
          /\ \/ /\ src[f] = before[t][f]
                /\ Loop(p, "restore", run[p].todo \ {f})
             \/ /\ src[f] \notin {before[t][f], After(t, f)}
                /\ run' = [run EXCEPT ![p].todo = @ \ {f},
                                      ![p].conflicts = @ \cup {f}]
             \/ /\ src[f] # before[t][f] /\ src[f] = After(t, f)
                /\ Goto(p, "restoreRename")
          /\ UNCHANGED lock
    /\ UNCHANGED <<fs, before, hist, bnds>>
RestoreRename(p, f) ==
    /\ AtFile(p, "restoreRename", f)
    /\ PutSource(f, before[run[p].txn][f])
    /\ Goto(p, "restoreSync")
    /\ UNCHANGED <<jr, jrD, anchored, lock, before, hist, bnds>>
\* Mutant: a restored source is not fsynced.
RestoreSyncSkipped(p, f) ==
    /\ AtFile(p, "restoreSync", f)
    /\ Loop(p, "restore", run[p].todo \ {f})
    /\ UNCHANGED <<fs, lock, before, hist, bnds>>
RestoreSync(p, f) ==
    /\ AtFile(p, "restoreSync", f)
    /\ SyncSource(f)
    /\ Loop(p, "restore", run[p].todo \ {f})
    /\ UNCHANGED <<jr, jrD, anchored, lock, before, hist, bnds>>
RestoreEnd(p) ==
    /\ AtEnd(p, "restore")
    /\ \/ run[p].conflicts = {} /\ Goto(p, "remove") /\ UNCHANGED lock
       \/ run[p].conflicts # {} /\ OnError(p)
    /\ UNCHANGED <<fs, before, hist, bnds>>

\* fs::remove_dir_all unlinks the entries in the order the directory gives.
RemoveEntry(p) ==
    LET t == run[p].txn IN
    /\ run[p].pc = "remove"
    /\ \/ /\ jr[t].phase # "none"
          /\ PutPhase(t, "none")
          /\ UNCHANGED run
       \/ \E f \in jr[t].backups : DropBackup(t, f) /\ UNCHANGED run
       \/ /\ jr[t].phase = "none" /\ jr[t].backups = {}
          /\ PutDir(t, FALSE)
          /\ Goto(p, "removeSync")
    /\ UNCHANGED <<src, srcD, anchored, lock, before, hist, bnds>>
\* fsync_dir(transactions); recover goes on with the next directory.
SyncRemoval(p) ==
    /\ run[p].pc = "removeSync"
    /\ SyncList
    /\ \/ /\ run[p].cmd = "recover"
          /\ run' = [run EXCEPT ![p] = [Idle EXCEPT !.pc = "list", !.cmd = "recover",
                                          !.interrupted = run[p].interrupted]]
          /\ UNCHANGED lock
       \/ /\ run[p].cmd = "fix"
          /\ Return(p)
    /\ UNCHANGED <<src, srcD, anchored, before, hist, bnds>>

-----------------------------------------------------------------------------
(* The environment.                                                        *)

InWindow(f) == \E p \in Procs : AtFile(p, "rename", f) \/ AtFile(p, "restoreRename", f)

\* An editor saves a source file; its save is durable.
Save(f, c) ==
    /\ saves < MaxSaves
    /\ c # src[f]
    /\ "race" \in Env \/ ~InWindow(f)
    /\ src' = [src EXCEPT ![f] = c]
    /\ srcD' = [srcD EXCEPT ![f] = {c}]
    /\ user' = [user EXCEPT ![f] = c]
    /\ dirty' = dirty \cup {f}
    /\ saves' = saves + 1
    /\ UNCHANGED <<jr, jrD, anchored, lock, run, before, last, faults>>

Fault(kind) ==
    /\ kind \in Env /\ faults < MaxFaults
    /\ faults' = faults + 1
    /\ UNCHANGED <<saves, hist, before>>

Signal(p) ==
    /\ Fault("signal")
    /\ run[p].pc # "idle" /\ ~Interrupted(p)
    /\ run' = [run EXCEPT ![p].interrupted = TRUE]
    /\ UNCHANGED <<fs, lock>>

\* The call the process is at fails and changes nothing; at "final" it is the
\* formatter that rejects the workspace.
Fail(p) ==
    /\ run[p].pc # "idle"
    /\ Fault(IF run[p].pc = "completeSync" THEN "commitSync" ELSE "io")
    /\ OnError(p)
    /\ UNCHANGED fs

\* SIGKILL: the kernel drops the flock of a dead process.
Kill(p) ==
    /\ Fault("kill")
    /\ run[p].pc # "idle"
    /\ Return(p)
    /\ UNCHANGED fs

PowerLoss ==
    /\ Fault("power")
    /\ \E s \in [Files -> UNION {srcD[f] : f \in Files}] :
          /\ \A f \in Files : s[f] \in srcD[f]
          /\ src' = s
          /\ srcD' = [f \in Files |-> {s[f]}]
    /\ \/ \E img \in [Txns -> UNION {jrD[t] : t \in Txns}] :
             /\ \A t \in Txns : img[t] \in jrD[t]
             /\ jr' = [t \in Txns |-> IF img[t].dir THEN img[t] ELSE Nothing]
             /\ anchored' = (anchored \/ \E t \in Txns : img[t].dir)
       \/ /\ ~anchored
          /\ jr' = [t \in Txns |-> Nothing]
          /\ anchored' = FALSE
    /\ jrD' = [t \in Txns |-> {jr'[t]}]
    /\ run' = [p \in Procs |-> Idle]
    /\ lock' = NoProc

-----------------------------------------------------------------------------
Init ==
    /\ src \in [Files -> Saves]
    /\ srcD = [f \in Files |-> {src[f]}]
    /\ jr = [t \in Txns |-> Nothing]
    /\ jrD = [t \in Txns |-> {Nothing}]
    /\ anchored = FALSE
    /\ lock = NoProc
    /\ run = [p \in Procs |-> Idle]
    /\ before = [t \in Txns |-> src]
    /\ user = src /\ dirty = {} /\ last = NoTxn
    /\ saves = 0 /\ faults = 0

Step(p) ==
    \/ Open(p) \/ MakeJournalDir(p)
    \/ \E f \in Files :
          \/ AssertSnapshot(p, f) \/ WriteBackup(p, f) \/ SyncBackup(p, f)
          \/ CheckSource(p, f) \/ RenameSource(p, f) \/ SyncRenamed(p, f)
          \/ VerifySnapshot(p, f)
          \/ RestoreCheck(p, f) \/ RestoreRename(p, f) \/ RestoreSync(p, f)
    \/ WriteJournal(p) \/ SyncJournal(p) \/ SyncTransactions(p) \/ SyncStateDir(p)
    \/ CheckEnd(p) \/ FinalCheck(p) \/ VerifyEnd(p)
    \/ WriteComplete(p) \/ SyncComplete(p)
    \/ ListTransactions(p) \/ RestoreEnd(p) \/ RemoveEntry(p) \/ SyncRemoval(p)

Environment ==
    \/ \E p \in Procs : Signal(p) \/ Fail(p) \/ Kill(p)
    \/ \E f \in Files, c \in Saves : Save(f, c)
    \/ PowerLoss

Next ==
    \/ \E p \in Procs, c \in Commands : LockWorkspace(p, c)
    \/ \E p \in Procs : Step(p)
    \/ Environment

\* At "open" and "final" the run waits for cargo, which may not return
\* (Driver::run waits for the pipes of a command without a limit).
InCargo(p) == run[p].pc \in {"open", "final"}

\* The operating system schedules a running process and its calls return, save
\* for those of cargo; nobody has to start a process.
Spec ==
    /\ Init /\ [][Next]_vars
    /\ \A p \in Procs : WF_vars(~InCargo(p) /\ Step(p))
=============================================================================
