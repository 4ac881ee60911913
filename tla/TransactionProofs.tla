------------------------- MODULE TransactionProofs -------------------------
(***************************************************************************)
(* Safety of the file transaction for every set of processes, files,       *)
(* contents and environments: one invocation at a time, the write-ahead    *)
(* discipline of the journal, and, without an editor in the window between *)
(* check and rename, no overwritten save.                                  *)
(***************************************************************************)
EXTENDS TransactionProperties, TLAPS

-----------------------------------------------------------------------------
(* The inductive invariant.                                                *)

\* Where a process works on a transaction, it has one.
TxnOK == \A p \in Procs :
    run[p].pc \notin {"idle", "list", "open"} => run[p].txn \in Txns

\* What commit has put on disk when it is at a given step: image i of the
\* journal of process p, and the whole set of images.
Prepared(i, t) == i.phase = "prepared" /\ i.backups = Changed(t)

JournalAt(p) ==
    LET t == run[p].txn
        todo == run[p].todo
        pc == run[p].pc IN
    /\ pc = "list" => run[p].cmd = "recover"
    /\ pc = "assert" => jrD[t] = {Nothing}
    /\ pc \in {"backup", "backupSync"} => jr[t].dir /\ todo \subseteq Changed(t)
    /\ pc = "backup" =>
         \A i \in jrD[t] : i.phase = "none" /\ i.backups = Changed(t) \ todo
    /\ pc = "backupSync" =>
         /\ jr[t].phase = "none"
         /\ \A f \in todo : (\A g \in todo : f <= g)
                => jr[t].backups = (Changed(t) \ todo) \cup {f}
    /\ pc = "journalSync" => jr[t].dir /\ Prepared(jr[t], t)
    /\ pc = "listSync" => jr[t].dir /\ \A i \in jrD[t] : Prepared(i, t)
    /\ pc = "rootSync" => \A i \in jrD[t] : i.dir /\ Prepared(i, t)
    /\ pc \in Replacing \ {"completeSync"} =>
         (Rooted => anchored) /\ \A i \in jrD[t] : i.dir /\ Prepared(i, t)
    /\ pc = "completeSync" \/ (pc \in Restoring /\ run[p].cmd = "fix") =>
         /\ Rooted => anchored
         /\ \A i \in jrD[t] : i.dir /\ i.backups = Changed(t) /\ i.phase # "none"

JournalInv == \A p \in Procs : JournalAt(p)

IInv == TypeOK /\ TxnOK /\ OneAtATime /\ JournalInv

-----------------------------------------------------------------------------
(* Type correctness.                                                       *)

Running == [pc : Labels, cmd : Commands, txn : Txns \cup {NoTxn},
            todo : SUBSET Files, conflicts : SUBSET Files,
            interrupted : BOOLEAN, outcome : Outcomes]

\* The idle record is a process record, an absent journal is an image.
LEMMA Defaults == Idle \in Running /\ Nothing \in Image
BY DEF Idle, Running, Nothing, Image, Phases, Labels, Commands, Outcomes

\* The helpers that write an entry keep the images well typed and the image
\* that is read among those that may be on disk.
LEMMA EntryTypes ==
    ASSUME jr \in [Txns -> Image], jrD \in [Txns -> SUBSET Image],
           \A u \in Txns : jr[u] \in jrD[u],
           NEW t \in Txns, NEW f, NEW phase \in Phases, NEW there \in BOOLEAN,
           \/ f \in Files /\ PutBackup(t, f)
           \/ DropBackup(t, f)
           \/ PutPhase(t, phase) \/ PutDir(t, there)
           \/ SyncDir(t) \/ SyncList
    PROVE  /\ jr' \in [Txns -> Image] /\ jrD' \in [Txns -> SUBSET Image]
           /\ \A u \in Txns : jr'[u] \in jrD'[u]
<1>1. CASE f \in Files /\ PutBackup(t, f)
  BY <1>1 DEF PutBackup, Image
<1>2. CASE DropBackup(t, f)
  BY <1>2 DEF DropBackup, Image
<1>3. CASE PutPhase(t, phase)
  BY <1>3 DEF PutPhase, Image
<1>4. CASE PutDir(t, there)
  BY <1>4 DEF PutDir, Image
<1>5. CASE SyncDir(t)
  BY <1>5 DEF SyncDir, Image
<1>6. CASE SyncList
  BY <1>6, Defaults DEF SyncList, Image
<1> QED  BY <1>1, <1>2, <1>3, <1>4, <1>5, <1>6

SrcOK == /\ src \in [Files -> Contents] /\ srcD \in [Files -> SUBSET Contents]
         /\ \A f \in Files : src[f] \in srcD[f]
JrOK  == /\ jr \in [Txns -> Image] /\ jrD \in [Txns -> SUBSET Image]
         /\ \A t \in Txns : jr[t] \in jrD[t]
RunOK == run \in [Procs -> Running] /\ lock \in Procs \cup {NoProc} /\ TxnOK
RestOK == /\ user \in [Files -> Contents]
          /\ anchored \in BOOLEAN
          /\ before \in [Txns -> [Files -> Contents]]
          /\ dirty \in SUBSET Files /\ last \in Txns \cup {NoTxn}
          /\ saves \in 0..MaxSaves /\ faults \in 0..MaxFaults

\* The type invariant, variable group by variable group.
LEMMA TypeParts ==
    (TypeOK /\ TxnOK) <=> (SrcOK /\ JrOK /\ RunOK /\ RestOK /\ Listed)
BY DEF TypeOK, SrcOK, JrOK, RunOK, RestOK, Running

\* A journal lists files of the snapshot.
LEMMA ChangedFiles == \A t : Changed(t) \in SUBSET Files
BY DEF Changed

\* The ways a process goes on or ends keep its record well typed.
LEMMA GotoType ==
    ASSUME RunOK, NEW p \in Procs, NEW label \in Labels, NEW S \in SUBSET Files,
           run[p].pc \notin {"idle", "list", "open"},
           Goto(p, label) \/ Loop(p, label, S), UNCHANGED lock
    PROVE  RunOK'
BY DEF Goto, Loop, RunOK, Running, TxnOK

LEMMA ReturnType ==
    ASSUME RunOK, NEW p \in Procs, Return(p)
    PROVE  RunOK'
BY Defaults DEF Return, RunOK, Running, TxnOK, Idle

LEMMA OnErrorType ==
    ASSUME RunOK, NEW p \in Procs, OnError(p)
    PROVE  RunOK'
<1>1. CASE run[p].pc \in Preparing
  BY <1>1 DEF OnError, RunOK, Running, TxnOK, Preparing, Replacing, Labels,
              Removing, Outcomes
<1>2. CASE run[p].pc \in Replacing
  BY <1>2, ChangedFiles DEF OnError, RunOK, Running, TxnOK, Preparing, Replacing,
                            Labels, Restoring, Outcomes
<1>3. CASE run[p].pc \notin Preparing \cup Replacing
  BY <1>3, ReturnType DEF OnError, Preparing, Replacing
<1> QED  BY <1>1, <1>2, <1>3

\* The updates of a process that set several of its fields.
LEMMA UpdateTypes ==
    ASSUME RunOK, NEW p \in Procs, UNCHANGED lock, NEW t \in Txns,
           NEW label \in Labels, NEW S \in SUBSET Files, NEW o \in Outcomes,
           \/ run' = [run EXCEPT ![p].pc = label, ![p].txn = t, ![p].todo = S]
           \/ run' = [run EXCEPT ![p].pc = label, ![p].txn = t, ![p].outcome = o]
           \/ run' = [run EXCEPT ![p].pc = label, ![p].txn = t, ![p].todo = S,
                                 ![p].outcome = o]
           \/ /\ run' = [run EXCEPT ![p].pc = label, ![p].outcome = o]
              /\ run[p].txn \in Txns
    PROVE  RunOK'
<1>1. run \in [Procs -> Running]
  BY DEF RunOK
<1>2. run' \in [Procs -> Running]
  BY <1>1 DEF Running
<1>3. TxnOK'
  BY <1>1 DEF Running, RunOK, TxnOK
<1> QED  BY <1>2, <1>3 DEF RunOK

\* recover goes on with the next journal directory.
LEMMA NextTypes ==
    ASSUME RunOK, NEW p \in Procs, UNCHANGED lock,
           run' = [run EXCEPT ![p] = [Idle EXCEPT !.pc = "list", !.cmd = "recover",
                                        !.interrupted = run[p].interrupted]]
    PROVE  RunOK'
<1> DEFINE next == [Idle EXCEPT !.pc = "list", !.cmd = "recover",
                                !.interrupted = run[p].interrupted]
<1>1. next \in Running /\ next.pc = "list"
  BY Defaults DEF RunOK, Running, Idle, Labels, Commands
<1> HIDE DEF next
<1>2. run' = [run EXCEPT ![p] = next]
  BY DEF next
<1> QED  BY <1>1, <1>2 DEF RunOK, TxnOK

\* A source keeps, among the contents that may be on disk, the one it shows.
LEMMA SourceTypes ==
    ASSUME SrcOK, NEW f \in Files, NEW c \in Contents, PutSource(f, c) \/ SyncSource(f)
    PROVE  SrcOK'
BY DEF SrcOK, PutSource, SyncSource

\* The journal's originals and fixed contents are contents.
LEMMA JournalContents ==
    ASSUME RestOK, NEW t \in Txns, NEW f \in Files
    PROVE  before[t][f] \in Contents /\ After(t, f) \in Contents
BY FixAssumption DEF RestOK, After

\* The steps of a process that only read the files.
LEMMA ReadingTypes ==
    ASSUME RunOK, NEW p \in Procs, NEW f,
           \/ AssertSnapshot(p, f) \/ CheckSource(p, f) \/ CheckEnd(p)
           \/ FinalCheck(p) \/ VerifySnapshot(p, f) \/ VerifyEnd(p)
           \/ ListTransactions(p) \/ RestoreCheck(p, f) \/ RestoreEnd(p)
    PROVE  RunOK'
<1> DEFINE rest == run[p].todo \ {f}
<1>1. rest \in SUBSET Files /\ (f \in run[p].todo => f \in Files)
  BY DEF RunOK, Running
<1>2. {"assert", "rename", "final", "verify", "complete", "restore", "restoreRename", "remove"}
        \subseteq Labels
  BY DEF Labels, Opening, Replacing, Restoring, Removing
<1>3. CASE AssertSnapshot(p, f)
  BY <1>1, <1>2, <1>3, GotoType, OnErrorType DEF AssertSnapshot
<1>4. CASE CheckSource(p, f)
  BY <1>1, <1>2, <1>4, GotoType, OnErrorType DEF CheckSource, AtFile
<1>5. CASE CheckEnd(p)
  BY <1>1, <1>2, <1>5, GotoType, OnErrorType DEF CheckEnd, AtEnd
<1>6. CASE FinalCheck(p)
  BY <1>1, <1>2, <1>6, GotoType, OnErrorType DEF FinalCheck
<1>7. CASE VerifySnapshot(p, f)
  BY <1>1, <1>2, <1>7, GotoType, OnErrorType DEF VerifySnapshot
<1>8. CASE VerifyEnd(p)
  BY <1>1, <1>2, <1>8, GotoType, OnErrorType DEF VerifyEnd, AtEnd
<1>9. CASE ListTransactions(p)
  <2>1. CASE OnError(p)
    BY <2>1, OnErrorType
  <2>2. ASSUME NEW u \in Txns, UNCHANGED lock,
               run' = [run EXCEPT ![p].pc = "remove", ![p].txn = u,
                                  ![p].outcome = "fixed"]
        PROVE  RunOK'
    BY <1>2, <2>2, UpdateTypes DEF Outcomes
  <2>3. ASSUME NEW u \in Txns, UNCHANGED lock,
               run' = [run EXCEPT ![p].pc = "restore", ![p].txn = u,
                                  ![p].todo = Changed(u), ![p].outcome = "restored"]
        PROVE  RunOK'
    BY <1>2, <2>3, ChangedFiles, UpdateTypes DEF Outcomes
  <2> QED  BY <1>9, <2>1, <2>2, <2>3 DEF ListTransactions, Visible
<1>10. CASE RestoreCheck(p, f)
  <2>1. f \in Files /\ run[p].pc = "restore"
    BY <1>1, <1>10 DEF RestoreCheck, AtFile
  <2>2. ASSUME UNCHANGED lock,
               run' = [run EXCEPT ![p].todo = @ \ {f},
                                  ![p].conflicts = @ \cup {f}]
        PROVE  RunOK'
    <3>1. run' \in [Procs -> Running]
      BY <2>1, <2>2 DEF RunOK, Running
    <3> QED  BY <2>1, <2>2, <3>1 DEF RunOK, TxnOK, Running
  <2>3. \/ OnError(p)
        \/ Loop(p, "restore", rest) /\ UNCHANGED lock
        \/ Goto(p, "restoreRename") /\ UNCHANGED lock
        \/ /\ UNCHANGED lock
           /\ run' = [run EXCEPT ![p].todo = @ \ {f}, ![p].conflicts = @ \cup {f}]
    BY <1>10 DEF RestoreCheck
  <2> QED  BY <1>1, <1>2, <2>1, <2>2, <2>3, GotoType, OnErrorType
<1>11. CASE RestoreEnd(p)
  BY <1>1, <1>2, <1>11, GotoType, OnErrorType DEF RestoreEnd, AtEnd
<1> QED
  BY <1>3, <1>4, <1>5, <1>6, <1>7, <1>8, <1>9, <1>10, <1>11

\* The steps of a process that write to a journal directory or sync one.
LEMMA JournalTypes ==
    ASSUME JrOK, RunOK, NEW p \in Procs, NEW f,
           \/ MakeJournalDir(p) \/ WriteBackup(p, f) \/ SyncBackup(p, f)
           \/ WriteJournal(p) \/ SyncJournal(p) \/ SyncTransactions(p)
           \/ WriteComplete(p) \/ SyncComplete(p)
           \/ RemoveEntry(p) \/ SyncRemoval(p)
    PROVE  JrOK' /\ RunOK'
<1> DEFINE t == run[p].txn
<1> DEFINE rest == run[p].todo \ {f}
<1>1. rest \in SUBSET Files /\ (f \in run[p].todo => f \in Files)
  BY DEF RunOK, Running
<1>2. {"backup", "backupSync", "journalSync", "listSync", "rootSync", "check",
       "completeSync", "remove", "removeSync"} \subseteq Labels
  BY DEF Labels, Preparing, Replacing, Removing
<1>3. run[p].pc \notin {"idle", "list", "open"} => t \in Txns
  BY DEF RunOK, TxnOK
<1>4. {"none", "prepared", "complete"} \subseteq Phases
  BY DEF Phases
<1>5. ASSUME UNCHANGED <<jr, jrD>> PROVE JrOK'
  BY <1>5 DEF JrOK
<1>6. ASSUME NEW g, NEW phase \in Phases, NEW there \in BOOLEAN,
             t \in Txns,
             \/ g \in Files /\ PutBackup(t, g)
             \/ DropBackup(t, g)
             \/ PutPhase(t, phase) \/ PutDir(t, there)
             \/ SyncDir(t) \/ SyncList
      PROVE  JrOK'
  BY <1>6, EntryTypes DEF JrOK
<1>7. CASE MakeJournalDir(p)
  BY <1>2, <1>3, <1>5, <1>6, <1>4, <1>7, GotoType, OnErrorType, ChangedFiles
     DEF MakeJournalDir, AtEnd, fs
<1>8. CASE WriteBackup(p, f)
  BY <1>1, <1>2, <1>3, <1>5, <1>6, <1>4, <1>8, GotoType, OnErrorType
     DEF WriteBackup, AtFile, fs
<1>9. CASE SyncBackup(p, f)
  BY <1>1, <1>2, <1>3, <1>4, <1>6, <1>9, GotoType DEF SyncBackup, AtFile
<1>10. CASE WriteJournal(p)
  BY <1>1, <1>2, <1>3, <1>4, <1>6, <1>10, GotoType DEF WriteJournal, AtEnd
<1>11. CASE SyncJournal(p)
  BY <1>1, <1>2, <1>3, <1>4, <1>6, <1>11, GotoType DEF SyncJournal
<1>12. CASE SyncTransactions(p)
  BY <1>1, <1>2, <1>3, <1>4, <1>6, <1>12, GotoType DEF SyncTransactions
<1>13. CASE WriteComplete(p)
  BY <1>1, <1>2, <1>3, <1>4, <1>6, <1>13, GotoType DEF WriteComplete
<1>14. CASE SyncComplete(p)
  <2>1. JrOK'
    BY <1>3, <1>4, <1>6, <1>14 DEF SyncComplete
  <2>2. /\ run[p].pc = "completeSync" /\ UNCHANGED lock
        /\ run' = [run EXCEPT ![p].pc = "remove", ![p].outcome = "fixed"]
    BY <1>14 DEF SyncComplete
  <2>3. RunOK'
    BY <1>2, <1>3, <2>2, UpdateTypes DEF Outcomes
  <2> QED  BY <2>1, <2>3
<1>15. CASE RemoveEntry(p)
  <2>1. /\ t \in Txns /\ run[p].pc = "remove" /\ UNCHANGED lock
        /\ \/ PutPhase(t, "none") /\ UNCHANGED run
           \/ \E g \in jr[t].backups : DropBackup(t, g) /\ UNCHANGED run
           \/ PutDir(t, FALSE) /\ Goto(p, "removeSync")
    BY <1>3, <1>15 DEF RemoveEntry
  <2>2. jr[t].backups \subseteq Files
    BY <2>1 DEF JrOK, Image
  <2>3. CASE PutPhase(t, "none") /\ UNCHANGED run
    BY <1>4, <1>6, <2>1, <2>3 DEF RunOK, TxnOK
  <2>4. CASE \E g \in jr[t].backups : DropBackup(t, g) /\ UNCHANGED run
    BY <1>4, <1>6, <2>1, <2>2, <2>4 DEF RunOK, TxnOK
  <2>5. CASE PutDir(t, FALSE) /\ Goto(p, "removeSync")
    BY <1>1, <1>2, <1>4, <1>6, <2>1, <2>5, GotoType
  <2> QED  BY <2>1, <2>3, <2>4, <2>5
<1>16. CASE SyncRemoval(p)
  <2>1. JrOK'
    BY <1>3, <1>4, <1>6, <1>16 DEF SyncRemoval
  <2>2. CASE /\ run' = [run EXCEPT ![p] = [Idle EXCEPT !.pc = "list", !.cmd = "recover",
                                              !.interrupted = run[p].interrupted]]
             /\ UNCHANGED lock
    BY <2>1, <2>2, NextTypes
  <2> QED  BY <1>16, <2>1, <2>2, ReturnType DEF SyncRemoval
<1> QED
  BY <1>7, <1>8, <1>9, <1>10, <1>11, <1>12, <1>13, <1>14, <1>15, <1>16

\* The start of an invocation, the replacement and the restoring of a source.
LEMMA SourceStepTypes ==
    ASSUME SrcOK, RunOK, RestOK, NEW p \in Procs, NEW f,
           \/ \E c \in Commands : LockWorkspace(p, c)
           \/ Open(p) \/ SyncStateDir(p)
           \/ RenameSource(p, f) \/ SyncRenamed(p, f)
           \/ RestoreRename(p, f) \/ RestoreSync(p, f)
    PROVE  SrcOK' /\ RunOK' /\ RestOK'
<1> DEFINE t == run[p].txn
<1> DEFINE rest == run[p].todo \ {f}
<1>1. rest \in SUBSET Files /\ (f \in run[p].todo => f \in Files)
  BY DEF RunOK, Running
<1>2. {"open", "list", "assert", "check", "sync", "restore", "restoreSync"} \subseteq Labels
  BY DEF Labels, Opening, Replacing, Restoring
<1>3. run[p].pc \notin {"idle", "list", "open"} => t \in Txns
  BY DEF RunOK, TxnOK
<1>4. CASE \E c \in Commands : LockWorkspace(p, c)
  <2>1. PICK c \in Commands, label \in {"open", "list"} :
            /\ lock' = p
            /\ run' = [run EXCEPT ![p].pc = label, ![p].cmd = c]
    BY <1>4 DEF LockWorkspace
  <2>2. RunOK'
    BY <1>2, <2>1 DEF RunOK, Running, TxnOK
  <2> QED  BY <1>4, <2>2 DEF LockWorkspace, SrcOK, RestOK, fs, hist, bnds
<1>5. CASE Open(p)
  <2>1. CASE OnError(p) /\ UNCHANGED <<before, dirty, last>>
    BY <1>5, <2>1, OnErrorType DEF Open, SrcOK, RestOK, fs, bnds
  <2>2. ASSUME NEW u \in Txns,
               /\ before' = [before EXCEPT ![u] = src]
               /\ run' = [run EXCEPT ![p].pc = "assert", ![p].txn = u,
                                     ![p].todo = Files]
               /\ last' = u /\ dirty' = {}
               /\ UNCHANGED lock
        PROVE  SrcOK' /\ RunOK' /\ RestOK'
    <3>1. RunOK'
      BY <1>2, <2>2, UpdateTypes DEF Outcomes
    <3>2. RestOK'
      BY <1>5, <2>2 DEF Open, RestOK, SrcOK, fs, bnds
    <3> QED  BY <1>5, <3>1, <3>2 DEF Open, SrcOK, fs
  <2> QED  BY <1>5, <2>1, <2>2 DEF Open
<1>6. CASE SyncStateDir(p)
  <2>1. RunOK'
    BY <1>2, <1>6, GotoType, ChangedFiles DEF SyncStateDir
  <2> QED  BY <1>6, <2>1 DEF SyncStateDir, SrcOK, RestOK, hist, bnds
<1>7. CASE RenameSource(p, f)
  <2>1. SrcOK' /\ RunOK'
    BY <1>1, <1>2, <1>3, <1>7, GotoType, SourceTypes, JournalContents
       DEF RenameSource, AtFile
  <2> QED  BY <1>7, <2>1 DEF RenameSource, RestOK, hist, bnds
<1>8. CASE SyncRenamed(p, f)
  <2>1. SrcOK' /\ RunOK'
    BY <1>1, <1>2, <1>3, <1>8, GotoType, SourceTypes, JournalContents
       DEF SyncRenamed, AtFile
  <2> QED  BY <1>8, <2>1 DEF SyncRenamed, RestOK, hist, bnds
<1>9. CASE RestoreRename(p, f)
  <2>1. SrcOK' /\ RunOK'
    BY <1>1, <1>2, <1>3, <1>9, GotoType, SourceTypes, JournalContents
       DEF RestoreRename, AtFile
  <2> QED  BY <1>9, <2>1 DEF RestoreRename, RestOK, hist, bnds
<1>10. CASE RestoreSync(p, f)
  <2>1. SrcOK' /\ RunOK'
    BY <1>1, <1>2, <1>3, <1>10, GotoType, SourceTypes, JournalContents
       DEF RestoreSync, AtFile
  <2> QED  BY <1>10, <2>1 DEF RestoreSync, RestOK, hist, bnds
<1> QED
  BY <1>4, <1>5, <1>6, <1>7, <1>8, <1>9, <1>10

\* The events of the environment.
LEMMA EnvironmentTypes ==
    ASSUME SrcOK, JrOK, RunOK, RestOK, Environment
    PROVE  SrcOK' /\ JrOK' /\ RunOK' /\ RestOK'
<1>1. ASSUME NEW kind, Fault(kind)
      PROVE  RestOK' \/ ~UNCHANGED anchored
  BY <1>1, EnvAssumption DEF Fault, RestOK, hist
<1>2. ASSUME NEW p \in Procs, Signal(p)
      PROVE  SrcOK' /\ JrOK' /\ RunOK' /\ RestOK'
  <2>1. RunOK'
    BY <1>2 DEF Signal, RunOK, Running, TxnOK
  <2>2. RestOK'
    BY <1>1, <1>2 DEF Signal, fs
  <2> QED  BY <1>2, <2>1, <2>2 DEF Signal, SrcOK, JrOK, fs
<1>3. ASSUME NEW p \in Procs, Fail(p)
      PROVE  SrcOK' /\ JrOK' /\ RunOK' /\ RestOK'
  BY <1>1, <1>3, OnErrorType DEF Fail, SrcOK, JrOK, fs
<1>4. ASSUME NEW p \in Procs, Kill(p)
      PROVE  SrcOK' /\ JrOK' /\ RunOK' /\ RestOK'
  BY <1>1, <1>4, ReturnType DEF Kill, SrcOK, JrOK, fs
<1>5. ASSUME NEW f \in Files, NEW c \in Saves, Save(f, c)
      PROVE  SrcOK' /\ JrOK' /\ RunOK' /\ RestOK'
  <2>1. c \in Contents
    BY EnvAssumption
  <2>2. SrcOK'
    BY <1>5, <2>1 DEF Save, SrcOK
  <2>3. RestOK'
    BY <1>5, <2>1, EnvAssumption DEF Save, RestOK
  <2> QED  BY <1>5, <2>2, <2>3 DEF Save, JrOK, RunOK, TxnOK
<1>6. ASSUME PowerLoss
      PROVE  SrcOK' /\ JrOK' /\ RunOK' /\ RestOK'
  <2>1. SrcOK'
    BY <1>6 DEF PowerLoss, SrcOK
  <2>2. JrOK'
    <3>1. jr' \in [Txns -> Image]
      BY <1>6, Defaults DEF PowerLoss, JrOK
    <3>2. jrD' = [t \in Txns |-> {jr'[t]}]
      BY <1>6 DEF PowerLoss
    <3> QED  BY <3>1, <3>2 DEF JrOK
  <2>3. RunOK'
    BY <1>6, Defaults DEF PowerLoss, RunOK, TxnOK, Idle
  <2>4. anchored' \in BOOLEAN
    BY <1>6 DEF PowerLoss, RestOK
  <2>5. RestOK'
    BY <1>6, <2>4, EnvAssumption DEF PowerLoss, Fault, RestOK, hist
  <2> QED  BY <2>1, <2>2, <2>3, <2>5
<1> QED  BY <1>2, <1>3, <1>4, <1>5, <1>6 DEF Environment

\* What may be on disk of a journal directory keeps to the listed files.
ImagesListed == \A t \in Txns : \A i \in jrD[t] : i.backups \subseteq Changed(t)
LoopsListed  == \A p \in Procs :
    run[p].pc \in Looping => run[p].todo \subseteq Changed(run[p].txn)

LEMMA EntriesListed ==
    ASSUME JrOK, ImagesListed, UNCHANGED before,
           NEW t \in Txns, NEW f, NEW phase, NEW there,
           \/ f \in Changed(t) /\ PutBackup(t, f)
           \/ DropBackup(t, f)
           \/ PutPhase(t, phase) \/ PutDir(t, there)
           \/ SyncDir(t) \/ SyncList
    PROVE  ImagesListed'
<1>1. \A u : Changed(u)' = Changed(u)
  BY DEF Changed, After
<1>2. jrD \in [Txns -> SUBSET Image] /\ \A u \in Txns : jr[u] \in jrD[u]
  BY DEF JrOK
<1>3. CASE f \in Changed(t) /\ PutBackup(t, f)
  BY <1>1, <1>2, <1>3 DEF PutBackup, ImagesListed, Image
<1>4. CASE DropBackup(t, f)
  BY <1>1, <1>2, <1>4 DEF DropBackup, ImagesListed, Image
<1>5. CASE PutPhase(t, phase)
  BY <1>1, <1>2, <1>5 DEF PutPhase, ImagesListed, Image
<1>6. CASE PutDir(t, there)
  BY <1>1, <1>2, <1>6 DEF PutDir, ImagesListed, Image
<1>7. CASE SyncDir(t)
  BY <1>1, <1>2, <1>7 DEF SyncDir, ImagesListed
<1>8. CASE SyncList
  BY <1>1, <1>2, <1>8 DEF SyncList, ImagesListed
<1> QED  BY <1>3, <1>4, <1>5, <1>6, <1>7, <1>8

\* A loop goes on with fewer files, starts with the listed ones, or is over.
LEMMA LoopsKept ==
    ASSUME LoopsListed, UNCHANGED before, NEW p \in Procs,
           \A q \in Procs : q # p => run'[q] = run[q],
           \/ run'[p].pc \notin Looping
           \/ /\ run[p].pc \in Looping
              /\ run'[p].txn = run[p].txn
              /\ run'[p].todo \subseteq run[p].todo
           \/ run'[p].todo = Changed(run'[p].txn)
    PROVE  LoopsListed'
<1>1. \A u : Changed(u)' = Changed(u)
  BY DEF Changed, After
<1>2. \A q \in Procs : q # p =>
        (run[q].pc \in Looping => run[q].todo \subseteq Changed(run[q].txn))'
  BY <1>1 DEF LoopsListed
<1>3. (run[p].pc \in Looping => run[p].todo \subseteq Changed(run[p].txn))'
  BY <1>1 DEF LoopsListed
<1> QED  BY <1>2, <1>3 DEF LoopsListed

LEMMA GotoLoops ==
    ASSUME RunOK, LoopsListed, UNCHANGED before, NEW p \in Procs,
           NEW label, NEW S,
           \/ /\ Goto(p, label)
              /\ label \notin Looping \/ run[p].pc \in Looping
           \/ /\ Loop(p, label, S)
              /\ \/ label \notin Looping \/ S = Changed(run[p].txn)
                 \/ run[p].pc \in Looping /\ S \subseteq run[p].todo
    PROVE  LoopsListed'
<1>1. run \in [Procs -> Running]
  BY DEF RunOK
<1>2. \A q \in Procs : q # p => run'[q] = run[q]
  BY <1>1 DEF Goto, Loop
<1>3. run'[p].txn = run[p].txn /\ run'[p].pc = label
  BY <1>1 DEF Goto, Loop, Running
<1>4. CASE Goto(p, label) /\ (label \notin Looping \/ run[p].pc \in Looping)
  <2>1. run'[p].todo = run[p].todo
    BY <1>1, <1>4 DEF Goto, Running
  <2> QED  BY <1>2, <1>3, <1>4, <2>1, LoopsKept
<1>5. CASE /\ Loop(p, label, S)
           /\ \/ label \notin Looping \/ S = Changed(run[p].txn)
              \/ run[p].pc \in Looping /\ S \subseteq run[p].todo
  <2>1. run'[p].todo = S
    BY <1>1, <1>5 DEF Loop, Running
  <2> QED  BY <1>2, <1>3, <1>5, <2>1, LoopsKept
<1> QED  BY <1>4, <1>5

\* An error ends the loop, or starts the rollback of every listed file.
LEMMA OnErrorLoops ==
    ASSUME RunOK, LoopsListed, UNCHANGED before, NEW p \in Procs,
           OnError(p) \/ Return(p)
    PROVE  LoopsListed'
<1>1. run \in [Procs -> Running]
  BY DEF RunOK
<1>2. \A q \in Procs : q # p => run'[q] = run[q]
  BY <1>1 DEF OnError, Return
<1>3. CASE Return(p)
  <2>1. run'[p].pc \notin Looping
    BY <1>1, <1>3 DEF Return, Idle, Looping, Preparing, Restoring
  <2> QED  BY <1>2, <2>1, LoopsKept
<1>4. CASE run' = [run EXCEPT ![p].pc = "remove", ![p].outcome = "failed"]
  <2>1. run'[p].pc \notin Looping
    BY <1>1, <1>4 DEF Running, Looping, Preparing, Restoring
  <2> QED  BY <1>2, <2>1, LoopsKept
<1>5. CASE run' = [run EXCEPT ![p].pc = "restore", ![p].todo = Changed(run[p].txn),
                              ![p].outcome = "failed"]
  <2>1. run'[p].todo = Changed(run'[p].txn)
    BY <1>1, <1>5 DEF Running
  <2> QED  BY <1>2, <2>1, LoopsKept
<1> QED  BY <1>3, <1>4, <1>5 DEF OnError

\* Where a process writes to a journal directory, it has one.
LEMMA JournalStepListed ==
    ASSUME JrOK, RunOK, ImagesListed, LoopsListed, NEW p \in Procs, NEW f,
           \/ MakeJournalDir(p) \/ WriteBackup(p, f) \/ SyncBackup(p, f)
           \/ WriteJournal(p) \/ SyncJournal(p) \/ SyncTransactions(p)
           \/ WriteComplete(p) \/ SyncComplete(p)
           \/ RemoveEntry(p) \/ SyncRemoval(p)
    PROVE  ImagesListed' /\ LoopsListed'
<1> DEFINE t == run[p].txn
<1>1. run \in [Procs -> Running] /\ UNCHANGED before
  BY DEF RunOK, MakeJournalDir, WriteBackup, SyncBackup, WriteJournal, SyncJournal,
         SyncTransactions, WriteComplete, SyncComplete, RemoveEntry, SyncRemoval
<1>2. run[p].pc \notin {"idle", "list", "open"} => t \in Txns
  BY DEF RunOK, TxnOK
<1>3. UNCHANGED <<jr, jrD>> => ImagesListed'
  BY <1>1 DEF ImagesListed, Changed, After
<1>4. /\ {"backup", "backupSync", "journalSync", "listSync", "rootSync"} \subseteq Looping
      /\ "completeSync" \notin Looping /\ "removeSync" \notin Looping
      /\ "remove" \notin Looping /\ "list" \notin Looping
  BY DEF Looping, Preparing, Restoring
<1>5. CASE MakeJournalDir(p)
  <2>1. CASE OnError(p) /\ UNCHANGED fs
    BY <1>1, <1>3, <2>1, OnErrorLoops DEF fs
  <2>2. CASE t \in Txns /\ PutDir(t, TRUE) /\ Loop(p, "backup", Changed(t))
    BY <1>1, <2>2, EntriesListed, GotoLoops
  <2> QED  BY <1>2, <1>5, <2>1, <2>2 DEF MakeJournalDir, AtEnd
<1>6. CASE WriteBackup(p, f)
  <2>1. CASE OnError(p) /\ UNCHANGED fs
    BY <1>1, <1>3, <2>1, OnErrorLoops DEF fs
  <2>2. CASE PutBackup(t, f) /\ Goto(p, "backupSync")
    <3>1. t \in Txns /\ f \in Changed(t) /\ run[p].pc \in Looping
      BY <1>2, <1>4, <1>6 DEF WriteBackup, AtFile, LoopsListed
    <3> QED  BY <1>1, <2>2, <3>1, EntriesListed, GotoLoops
  <2> QED  BY <1>6, <2>1, <2>2 DEF WriteBackup
<1>7. CASE SyncBackup(p, f)
  <2>1. t \in Txns /\ run[p].pc \in Looping /\ run[p].todo \ {f} \subseteq run[p].todo
    BY <1>2, <1>4, <1>7 DEF SyncBackup, AtFile
  <2>2. SyncDir(t) /\ Loop(p, "backup", run[p].todo \ {f})
    BY <1>7 DEF SyncBackup
  <2>3. ImagesListed'
    BY <1>1, <2>1, <2>2, EntriesListed
  <2> QED  BY <1>1, <2>1, <2>2, <2>3, GotoLoops
<1>8. CASE WriteJournal(p) \/ SyncJournal(p) \/ SyncTransactions(p) \/ WriteComplete(p)
  <2>1. t \in Txns
    BY <1>2, <1>8 DEF WriteJournal, SyncJournal, SyncTransactions, WriteComplete, AtEnd
  <2>2. PutPhase(t, "prepared") \/ SyncDir(t) \/ SyncList \/ PutPhase(t, "complete")
    BY <1>8 DEF WriteJournal, SyncJournal, SyncTransactions, WriteComplete
  <2>3. ImagesListed'
    BY <1>1, <2>1, <2>2, EntriesListed
  <2>4. \/ run[p].pc \in Looping /\ Goto(p, "journalSync")
        \/ run[p].pc \in Looping /\ Goto(p, "listSync")
        \/ run[p].pc \in Looping /\ Goto(p, "rootSync")
        \/ Goto(p, "completeSync")
    BY <1>4, <1>8 DEF WriteJournal, SyncJournal, SyncTransactions, WriteComplete, AtEnd
  <2>5. LoopsListed'
    BY <1>1, <1>4, <2>4, GotoLoops
  <2> QED  BY <2>3, <2>5
<1>9. CASE SyncComplete(p)
  <2>1. t \in Txns /\ SyncDir(t)
    BY <1>2, <1>9 DEF SyncComplete
  <2>2. ImagesListed'
    BY <1>1, <2>1, EntriesListed
  <2>3. /\ run'[p].pc = "remove"
        /\ \A q \in Procs : q # p => run'[q] = run[q]
    BY <1>1, <1>9 DEF SyncComplete, Running
  <2> QED  BY <1>1, <1>4, <2>2, <2>3, LoopsKept
<1>10. CASE RemoveEntry(p)
  <2>1. t \in Txns
    BY <1>2, <1>10 DEF RemoveEntry
  <2>2. \/ PutPhase(t, "none") \/ PutDir(t, FALSE)
        \/ \E g \in jr[t].backups : DropBackup(t, g)
    BY <1>10 DEF RemoveEntry
  <2>3. ImagesListed'
    BY <1>1, <2>1, <2>2, EntriesListed
  <2>4. UNCHANGED run \/ Goto(p, "removeSync")
    BY <1>10 DEF RemoveEntry
  <2>5. CASE UNCHANGED run
    <3>1. \A u : Changed(u)' = Changed(u)
      BY <1>1 DEF Changed, After
    <3> QED  BY <2>3, <2>5, <3>1 DEF LoopsListed
  <2>6. CASE Goto(p, "removeSync")
    BY <1>1, <1>4, <2>3, <2>6, GotoLoops
  <2> QED  BY <2>3, <2>4, <2>5, <2>6
<1>11. CASE SyncRemoval(p)
  <2>1. p \in Procs /\ SyncList /\ run[p].pc = "removeSync"
    BY <1>11 DEF SyncRemoval
  <2>2. ImagesListed'
    BY <1>1, <1>2, <2>1, EntriesListed
  <2>3. CASE Return(p)
    BY <1>1, <2>2, <2>3, OnErrorLoops
  <2>4. CASE run' = [run EXCEPT ![p] = [Idle EXCEPT !.pc = "list", !.cmd = "recover",
                                          !.interrupted = run[p].interrupted]]
    <3>1. run'[p].pc = "list" /\ \A q \in Procs : q # p => run'[q] = run[q]
      BY <1>1, <2>4 DEF Idle
    <3> QED  BY <1>1, <1>4, <2>2, <3>1, LoopsKept
  <2> QED  BY <1>11, <2>3, <2>4 DEF SyncRemoval
<1> QED  BY <1>5, <1>6, <1>7, <1>8, <1>9, <1>10, <1>11

\* The steps of a process that leave the journal directories alone.
LEMMA ReadingListed ==
    ASSUME RunOK, ImagesListed, LoopsListed, NEW p \in Procs, NEW f,
           \/ \E c \in Commands : LockWorkspace(p, c)
           \/ AssertSnapshot(p, f) \/ CheckSource(p, f) \/ CheckEnd(p)
           \/ FinalCheck(p) \/ VerifySnapshot(p, f) \/ VerifyEnd(p)
           \/ ListTransactions(p) \/ RestoreCheck(p, f) \/ RestoreEnd(p)
           \/ SyncStateDir(p) \/ RenameSource(p, f) \/ SyncRenamed(p, f)
           \/ RestoreRename(p, f) \/ RestoreSync(p, f)
    PROVE  ImagesListed' /\ LoopsListed'
<1> DEFINE rest == run[p].todo \ {f}
<1>1. run \in [Procs -> Running] /\ UNCHANGED <<before, jr, jrD>>
  BY DEF RunOK, LockWorkspace, AssertSnapshot, CheckSource, CheckEnd, FinalCheck,
         VerifySnapshot, VerifyEnd, ListTransactions, RestoreCheck, RestoreEnd,
         SyncStateDir, RenameSource, SyncRenamed, RestoreRename, RestoreSync, fs
<1>2. ImagesListed'
  BY <1>1 DEF ImagesListed, Changed, After
<1>3. /\ {"check", "rename", "sync", "restore", "restoreRename", "restoreSync"} \subseteq Looping
      /\ Looping \cap {"open", "list", "assert", "final", "verify", "complete", "remove"} = {}
      /\ rest \subseteq run[p].todo
  BY DEF Looping, Preparing, Restoring
<1>4. CASE OnError(p)
  BY <1>1, <1>2, <1>4, OnErrorLoops
<1>5. CASE \/ \E l \in {"assert", "final", "verify", "complete", "remove"} :
                 Goto(p, l) \/ Loop(p, l, rest) \/ Loop(p, l, Files)
           \/ Loop(p, "check", Changed(run[p].txn))
           \/ /\ run[p].pc \in Looping
              /\ \E l \in Looping : Goto(p, l) \/ Loop(p, l, rest)
  BY <1>1, <1>2, <1>3, <1>5, GotoLoops
<1>6. CASE \E c \in Commands : LockWorkspace(p, c)
  <2>1. /\ run'[p].pc \in {"open", "list"}
        /\ \A q \in Procs : q # p => run'[q] = run[q]
    BY <1>1, <1>6 DEF LockWorkspace, Running
  <2> QED  BY <1>1, <1>2, <1>3, <2>1, LoopsKept
<1>7. CASE ListTransactions(p)
  <2>1. CASE \E u \in Txns : run' = [run EXCEPT ![p].pc = "remove", ![p].txn = u,
                                                ![p].outcome = "fixed"]
    <3>1. /\ run'[p].pc = "remove"
          /\ \A q \in Procs : q # p => run'[q] = run[q]
      BY <1>1, <2>1 DEF Running
    <3> QED  BY <1>1, <1>2, <1>3, <3>1, LoopsKept
  <2>2. CASE \E u \in Txns :
               run' = [run EXCEPT ![p].pc = "restore", ![p].txn = u,
                                  ![p].todo = Changed(u), ![p].outcome = "restored"]
    <3>1. /\ run'[p].todo = Changed(run'[p].txn)
          /\ \A q \in Procs : q # p => run'[q] = run[q]
      BY <1>1, <2>2 DEF Running
    <3> QED  BY <1>1, <1>2, <3>1, LoopsKept
  <2> QED  BY <1>4, <1>7, <2>1, <2>2 DEF ListTransactions, Visible
<1>8. CASE RestoreCheck(p, f)
  <2>1. run[p].pc = "restore"
    BY <1>8 DEF RestoreCheck, AtFile
  <2>2. CASE run' = [run EXCEPT ![p].todo = @ \ {f}, ![p].conflicts = @ \cup {f}]
    <3>1. /\ run'[p].txn = run[p].txn /\ run'[p].todo \subseteq run[p].todo
          /\ \A q \in Procs : q # p => run'[q] = run[q]
      BY <1>1, <2>2 DEF Running
    <3> QED  BY <1>1, <1>2, <1>3, <2>1, <3>1, LoopsKept
  <2> QED  BY <1>3, <1>4, <1>5, <1>8, <2>1, <2>2 DEF RestoreCheck
<1>9. CASE \/ AssertSnapshot(p, f) \/ CheckSource(p, f) \/ CheckEnd(p)
           \/ FinalCheck(p) \/ VerifySnapshot(p, f) \/ VerifyEnd(p) \/ RestoreEnd(p)
  BY <1>3, <1>4, <1>5, <1>9
     DEF AssertSnapshot, CheckSource, CheckEnd, FinalCheck, VerifySnapshot, VerifyEnd,
         RestoreEnd, AtFile, AtEnd
<1>10. CASE \/ SyncStateDir(p) \/ RenameSource(p, f) \/ SyncRenamed(p, f)
            \/ RestoreRename(p, f) \/ RestoreSync(p, f)
  BY <1>3, <1>5, <1>10
     DEF SyncStateDir, RenameSource, SyncRenamed, RestoreRename, RestoreSync, AtFile
<1> QED  BY <1>6, <1>7, <1>8, <1>9, <1>10

\* A fix takes a snapshot only under a name no journal and no process uses.
LEMMA OpenListed ==
    ASSUME RunOK, ImagesListed, LoopsListed, NEW p \in Procs, Open(p)
    PROVE  ImagesListed' /\ LoopsListed'
<1>1. run \in [Procs -> Running] /\ UNCHANGED <<jr, jrD>>
  BY DEF RunOK, Open, fs
<1>2. CASE OnError(p) /\ UNCHANGED before
  BY <1>1, <1>2, OnErrorLoops DEF ImagesListed, Changed, After
<1>3. ASSUME NEW t \in Txns, Free(t),
             before' = [before EXCEPT ![t] = src],
             run' = [run EXCEPT ![p].pc = "assert", ![p].txn = t, ![p].todo = Files]
      PROVE  ImagesListed' /\ LoopsListed'
  <2>1. \A u \in Txns : u # t => Changed(u)' = Changed(u)
    BY <1>3 DEF Changed, After
  <2>2. \A i \in jrD[t] : i.backups = {}
    BY <1>3 DEF Free, Nothing
  <2>3. ImagesListed'
    BY <1>1, <2>1, <2>2 DEF ImagesListed
  <2>4. \A q \in Procs : run'[q].pc \in Looping => q # p
    BY <1>1, <1>3 DEF Running, Looping, Preparing, Restoring
  <2>5. ASSUME NEW q \in Procs, run'[q].pc \in Looping
        PROVE  (run[q].todo \subseteq Changed(run[q].txn))'
    <3>1. q # p /\ run'[q] = run[q] /\ run[q].txn # t
      BY <1>1, <1>3, <2>4, <2>5 DEF Free
    <3>2. run[q].txn \in Txns
      BY <2>5, <3>1 DEF RunOK, TxnOK, Looping, Preparing, Restoring
    <3> QED  BY <2>1, <2>5, <3>1, <3>2 DEF LoopsListed
  <2> QED  BY <2>3, <2>5 DEF LoopsListed
<1> QED  BY <1>2, <1>3 DEF Open

\* The environment never makes a backup, and never prolongs a loop.
LEMMA EnvironmentListed ==
    ASSUME JrOK, RunOK, ImagesListed, LoopsListed, Environment
    PROVE  ImagesListed' /\ LoopsListed'
<1>1. run \in [Procs -> Running]
  BY DEF RunOK
<1>2. UNCHANGED before
  BY DEF Environment, Signal, Fail, Kill, Save, PowerLoss, Fault
<1>3. UNCHANGED <<jr, jrD>> => ImagesListed'
  BY <1>2 DEF ImagesListed, Changed, After
<1>4. ASSUME NEW p \in Procs, Signal(p)
      PROVE  ImagesListed' /\ LoopsListed'
  <2>1. /\ run'[p].pc = run[p].pc /\ run'[p].txn = run[p].txn
        /\ run'[p].todo = run[p].todo
        /\ \A q \in Procs : q # p => run'[q] = run[q]
    BY <1>1, <1>4 DEF Signal, Running
  <2> QED  BY <1>2, <1>3, <1>4, <2>1, LoopsKept DEF Signal, fs
<1>5. ASSUME NEW p \in Procs, Fail(p) \/ Kill(p)
      PROVE  ImagesListed' /\ LoopsListed'
  BY <1>2, <1>3, <1>5, OnErrorLoops DEF Fail, Kill, fs
<1>6. ASSUME NEW f, NEW c, Save(f, c)
      PROVE  ImagesListed' /\ LoopsListed'
  BY <1>2, <1>3, <1>6 DEF Save, LoopsListed, Changed, After
<1>7. ASSUME PowerLoss
      PROVE  ImagesListed' /\ LoopsListed'
  <2>1. /\ \A t \in Txns : jr'[t] \in jrD[t] \/ jr'[t] = Nothing
        /\ jrD' = [t \in Txns |-> {jr'[t]}]
        /\ run' = [p \in Procs |-> Idle]
    BY <1>7 DEF PowerLoss
  <2>2. \A t \in Txns : jr'[t].backups \subseteq Changed(t)
    BY <2>1 DEF ImagesListed, Nothing
  <2>3. ImagesListed'
    BY <1>2, <2>1, <2>2 DEF ImagesListed, Changed, After
  <2>4. LoopsListed'
    BY <2>1 DEF LoopsListed, Looping, Preparing, Restoring, Idle
  <2> QED  BY <2>3, <2>4
<1> QED  BY <1>4, <1>5, <1>6, <1>7 DEF Environment

\* Every step keeps journals and loops to the listed files.
LEMMA ListedStep ==
    ASSUME JrOK, RunOK, Listed, [Next]_vars
    PROVE  Listed'
<1>1. ImagesListed /\ LoopsListed
  BY DEF Listed, ImagesListed, LoopsListed
<1>2. CASE UNCHANGED vars
  BY <1>2 DEF vars, fs, Listed, Changed, After
<1>3. ASSUME NEW p \in Procs, Step(p)
      PROVE  ImagesListed' /\ LoopsListed'
  BY <1>1, <1>3, OpenListed, ReadingListed, JournalStepListed DEF Step
<1>4. ASSUME NEW p \in Procs, NEW c \in Commands, LockWorkspace(p, c)
      PROVE  ImagesListed' /\ LoopsListed'
  BY <1>1, <1>4, ReadingListed
<1>5. CASE Environment
  BY <1>1, <1>5, EnvironmentListed DEF Listed, ImagesListed, LoopsListed
<1> QED
  BY <1>2, <1>3, <1>4, <1>5 DEF Next, Listed, ImagesListed, LoopsListed

\* Every step keeps the variables well typed.
LEMMA TypeStep == TypeOK /\ TxnOK /\ [Next]_vars => TypeOK' /\ TxnOK'
<1> SUFFICES ASSUME SrcOK, JrOK, RunOK, RestOK, Listed, [Next]_vars
             PROVE  SrcOK' /\ JrOK' /\ RunOK' /\ RestOK'
  <2>1. JrOK /\ RunOK /\ Listed /\ [Next]_vars => Listed'
    BY ListedStep
  <2>2. (SrcOK /\ JrOK /\ RunOK /\ RestOK /\ Listed)' => (TypeOK /\ TxnOK)'
    BY DEF TypeOK, TxnOK, SrcOK, JrOK, RunOK, RestOK, Running
  <2> QED  BY <2>1, <2>2, TypeParts
<1>1. ASSUME NEW p \in Procs, NEW f,
             \/ AssertSnapshot(p, f) \/ CheckSource(p, f) \/ CheckEnd(p)
             \/ FinalCheck(p) \/ VerifySnapshot(p, f) \/ VerifyEnd(p)
             \/ ListTransactions(p) \/ RestoreCheck(p, f) \/ RestoreEnd(p)
      PROVE  SrcOK' /\ JrOK' /\ RunOK' /\ RestOK'
  <2>1. RunOK'
    BY <1>1, ReadingTypes
  <2>2. UNCHANGED <<fs, before, hist, bnds>>
    BY <1>1 DEF AssertSnapshot, CheckSource, CheckEnd, FinalCheck, VerifySnapshot,
                VerifyEnd, ListTransactions, RestoreCheck, RestoreEnd
  <2> QED  BY <2>1, <2>2 DEF fs, hist, bnds, SrcOK, JrOK, RestOK
<1>2. ASSUME NEW p \in Procs, NEW f,
             \/ MakeJournalDir(p) \/ WriteBackup(p, f) \/ SyncBackup(p, f)
             \/ WriteJournal(p) \/ SyncJournal(p) \/ SyncTransactions(p)
             \/ WriteComplete(p) \/ SyncComplete(p)
             \/ RemoveEntry(p) \/ SyncRemoval(p)
      PROVE  SrcOK' /\ JrOK' /\ RunOK' /\ RestOK'
  <2>1. JrOK' /\ RunOK'
    BY <1>2, JournalTypes
  <2>2. UNCHANGED <<src, srcD, anchored, before, hist, bnds>>
    BY <1>2 DEF MakeJournalDir, WriteBackup, SyncBackup, WriteJournal, SyncJournal,
                SyncTransactions, WriteComplete, SyncComplete, RemoveEntry, SyncRemoval, fs
  <2> QED  BY <2>1, <2>2 DEF hist, bnds, SrcOK, RestOK
<1>3. ASSUME NEW p \in Procs, NEW f,
             \/ \E c \in Commands : LockWorkspace(p, c)
             \/ Open(p) \/ SyncStateDir(p)
             \/ RenameSource(p, f) \/ SyncRenamed(p, f)
             \/ RestoreRename(p, f) \/ RestoreSync(p, f)
      PROVE  SrcOK' /\ JrOK' /\ RunOK' /\ RestOK'
  <2>1. SrcOK' /\ RunOK' /\ RestOK'
    BY <1>3, SourceStepTypes
  <2>2. UNCHANGED <<jr, jrD>>
    BY <1>3 DEF LockWorkspace, Open, SyncStateDir, RenameSource, SyncRenamed,
                RestoreRename, RestoreSync, fs
  <2> QED  BY <2>1, <2>2 DEF JrOK
<1>4. CASE UNCHANGED vars
  BY <1>4 DEF vars, fs, hist, bnds, SrcOK, JrOK, RunOK, RestOK, TxnOK
<1> QED  BY <1>1, <1>2, <1>3, <1>4, EnvironmentTypes DEF Next, Step

\* Every initial state is typed, and no process has a transaction yet.
LEMMA TypeInit == Init => TypeOK /\ TxnOK
<1> SUFFICES ASSUME Init PROVE SrcOK /\ JrOK /\ RunOK /\ RestOK /\ Listed
  BY TypeParts
<1>1. src \in [Files -> Contents]
  BY EnvAssumption DEF Init
<1>2. SrcOK
  BY <1>1 DEF Init, SrcOK
<1>3. RestOK
  <2>1. before \in [Txns -> [Files -> Contents]] /\ user \in [Files -> Contents]
    BY <1>1 DEF Init
  <2>2. saves \in 0..MaxSaves /\ faults \in 0..MaxFaults
    BY EnvAssumption DEF Init
  <2> QED  BY <2>1, <2>2 DEF Init, RestOK
<1>4. JrOK /\ RunOK
  BY Defaults DEF Init, JrOK, RunOK, TxnOK, Idle
<1>5. Listed
  BY DEF Init, Listed, Looping, Preparing, Restoring, Idle, Nothing
<1> QED  BY <1>2, <1>3, <1>4, <1>5

\* The variables of the transaction range over the values the code gives them.
THEOREM TypeCorrect == Spec => []TypeOK
<1>1. Init => TypeOK /\ TxnOK
  BY TypeInit
<1>2. (TypeOK /\ TxnOK) /\ [Next]_vars => (TypeOK /\ TxnOK)'
  BY TypeStep
<1> QED  BY <1>1, <1>2, PTL DEF Spec

-----------------------------------------------------------------------------
(* One invocation at a time.                                               *)

\* Process p takes a step of its own: the others do not move, and the lock is
\* freed if and only if p ends.
Alone(p) ==
    /\ \A q \in Procs \ {p} : run'[q] = run[q]
    /\ \/ run'[p].pc = "idle" /\ lock' = NoProc
       \/ run'[p].pc # "idle" /\ lock' = lock

\* What a step of one process leaves alone: the other processes, and who holds the lock unless it ends.
LEMMA OnErrorAlone ==
    ASSUME RunOK, NEW p \in Procs, OnError(p)
    PROVE  Alone(p)
<1>1. CASE run[p].pc \in Preparing
  BY <1>1 DEF OnError, Alone, RunOK, Running, Preparing, Replacing
<1>2. CASE run[p].pc \in Replacing
  BY <1>2 DEF OnError, Alone, RunOK, Running, Preparing, Replacing
<1>3. CASE run[p].pc \notin Preparing \cup Replacing
  BY <1>3 DEF OnError, Return, Alone, RunOK, Running, Preparing, Replacing, Idle
<1> QED  BY <1>1, <1>2, <1>3

LEMMA GotoAlone ==
    ASSUME RunOK, NEW p \in Procs, NEW label, label # "idle", NEW S,
           Goto(p, label) \/ Loop(p, label, S), UNCHANGED lock
    PROVE  Alone(p)
BY DEF Goto, Loop, Alone, RunOK, Running

LEMMA UpdateAlone ==
    ASSUME RunOK, NEW p \in Procs, UNCHANGED lock, NEW label, label # "idle",
           NEW t, NEW S, NEW o,
           \/ run' = [run EXCEPT ![p].pc = label, ![p].txn = t, ![p].todo = S]
           \/ run' = [run EXCEPT ![p].pc = label, ![p].txn = t, ![p].outcome = o]
           \/ run' = [run EXCEPT ![p].pc = label, ![p].txn = t, ![p].todo = S,
                                 ![p].outcome = o]
    PROVE  Alone(p)
<1>1. run \in [Procs -> Running]
  BY DEF RunOK
<1>2. run'[p].pc = label /\ \A q \in Procs \ {p} : run'[q] = run[q]
  BY <1>1 DEF Running
<1> QED  BY <1>2 DEF Alone

\* A step of the code changes the state of the process that takes it and no other.
LEMMA StepAlone ==
    ASSUME RunOK, NEW p \in Procs, Step(p)
    PROVE  run[p].pc # "idle" /\ Alone(p)
<1> USE DEF AtFile, AtEnd
<1>1. ASSUME NEW f, \/ AssertSnapshot(p, f) \/ CheckSource(p, f) \/ CheckEnd(p)
                    \/ FinalCheck(p) \/ VerifySnapshot(p, f) \/ VerifyEnd(p)
                    \/ RestoreEnd(p)
      PROVE  run[p].pc # "idle" /\ Alone(p)
  BY <1>1, OnErrorAlone, GotoAlone
     DEF AssertSnapshot, CheckSource, CheckEnd, FinalCheck, VerifySnapshot, VerifyEnd,
         RestoreEnd
<1>2. ASSUME NEW f, RestoreCheck(p, f)
      PROVE  run[p].pc # "idle" /\ Alone(p)
  <2>1. ASSUME run[p].pc = "restore", UNCHANGED lock,
               run' = [run EXCEPT ![p].todo = @ \ {f},
                                  ![p].conflicts = @ \cup {f}]
        PROVE  Alone(p)
    BY <2>1 DEF Alone, RunOK, Running
  <2> QED  BY <1>2, <2>1, OnErrorAlone, GotoAlone DEF RestoreCheck
<1>3. CASE ListTransactions(p)
  <2>1. ASSUME NEW u \in Txns, UNCHANGED lock,
               run' = [run EXCEPT ![p].pc = "remove", ![p].txn = u,
                                  ![p].outcome = "fixed"]
        PROVE  Alone(p)
    BY <2>1, UpdateAlone
  <2>2. ASSUME NEW u \in Txns, UNCHANGED lock,
               run' = [run EXCEPT ![p].pc = "restore", ![p].txn = u,
                                  ![p].todo = Changed(u), ![p].outcome = "restored"]
        PROVE  Alone(p)
    BY <2>2, UpdateAlone
  <2> QED  BY <1>3, <2>1, <2>2, OnErrorAlone DEF ListTransactions, Visible
<1>4. CASE Open(p)
  <2>1. ASSUME NEW u \in Txns, UNCHANGED lock,
               run' = [run EXCEPT ![p].pc = "assert", ![p].txn = u, ![p].todo = Files]
        PROVE  Alone(p)
    BY <2>1, UpdateAlone
  <2>2. \/ OnError(p)
        \/ \E u \in Txns :
              /\ run' = [run EXCEPT ![p].pc = "assert", ![p].txn = u, ![p].todo = Files]
              /\ UNCHANGED lock
    BY <1>4 DEF Open
  <2>3. run[p].pc # "idle"
    BY <1>4 DEF Open
  <2> QED  BY <2>1, <2>2, <2>3, OnErrorAlone
<1>5. ASSUME NEW f, \/ MakeJournalDir(p) \/ WriteBackup(p, f) \/ SyncBackup(p, f)
                    \/ WriteJournal(p) \/ SyncJournal(p) \/ SyncTransactions(p)
                    \/ WriteComplete(p) \/ SyncStateDir(p)
      PROVE  run[p].pc # "idle" /\ Alone(p)
  BY <1>5, OnErrorAlone, GotoAlone
     DEF MakeJournalDir, WriteBackup, SyncBackup, WriteJournal, SyncJournal,
         SyncTransactions, WriteComplete, SyncStateDir
<1>6. ASSUME NEW f, \/ RenameSource(p, f) \/ SyncRenamed(p, f)
                    \/ RestoreRename(p, f) \/ RestoreSync(p, f)
      PROVE  run[p].pc # "idle" /\ Alone(p)
  BY <1>6, GotoAlone DEF RenameSource, SyncRenamed, RestoreRename, RestoreSync
<1>7. CASE SyncComplete(p)
  BY <1>7 DEF SyncComplete, Alone, RunOK, Running
<1>8. CASE RemoveEntry(p)
  <2>1. CASE UNCHANGED run
    BY <1>8, <2>1 DEF RemoveEntry, Alone
  <2>2. CASE Goto(p, "removeSync")
    BY <1>8, <2>2, GotoAlone DEF RemoveEntry
  <2> QED  BY <1>8, <2>1, <2>2 DEF RemoveEntry
<1>9. CASE SyncRemoval(p)
  <2> DEFINE next == [Idle EXCEPT !.pc = "list", !.cmd = "recover",
                                  !.interrupted = run[p].interrupted]
  <2>1. next.pc = "list"
    BY DEF Idle
  <2> HIDE DEF next
  <2>2. ASSUME run' = [run EXCEPT ![p] = next], UNCHANGED lock
        PROVE  Alone(p)
    BY <2>1, <2>2 DEF Alone, RunOK
  <2>3. ASSUME Return(p)
        PROVE  Alone(p)
    BY <2>3 DEF Return, Alone, RunOK, Idle
  <2> QED  BY <1>9, <2>2, <2>3 DEF SyncRemoval, next
<1> QED
  BY <1>1, <1>2, <1>3, <1>4, <1>5, <1>6, <1>7, <1>8, <1>9 DEF Step

\* The flock admits one process, and every way to end a run gives it back.
LEMMA LockStep == TypeOK /\ TxnOK /\ OneAtATime /\ [Next]_vars => OneAtATime'
<1> SUFFICES ASSUME RunOK, OneAtATime, [Next]_vars
             PROVE  OneAtATime'
  BY TypeParts
<1>1. ASSUME NEW p \in Procs, run[p].pc # "idle", Alone(p)
      PROVE  OneAtATime'
  BY <1>1, NoProcAssumption DEF OneAtATime, Alone
<1>2. ASSUME NEW p \in Procs, NEW c \in Commands, LockWorkspace(p, c)
      PROVE  OneAtATime'
  BY <1>2, NoProcAssumption DEF LockWorkspace, OneAtATime, RunOK, Running
<1>3. ASSUME NEW p \in Procs, Step(p)
      PROVE  OneAtATime'
  BY <1>1, <1>3, StepAlone
<1>4. ASSUME NEW p \in Procs, Signal(p)
      PROVE  OneAtATime'
  BY <1>4 DEF Signal, fs, OneAtATime, RunOK, Running
<1>5. ASSUME NEW p \in Procs, Fail(p) \/ Kill(p)
      PROVE  OneAtATime'
  BY <1>1, <1>5, OnErrorAlone DEF Fail, Kill, Return, Alone, Idle, RunOK
<1>6. CASE PowerLoss
  BY <1>6, NoProcAssumption DEF PowerLoss, OneAtATime, Idle
<1>7. CASE UNCHANGED <<run, lock>>
  BY <1>7 DEF OneAtATime
<1> QED
  BY <1>2, <1>3, <1>4, <1>5, <1>6, <1>7 DEF Next, Environment, Save, vars

\* The exclusive flock on the lock file makes the tool's invocations exclude
\* each other, through every error path, signal, kill and power loss.
THEOREM MutualExclusion == Spec => []OneAtATime
<1>1. Init => TypeOK /\ TxnOK /\ OneAtATime
  BY TypeInit, NoProcAssumption DEF Init, OneAtATime, Idle
<1>2. (TypeOK /\ TxnOK /\ OneAtATime) /\ [Next]_vars => (TypeOK /\ TxnOK /\ OneAtATime)'
  BY TypeStep, LockStep
<1> QED  BY <1>1, <1>2, PTL DEF Spec

-----------------------------------------------------------------------------
(* The write-ahead discipline.                                             *)

\* A step of one process leaves nothing to show for the others: they are idle.
LEMMA OnlyOwnJournal ==
    ASSUME RunOK, OneAtATime, NEW p \in Procs, run[p].pc # "idle", Alone(p),
           JournalAt(p)'
    PROVE  JournalInv'
<1> SUFFICES ASSUME NEW q \in Procs, q # p
             PROVE  JournalAt(q)'
  BY DEF JournalInv
<1>1. run'[q].pc = "idle"
  BY DEF OneAtATime, Alone
<1> QED  BY <1>1 DEF JournalAt, Replacing, Restoring

\* A step that touches neither the journals nor the snapshots, and goes to a
\* label that asks no more of the journal than the label it leaves.
LEMMA JournalStays ==
    ASSUME RunOK, NEW p \in Procs, JournalAt(p), UNCHANGED <<jr, jrD, anchored, before>>,
           NEW label, NEW S,
           Goto(p, label) \/ Loop(p, label, S),
           \/ label \in {"idle", "remove", "removeSync"}
           \/ run[p].pc = "assert" /\ label = "assert"
           \/ /\ run[p].pc \in Replacing \ {"completeSync"}
              /\ label \in Replacing \ {"completeSync"}
           \/ run[p].pc \in Restoring /\ label \in Restoring
    PROVE  JournalAt(p)'
<1>1. /\ run'[p].pc = label /\ run'[p].txn = run[p].txn /\ run'[p].cmd = run[p].cmd
  BY DEF Goto, Loop, RunOK, Running
<1>2. \A t \in Txns : Changed(t)' = Changed(t)
  BY DEF Changed, After
<1>3. run[p].pc \notin {"idle", "list", "open"} => run[p].txn \in Txns
  BY DEF RunOK, TxnOK
<1>4. CASE label \in {"idle", "remove", "removeSync"}
  BY <1>1, <1>4 DEF JournalAt, Replacing, Restoring
<1>5. CASE run[p].pc = "assert" /\ label = "assert"
  BY <1>1, <1>5 DEF JournalAt, Replacing, Restoring
<1>6. CASE /\ run[p].pc \in Replacing \ {"completeSync"}
           /\ label \in Replacing \ {"completeSync"}
  BY <1>1, <1>2, <1>3, <1>6 DEF JournalAt, Replacing, Restoring, Prepared
<1>7. CASE run[p].pc \in Restoring /\ label \in Restoring
  BY <1>1, <1>2, <1>3, <1>7 DEF JournalAt, Replacing, Restoring
<1> QED  BY <1>4, <1>5, <1>6, <1>7

\* A failed replacement is rolled back under the journal it wrote.
LEMMA OnErrorJournal ==
    ASSUME RunOK, NEW p \in Procs, JournalAt(p), UNCHANGED <<jr, jrD, anchored, before>>,
           OnError(p)
    PROVE  JournalAt(p)'
<1>1. CASE run[p].pc \in Preparing
  <2>1. run'[p].pc = "remove"
    BY <1>1 DEF OnError, RunOK, Running, Preparing, Replacing
  <2> QED  BY <2>1 DEF JournalAt, Replacing, Restoring
<1>2. CASE run[p].pc \in Replacing
  <2>1. run'[p].pc = "restore" /\ run'[p].txn = run[p].txn
    <3>1. run' = [run EXCEPT ![p].pc = "restore", ![p].todo = Changed(run[p].txn),
                             ![p].outcome = "failed"]
      BY <1>2 DEF OnError, Preparing, Replacing
    <3>2. run \in [Procs -> Running]
      BY DEF RunOK
    <3> QED  BY <3>1, <3>2 DEF Running
  <2>2. run[p].txn \in Txns
    BY <1>2 DEF RunOK, TxnOK, Replacing
  <2>3. \A t \in Txns : Changed(t)' = Changed(t)
    BY DEF Changed, After
  <2> QED  BY <1>2, <2>1, <2>2, <2>3 DEF JournalAt, Replacing, Restoring, Prepared
<1>3. CASE run[p].pc \notin Preparing \cup Replacing
  <2>1. run'[p].pc = "idle"
    BY <1>3 DEF OnError, Return, RunOK, Preparing, Replacing, Idle
  <2> QED  BY <2>1 DEF JournalAt, Replacing, Restoring
<1> QED  BY <1>1, <1>2, <1>3

\* A loop is at one file at a time.
LEMMA FirstIsUnique ==
    ASSUME NEW S \in SUBSET Nat, NEW f \in S, \A h \in S : f <= h
    PROVE  \A g \in S : (\A h \in S : g <= h) => g = f
<1> SUFFICES ASSUME NEW g \in S, \A h \in S : g <= h
             PROVE  g = f
  OBVIOUS
<1>1. g <= f /\ f <= g
  OBVIOUS
<1> QED  BY <1>1

\* Every step of commit, rollback and recover keeps the record of what is on disk.
LEMMA JournalStep ==
    TypeOK /\ TxnOK /\ OneAtATime /\ JournalInv /\ [Next]_vars => JournalInv'
<1> SUFFICES ASSUME SrcOK, JrOK, RunOK, RestOK, OneAtATime, JournalInv, [Next]_vars
             PROVE  JournalInv'
  BY TypeParts
<1> USE DEF AtFile, AtEnd
<1>1. ASSUME NEW p \in Procs, Step(p)
      PROVE  JournalInv'
  <2> DEFINE t == run[p].txn
  <2> DEFINE todo == run[p].todo
  <2> SUFFICES JournalAt(p)'
    BY <1>1, StepAlone, OnlyOwnJournal
  <2>1. JournalAt(p)
    BY DEF JournalInv
  <2>2. run[p].pc \notin {"idle", "list", "open"} => t \in Txns
    BY DEF RunOK, TxnOK
  <2>3. ASSUME NEW f,
               \/ AssertSnapshot(p, f) \/ CheckSource(p, f) \/ CheckEnd(p)
               \/ FinalCheck(p) \/ VerifySnapshot(p, f) \/ VerifyEnd(p)
               \/ RestoreEnd(p)
        PROVE  JournalAt(p)'
    BY <2>1, <2>3, JournalStays, OnErrorJournal
       DEF AssertSnapshot, CheckSource, CheckEnd, FinalCheck, VerifySnapshot, VerifyEnd,
           RestoreEnd, fs, Replacing, Restoring
  <2>4. ASSUME NEW f,
               \/ RenameSource(p, f) \/ SyncRenamed(p, f)
               \/ RestoreRename(p, f) \/ RestoreSync(p, f)
        PROVE  JournalAt(p)'
    BY <2>1, <2>4, JournalStays
       DEF RenameSource, SyncRenamed, RestoreRename, RestoreSync, Replacing, Restoring
  <2>5. ASSUME NEW f, RestoreCheck(p, f)
        PROVE  JournalAt(p)'
    <3>1. CASE run' = [run EXCEPT ![p].todo = @ \ {f}, ![p].conflicts = @ \cup {f}]
      <4>1. /\ run'[p].pc = "restore" /\ run'[p].txn = t
            /\ run'[p].cmd = run[p].cmd
        BY <2>5, <3>1 DEF RestoreCheck, RunOK, Running
      <4>2. UNCHANGED <<jr, jrD, anchored, before>>
        BY <2>5 DEF RestoreCheck, fs
      <4>3. \A u \in Txns : Changed(u)' = Changed(u)
        BY <4>2 DEF Changed, After
      <4> QED
        BY <2>1, <2>2, <2>5, <4>1, <4>2, <4>3
           DEF RestoreCheck, JournalAt, Replacing, Restoring
    <3> QED
      BY <2>1, <2>5, <3>1, JournalStays, OnErrorJournal
         DEF RestoreCheck, fs, Restoring
  <2>6. CASE Open(p)
    <3>1. CASE OnError(p) /\ UNCHANGED before
      BY <2>1, <2>6, <3>1, OnErrorJournal DEF Open, fs
    <3>2. ASSUME NEW u \in Txns, Free(u),
                 run' = [run EXCEPT ![p].pc = "assert", ![p].txn = u, ![p].todo = Files]
          PROVE  JournalAt(p)'
      <4>1. run'[p].pc = "assert" /\ run'[p].txn = u
        BY <3>2 DEF RunOK, Running
      <4>2. jrD'[u] = {Nothing}
        BY <2>6, <3>2 DEF Open, Free, fs
      <4> QED  BY <4>1, <4>2 DEF JournalAt, Replacing, Restoring
    <3> QED  BY <2>6, <3>1, <3>2 DEF Open
  <2>7. CASE MakeJournalDir(p)
    <3>1. CASE OnError(p) /\ UNCHANGED fs
      BY <2>1, <2>7, <3>1, OnErrorJournal DEF MakeJournalDir, fs
    <3>2. CASE PutDir(t, TRUE) /\ Loop(p, "backup", Changed(t))
      <4>1. run'[p].pc = "backup" /\ run'[p].txn = t /\ run'[p].todo = Changed(t)
        BY <3>2 DEF Loop, RunOK, Running
      <4>2. t \in Txns /\ jrD[t] = {Nothing} /\ jr[t] = Nothing
        BY <2>1, <2>2, <2>7 DEF MakeJournalDir, JournalAt, JrOK
      <4>3. /\ jr'[t].dir
            /\ \A i \in jrD'[t] : i.phase = "none" /\ i.backups = {}
        BY <3>2, <4>2 DEF PutDir, JrOK, Image, Nothing
      <4>4. \A u \in Txns : Changed(u)' = Changed(u)
        BY <2>7 DEF MakeJournalDir, Changed, After
      <4> QED  BY <4>1, <4>2, <4>3, <4>4 DEF JournalAt, Replacing, Restoring
    <3> QED  BY <2>7, <3>1, <3>2 DEF MakeJournalDir
  <2>8. ASSUME NEW f, WriteBackup(p, f)
        PROVE  JournalAt(p)'
    <3>1. CASE OnError(p) /\ UNCHANGED fs
      BY <2>1, <2>8, <3>1, OnErrorJournal DEF WriteBackup, fs
    <3>2. CASE PutBackup(t, f) /\ Goto(p, "backupSync")
      <4>1. run'[p].pc = "backupSync" /\ run'[p].txn = t /\ run'[p].todo = todo
        BY <3>2 DEF Goto, RunOK, Running
      <4>2. /\ t \in Txns /\ jr[t].dir /\ todo \subseteq Changed(t)
            /\ jr[t].phase = "none" /\ jr[t].backups = Changed(t) \ todo
        BY <2>1, <2>2, <2>8 DEF WriteBackup, JournalAt, JrOK
      <4>3. /\ jr'[t].dir /\ jr'[t].phase = "none"
            /\ jr'[t].backups = (Changed(t) \ todo) \cup {f}
        BY <3>2, <4>2 DEF PutBackup, JrOK, Image
      <4>4. \A u \in Txns : Changed(u)' = Changed(u)
        BY <2>8 DEF WriteBackup, Changed, After
      <4>5. \A g \in todo : (\A h \in todo : g <= h) => g = f
        <5>1. todo \subseteq Nat
          BY FilesAssumption DEF RunOK, Running
        <5>2. f \in todo /\ \A h \in todo : f <= h
          BY <2>8 DEF WriteBackup
        <5> QED  BY <5>1, <5>2, FirstIsUnique
      <4> QED
        BY <4>1, <4>2, <4>3, <4>4, <4>5 DEF JournalAt, Replacing, Restoring
    <3> QED  BY <2>8, <3>1, <3>2 DEF WriteBackup
  <2>9. ASSUME NEW f, SyncBackup(p, f)
        PROVE  JournalAt(p)'
    <3>1. run'[p].pc = "backup" /\ run'[p].txn = t /\ run'[p].todo = todo \ {f}
      BY <2>9 DEF SyncBackup, Loop, RunOK, Running
    <3>2. /\ t \in Txns /\ jr[t].dir /\ todo \subseteq Changed(t) /\ f \in todo
          /\ jr[t].phase = "none" /\ jr[t].backups = (Changed(t) \ todo) \cup {f}
      BY <2>1, <2>2, <2>9 DEF SyncBackup, JournalAt
    <3>3. /\ jr'[t].dir
          /\ \A i \in jrD'[t] : i.phase = "none" /\ i.backups = Changed(t) \ (todo \ {f})
      BY <2>9, <3>2 DEF SyncBackup, SyncDir, JrOK
    <3>4. \A u \in Txns : Changed(u)' = Changed(u)
      BY <2>9 DEF SyncBackup, Changed, After
    <3> QED  BY <3>1, <3>2, <3>3, <3>4 DEF JournalAt, Replacing, Restoring
  <2>10. CASE WriteJournal(p)
    <3>1. run'[p].pc = "journalSync" /\ run'[p].txn = t
      BY <2>10 DEF WriteJournal, Goto, RunOK, Running
    <3>2. t \in Txns /\ jr[t].dir /\ jr[t].backups = Changed(t)
      BY <2>1, <2>2, <2>10 DEF WriteJournal, JournalAt, JrOK
    <3>3. jr'[t].dir /\ jr'[t].phase = "prepared" /\ jr'[t].backups = Changed(t)
      BY <2>10, <3>2 DEF WriteJournal, PutPhase, JrOK, Image
    <3>4. \A u \in Txns : Changed(u)' = Changed(u)
      BY <2>10 DEF WriteJournal, Changed, After
    <3> QED
      BY <3>1, <3>2, <3>3, <3>4 DEF JournalAt, Prepared, Replacing, Restoring
  <2>11. CASE SyncJournal(p)
    <3>1. run'[p].pc = "listSync" /\ run'[p].txn = t
      BY <2>11 DEF SyncJournal, Goto, RunOK, Running
    <3>2. t \in Txns /\ jr[t].dir /\ Prepared(jr[t], t)
      BY <2>1, <2>2, <2>11 DEF SyncJournal, JournalAt
    <3>3. jr'[t].dir /\ \A i \in jrD'[t] : Prepared(i, t)
      BY <2>11, <3>2 DEF SyncJournal, SyncDir, JrOK, Prepared
    <3>4. \A u \in Txns : Changed(u)' = Changed(u)
      BY <2>11 DEF SyncJournal, Changed, After
    <3> QED
      BY <3>1, <3>2, <3>3, <3>4 DEF JournalAt, Prepared, Replacing, Restoring
  <2>12. CASE SyncTransactions(p)
    <3>1. run'[p].pc = "rootSync" /\ run'[p].txn = t
      BY <2>12 DEF SyncTransactions, Goto, RunOK, Running
    <3>2. t \in Txns /\ jr[t].dir /\ \A i \in jrD[t] : Prepared(i, t)
      BY <2>1, <2>2, <2>12 DEF SyncTransactions, JournalAt
    <3>3. \A i \in jrD'[t] : i.dir /\ Prepared(i, t)
      BY <2>12, <3>2 DEF SyncTransactions, SyncList, JrOK
    <3>4. \A u \in Txns : Changed(u)' = Changed(u)
      BY <2>12 DEF SyncTransactions, Changed, After
    <3> QED
      BY <3>1, <3>2, <3>3, <3>4 DEF JournalAt, Prepared, Replacing, Restoring
  <2>13. CASE SyncStateDir(p)
    <3>1. run'[p].pc = "check" /\ run'[p].txn = t
      BY <2>13 DEF SyncStateDir, Loop, RunOK, Running
    <3>2. t \in Txns /\ (Rooted => anchored') /\ \A i \in jrD'[t] : i.dir /\ Prepared(i, t)
      BY <2>1, <2>2, <2>13 DEF SyncStateDir, JournalAt
    <3>3. \A u \in Txns : Changed(u)' = Changed(u)
      BY <2>13 DEF SyncStateDir, Changed, After
    <3> QED  BY <3>1, <3>2, <3>3 DEF JournalAt, Prepared, Replacing, Restoring
  <2>14. CASE WriteComplete(p)
    <3>1. run'[p].pc = "completeSync" /\ run'[p].txn = t
      BY <2>14 DEF WriteComplete, Goto, RunOK, Running
    <3>2. t \in Txns /\ (Rooted => anchored) /\ \A i \in jrD[t] : i.dir /\ Prepared(i, t)
      BY <2>1, <2>2, <2>14 DEF WriteComplete, JournalAt, Replacing
    <3>3. \A i \in jrD'[t] : i.dir /\ i.backups = Changed(t) /\ i.phase # "none"
      BY <2>14, <3>2 DEF WriteComplete, PutPhase, JrOK, Prepared, Image
    <3>4. (Rooted => anchored') /\ \A u \in Txns : Changed(u)' = Changed(u)
      BY <2>14, <3>2 DEF WriteComplete, Changed, After
    <3> QED  BY <3>1, <3>2, <3>3, <3>4 DEF JournalAt, Replacing, Restoring
  <2>15. CASE ListTransactions(p)
    <3>1. CASE OnError(p)
      BY <2>1, <2>15, <3>1, OnErrorJournal DEF ListTransactions, fs
    <3>2. ASSUME NEW u \in Txns,
                 run' = [run EXCEPT ![p].pc = "remove", ![p].txn = u,
                                    ![p].outcome = "fixed"]
          PROVE  JournalAt(p)'
      <4>1. run'[p].pc = "remove"
        BY <3>2 DEF RunOK, Running
      <4> QED  BY <4>1 DEF JournalAt, Replacing, Restoring
    <3>3. ASSUME NEW u \in Txns,
                 run' = [run EXCEPT ![p].pc = "restore", ![p].txn = u,
                                    ![p].todo = Changed(u), ![p].outcome = "restored"]
          PROVE  JournalAt(p)'
      <4>1. run[p].cmd = "recover"
        BY <2>1, <2>15 DEF ListTransactions, JournalAt
      <4>2. run'[p].pc = "restore" /\ run'[p].cmd = "recover"
        BY <3>3, <4>1 DEF RunOK, Running
      <4> QED  BY <4>2 DEF JournalAt, Replacing, Restoring
    <3> QED  BY <2>15, <3>1, <3>2, <3>3 DEF ListTransactions, Visible
  <2>16. CASE \/ SyncComplete(p) \/ RemoveEntry(p) \/ SyncRemoval(p)
    <3>1. CASE run'[p].pc \in {"remove", "removeSync", "idle"}
      BY <3>1 DEF JournalAt, Replacing, Restoring
    <3>2. CASE run'[p].pc = "list" /\ run'[p].cmd = "recover"
      BY <3>2 DEF JournalAt, Replacing, Restoring
    <3>3. CASE SyncComplete(p)
      BY <3>1, <3>3 DEF SyncComplete, RunOK, Running
    <3>4. CASE RemoveEntry(p)
      BY <3>1, <3>4 DEF RemoveEntry, Goto, RunOK, Running
    <3>5. CASE SyncRemoval(p)
      <4> DEFINE next == [Idle EXCEPT !.pc = "list", !.cmd = "recover",
                                      !.interrupted = run[p].interrupted]
      <4>1. next.pc = "list" /\ next.cmd = "recover" /\ Idle.pc = "idle"
        BY DEF Idle
      <4> HIDE DEF next
      <4>2. run' = [run EXCEPT ![p] = next] \/ run' = [run EXCEPT ![p] = Idle]
        BY <3>5 DEF SyncRemoval, Return, next
      <4> QED  BY <3>1, <3>2, <4>1, <4>2 DEF RunOK
    <3> QED  BY <2>16, <3>3, <3>4, <3>5
  <2> QED
    BY <1>1, <2>3, <2>4, <2>5, <2>6, <2>7, <2>8, <2>9, <2>10, <2>11, <2>12, <2>13, <2>14,
       <2>15, <2>16 DEF Step
<1>2. ASSUME NEW p \in Procs, NEW c \in Commands, LockWorkspace(p, c)
      PROVE  JournalInv'
  <2>1. \A q \in Procs \ {p} : run[q].pc = "idle" /\ run'[q].pc = "idle"
    BY <1>2, NoProcAssumption DEF LockWorkspace, OneAtATime, RunOK, Running
  <2>2. CASE c = "fix"
    <3>1. run'[p].pc = "open"
      BY <1>2, <2>2 DEF LockWorkspace, RunOK, Running
    <3> QED  BY <2>1, <3>1 DEF JournalInv, JournalAt, Replacing, Restoring
  <2>3. CASE c = "recover"
    <3>1. run'[p].pc = "list" /\ run'[p].cmd = "recover"
      BY <1>2, <2>3 DEF LockWorkspace, RunOK, Running
    <3> QED  BY <2>1, <3>1 DEF JournalInv, JournalAt, Replacing, Restoring
  <2> QED  BY <2>2, <2>3 DEF Commands
<1>3. ASSUME NEW p \in Procs, Signal(p)
      PROVE  JournalInv'
  <2>1. \A q \in Procs : /\ run'[q].pc = run[q].pc /\ run'[q].txn = run[q].txn
                         /\ run'[q].cmd = run[q].cmd /\ run'[q].todo = run[q].todo
    BY <1>3 DEF Signal, RunOK, Running
  <2>2. UNCHANGED <<jr, jrD, anchored, before>>
    BY <1>3 DEF Signal, Fault, fs
  <2>3. \A t : Changed(t)' = Changed(t)
    BY <2>2 DEF Changed, After
  <2> QED  BY <2>1, <2>2, <2>3 DEF JournalInv, JournalAt, Prepared
<1>4. ASSUME NEW p \in Procs, Fail(p)
      PROVE  JournalInv'
  <2>1. JournalAt(p)'
    BY <1>4, OnErrorJournal DEF Fail, Fault, fs, JournalInv
  <2> QED  BY <1>4, <2>1, OnErrorAlone, OnlyOwnJournal DEF Fail
<1>5. ASSUME NEW p \in Procs, Kill(p)
      PROVE  JournalInv'
  <2>1. run'[p].pc = "idle" /\ Alone(p)
    BY <1>5 DEF Kill, Return, Alone, Idle, RunOK
  <2>2. JournalAt(p)'
    BY <2>1 DEF JournalAt, Replacing, Restoring
  <2> QED  BY <1>5, <2>1, <2>2, OnlyOwnJournal DEF Kill
<1>6. CASE PowerLoss
  <2>1. \A p \in Procs : run'[p].pc = "idle"
    BY <1>6 DEF PowerLoss, Idle
  <2> QED  BY <2>1 DEF JournalInv, JournalAt, Replacing, Restoring
<1>7. CASE UNCHANGED <<jr, jrD, anchored, run, before>>
  BY <1>7 DEF JournalInv, JournalAt, Prepared, Changed, After
<1> QED
  BY <1>1, <1>2, <1>3, <1>4, <1>5, <1>6, <1>7 DEF Next, Environment, Save, vars, fs

\* The inductive invariant holds at the start and is kept by every step.
LEMMA InvInit == Init => IInv
<1> SUFFICES ASSUME Init PROVE OneAtATime /\ JournalInv
  BY TypeInit DEF IInv
<1>1. \A p \in Procs : run[p].pc = "idle"
  BY DEF Init, Idle
<1> QED
  BY <1>1, NoProcAssumption DEF Init, OneAtATime, JournalInv, JournalAt, Replacing, Restoring

LEMMA InvStep == IInv /\ [Next]_vars => IInv'
BY TypeStep, LockStep, JournalStep DEF IInv

\* From the first replacement to the end of a rollback, any image of the journal
\* directory that a power loss can leave holds every original and the journal,
\* and the way to it is on disk unless the entry of .statement-spacing, which
\* nothing fsyncs, is not.
THEOREM WriteAheadDiscipline == Spec => []WriteAhead
<1>1. IInv => WriteAhead
  <2> SUFFICES ASSUME IInv, NEW p \in Procs,
                      run[p].cmd = "fix", run[p].pc \in Replacing \cup Restoring
               PROVE  /\ Rooted => anchored
                      /\ \A i \in jrD[run[p].txn] :
                           /\ i.dir /\ i.backups = Changed(run[p].txn)
                           /\ i.phase # "none"
                           /\ run[p].pc \in Replacing \ {"completeSync"}
                                => i.phase = "prepared"
    BY DEF WriteAhead
  <2>1. JournalAt(p)
    BY DEF IInv, JournalInv
  <2>2. CASE run[p].pc \in Replacing \ {"completeSync"}
    BY <2>1, <2>2 DEF JournalAt, Prepared
  <2>3. CASE run[p].pc = "completeSync" \/ run[p].pc \in Restoring
    BY <2>1, <2>3 DEF JournalAt, Replacing, Restoring
  <2> QED  BY <2>2, <2>3
<1>2. Init => IInv
  BY InvInit
<1>3. IInv /\ [Next]_vars => IInv'
  BY InvStep
<1> QED  BY <1>1, <1>2, <1>3, PTL DEF Spec

-----------------------------------------------------------------------------
(* No overwritten save.                                                    *)

\* Between the check of a source and the rename that replaces it, and before
\* the editor can interfere, the source holds what the check has seen.
Window(p) == \A f \in Files :
    /\ AtFile(p, "rename", f) => src[f] = before[run[p].txn][f]
    /\ AtFile(p, "restoreRename", f) => src[f] = After(run[p].txn, f)

\* Every content that may be on disk is the editor's last save up to spacing.
Kept == \A f \in Files : \A c \in srcD[f] : Fix[c] = Fix[user[f]]

SpacingInv == Kept /\ \A p \in Procs : Window(p)

\* A process that stops, or goes on, elsewhere leaves the windows of the others shut.
LEMMA OnErrorWindow ==
    ASSUME RunOK, NEW p \in Procs, OnError(p)
    PROVE  run'[p].pc \notin {"rename", "restoreRename"}
<1>1. CASE run[p].pc \in Preparing
  BY <1>1 DEF OnError, RunOK, Running, Preparing, Replacing
<1>2. CASE run[p].pc \in Replacing
  BY <1>2 DEF OnError, RunOK, Running, Preparing, Replacing
<1>3. CASE run[p].pc \notin Preparing \cup Replacing
  BY <1>3 DEF OnError, Return, RunOK, Preparing, Replacing, Idle
<1> QED  BY <1>1, <1>2, <1>3

LEMMA GotoWindow ==
    ASSUME RunOK, NEW p \in Procs, NEW label, NEW S,
           Goto(p, label) \/ Loop(p, label, S)
    PROVE  run'[p].pc = label /\ run'[p].txn = run[p].txn
BY DEF Goto, Loop, RunOK, Running

\* Only a check leads to a rename.
LEMMA WindowStep ==
    ASSUME RunOK, RestOK, NEW p \in Procs, Step(p)
    PROVE  Window(p)'
<1> USE DEF AtFile, AtEnd
<1>1. ASSUME run'[p].pc \notin {"rename", "restoreRename"}
      PROVE  Window(p)'
  BY <1>1 DEF Window
<1>2. ASSUME NEW label, label \notin {"rename", "restoreRename"},
             Goto(p, label) \/ \E S : Loop(p, label, S)
      PROVE  Window(p)'
  BY <1>1, <1>2, GotoWindow
<1>3. ASSUME OnError(p)
       PROVE  Window(p)'
  BY <1>1, <1>3, OnErrorWindow
<1>4. ASSUME NEW f, \/ AssertSnapshot(p, f) \/ CheckEnd(p) \/ FinalCheck(p)
                     \/ VerifySnapshot(p, f) \/ VerifyEnd(p) \/ RestoreEnd(p)
       PROVE  Window(p)'
  <2>1. CASE AssertSnapshot(p, f) \/ VerifySnapshot(p, f)
    BY <1>2, <1>3, <2>1 DEF AssertSnapshot, VerifySnapshot
  <2>2. CASE CheckEnd(p) \/ FinalCheck(p)
    BY <1>2, <1>3, <2>2 DEF CheckEnd, FinalCheck
  <2>3. CASE VerifyEnd(p) \/ RestoreEnd(p)
    BY <1>2, <1>3, <2>3 DEF VerifyEnd, RestoreEnd
  <2> QED  BY <1>4, <2>1, <2>2, <2>3
<1>5. ASSUME NEW f, \/ MakeJournalDir(p) \/ WriteBackup(p, f) \/ SyncBackup(p, f)
                     \/ WriteJournal(p) \/ SyncJournal(p) \/ SyncTransactions(p)
                     \/ WriteComplete(p) \/ SyncStateDir(p)
       PROVE  Window(p)'
  <2>1. CASE MakeJournalDir(p)
    <3>1. OnError(p) \/ Loop(p, "backup", Changed(run[p].txn))
      BY <2>1 DEF MakeJournalDir
    <3> QED  BY <1>2, <1>3, <3>1
  <2>2. CASE WriteBackup(p, f)
    <3>1. OnError(p) \/ Goto(p, "backupSync")
      BY <2>2 DEF WriteBackup
    <3> QED  BY <1>2, <1>3, <3>1
  <2>3. CASE SyncBackup(p, f) \/ WriteJournal(p) \/ SyncJournal(p)
    BY <1>2, <2>3 DEF SyncBackup, WriteJournal, SyncJournal
  <2>4. CASE SyncTransactions(p) \/ WriteComplete(p) \/ SyncStateDir(p)
    BY <1>2, <2>4 DEF SyncTransactions, WriteComplete, SyncStateDir
  <2> QED  BY <1>5, <2>1, <2>2, <2>3, <2>4
<1>6. ASSUME NEW f, \/ RenameSource(p, f) \/ SyncRenamed(p, f)
                     \/ RestoreRename(p, f) \/ RestoreSync(p, f)
       PROVE  Window(p)'
  BY <1>2, <1>6 DEF RenameSource, SyncRenamed, RestoreRename, RestoreSync
<1>7. ASSUME NEW f, CheckSource(p, f)
      PROVE  Window(p)'
  <2>1. CASE OnError(p)
    BY <1>1, <2>1, OnErrorWindow
  <2>2. CASE src[f] = before[run[p].txn][f] /\ Goto(p, "rename")
    <3>1. /\ run'[p].pc = "rename" /\ run'[p].txn = run[p].txn
          /\ run'[p].todo = run[p].todo
      BY <2>2 DEF Goto, RunOK, Running
    <3>2. UNCHANGED <<src, before>>
      BY <1>7 DEF CheckSource, fs
    <3>3. \A g \in run[p].todo : (\A h \in run[p].todo : g <= h) => g = f
      BY <1>7, FilesAssumption DEF CheckSource, RunOK, Running
    <3> QED  BY <2>2, <3>1, <3>2, <3>3 DEF Window
  <2> QED  BY <1>7, <2>1, <2>2 DEF CheckSource
<1>8. ASSUME NEW f, RestoreCheck(p, f)
      PROVE  Window(p)'
  <2>1. CASE OnError(p) \/ Loop(p, "restore", run[p].todo \ {f})
    BY <1>1, <2>1, OnErrorWindow, GotoWindow
  <2>2. CASE run' = [run EXCEPT ![p].todo = @ \ {f}, ![p].conflicts = @ \cup {f}]
    <3>1. run'[p].pc = "restore"
      BY <1>8, <2>2 DEF RestoreCheck, RunOK, Running
    <3> QED  BY <1>1, <3>1
  <2>3. CASE src[f] = After(run[p].txn, f) /\ Goto(p, "restoreRename")
    <3>1. /\ run'[p].pc = "restoreRename" /\ run'[p].txn = run[p].txn
          /\ run'[p].todo = run[p].todo
      BY <2>3 DEF Goto, RunOK, Running
    <3>2. UNCHANGED <<src, before>>
      BY <1>8 DEF RestoreCheck, fs
    <3>3. \A g \in run[p].todo : (\A h \in run[p].todo : g <= h) => g = f
      BY <1>8, FilesAssumption DEF RestoreCheck, RunOK, Running
    <3> QED  BY <2>3, <3>1, <3>2, <3>3 DEF Window, After
  <2> QED  BY <1>8, <2>1, <2>2, <2>3 DEF RestoreCheck
<1>9. CASE Open(p)
  <2>1. CASE OnError(p)
    BY <1>1, <2>1, OnErrorWindow
  <2>2. ASSUME NEW u \in Txns,
               run' = [run EXCEPT ![p].pc = "assert", ![p].txn = u, ![p].todo = Files]
        PROVE  Window(p)'
    BY <1>1, <2>2 DEF RunOK, Running
  <2> QED  BY <1>9, <2>1, <2>2 DEF Open
<1>10. CASE ListTransactions(p)
  <2>1. ASSUME NEW u \in Txns,
               \/ run' = [run EXCEPT ![p].pc = "remove", ![p].txn = u,
                                     ![p].outcome = "fixed"]
               \/ run' = [run EXCEPT ![p].pc = "restore", ![p].txn = u,
                                     ![p].todo = Changed(u),
                                     ![p].outcome = "restored"]
        PROVE  Window(p)'
    BY <1>1, <2>1 DEF RunOK, Running
  <2> QED  BY <1>1, <1>10, <2>1, OnErrorWindow DEF ListTransactions, Visible
<1>11. CASE SyncComplete(p)
  BY <1>1, <1>11 DEF SyncComplete, RunOK, Running
<1>12. CASE RemoveEntry(p)
  <2>1. CASE UNCHANGED run
    BY <1>1, <1>12, <2>1 DEF RemoveEntry
  <2>2. CASE Goto(p, "removeSync")
    BY <1>1, <2>2, GotoWindow
  <2> QED  BY <1>12, <2>1, <2>2 DEF RemoveEntry
<1>13. CASE SyncRemoval(p)
  <2> DEFINE next == [Idle EXCEPT !.pc = "list", !.cmd = "recover",
                                  !.interrupted = run[p].interrupted]
  <2>1. next.pc = "list" /\ Idle.pc = "idle"
    BY DEF Idle
  <2> HIDE DEF next
  <2>2. run' = [run EXCEPT ![p] = next] \/ run' = [run EXCEPT ![p] = Idle]
    BY <1>13 DEF SyncRemoval, Return, next
  <2> QED  BY <1>1, <2>1, <2>2 DEF RunOK
<1> QED
  BY <1>7, <1>8, <1>9, <1>10, <1>11, <1>12, <1>13, <1>4, <1>5, <1>6 DEF Step

\* The contents that may be on disk after a step of the tool or of the editor.
LEMMA KeptStep ==
    ASSUME SrcOK, RunOK, RestOK, Kept, NEW p \in Procs, Window(p), Step(p)
    PROVE  Kept'
<1> USE DEF AtFile
<1> DEFINE t == run[p].txn
<1>1. \A c \in Contents : Fix[c] \in Contents /\ Fix[Fix[c]] = Fix[c]
  BY FixAssumption
<1>2. run[p].pc \notin {"idle", "list", "open"} => t \in Txns
  BY DEF RunOK, TxnOK
<1>3. \A f : f \in run[p].todo => f \in Files
  BY DEF RunOK, Running
<1>4. ASSUME NEW f \in Files, NEW c \in Contents, Fix[c] = Fix[src[f]],
             PutSource(f, c), UNCHANGED user
      PROVE  Kept'
  <2>1. Fix[src[f]] = Fix[user[f]]
    BY DEF Kept, SrcOK
  <2> QED  BY <1>4, <2>1 DEF Kept, PutSource, SrcOK
<1>5. ASSUME NEW f \in Files, SyncSource(f), UNCHANGED user
      PROVE  Kept'
  BY <1>5 DEF Kept, SyncSource, SrcOK
<1>6. ASSUME NEW f, RenameSource(p, f)
      PROVE  Kept'
  <2>1. f \in Files /\ t \in Txns /\ src[f] = before[t][f]
    BY <1>2, <1>3, <1>6 DEF RenameSource, Window
  <2>2. After(t, f) \in Contents /\ Fix[After(t, f)] = Fix[src[f]]
    BY <1>1, <2>1 DEF After, RestOK
  <2> QED  BY <1>4, <1>6, <2>1, <2>2 DEF RenameSource, hist
<1>7. ASSUME NEW f, RestoreRename(p, f)
      PROVE  Kept'
  <2>1. f \in Files /\ t \in Txns /\ src[f] = After(t, f)
    BY <1>2, <1>3, <1>7 DEF RestoreRename, Window
  <2>2. before[t][f] \in Contents /\ Fix[before[t][f]] = Fix[src[f]]
    BY <1>1, <2>1 DEF After, RestOK
  <2> QED  BY <1>4, <1>7, <2>1, <2>2 DEF RestoreRename, hist
<1>8. ASSUME NEW f, SyncRenamed(p, f) \/ RestoreSync(p, f)
      PROVE  Kept'
  BY <1>3, <1>5, <1>8 DEF SyncRenamed, RestoreSync, hist
<1>9. CASE UNCHANGED <<srcD, user>>
  BY <1>9 DEF Kept
<1> QED
  BY <1>6, <1>7, <1>8, <1>9
     DEF Step, Open, MakeJournalDir, AssertSnapshot, WriteBackup, SyncBackup, CheckSource,
         VerifySnapshot, RestoreCheck, WriteJournal, SyncJournal, SyncTransactions,
         SyncStateDir, CheckEnd, FinalCheck, VerifyEnd, WriteComplete, SyncComplete,
         ListTransactions, RestoreEnd, RemoveEntry, SyncRemoval, fs, hist

\* Every step keeps SpacingInv when no editor saves inside a window.
LEMMA SpacingStep ==
    ASSUME "race" \notin Env
    PROVE  TypeOK /\ TxnOK /\ OneAtATime /\ SpacingInv /\ [Next]_vars => SpacingInv'
<1> SUFFICES ASSUME SrcOK, JrOK, RunOK, RestOK, OneAtATime, SpacingInv, [Next]_vars
             PROVE  SpacingInv'
  BY TypeParts
<1> USE DEF SpacingInv
<1>1. ASSUME NEW p \in Procs, run'[p].pc \notin {"rename", "restoreRename"}
      PROVE  Window(p)'
  BY <1>1 DEF Window, AtFile
<1>2. ASSUME NEW p \in Procs, run[p].pc # "idle", Alone(p), Window(p)', Kept'
      PROVE  SpacingInv'
  <2>1. ASSUME NEW q \in Procs, q # p PROVE Window(q)'
    BY <1>1, <1>2, <2>1 DEF OneAtATime, Alone
  <2> QED  BY <1>2, <2>1
<1>3. ASSUME NEW p \in Procs, Step(p)
      PROVE  SpacingInv'
  BY <1>2, <1>3, StepAlone, WindowStep, KeptStep
<1>4. ASSUME NEW p \in Procs, NEW c \in Commands, LockWorkspace(p, c)
      PROVE  SpacingInv'
  <2>1. Kept'
    BY <1>4 DEF LockWorkspace, fs, hist, Kept
  <2>2. \A q \in Procs : run'[q].pc \in {"idle", "open", "list"}
    BY <1>4, NoProcAssumption DEF LockWorkspace, OneAtATime, RunOK, Running
  <2> QED  BY <1>1, <2>1, <2>2
<1>5. ASSUME NEW p \in Procs, Signal(p)
      PROVE  SpacingInv'
  <2>1. Kept'
    BY <1>5 DEF Signal, Fault, fs, hist, Kept
  <2>2. \A q \in Procs : /\ run'[q].pc = run[q].pc /\ run'[q].txn = run[q].txn
                         /\ run'[q].todo = run[q].todo
    BY <1>5 DEF Signal, RunOK, Running
  <2>3. UNCHANGED <<src, before>>
    BY <1>5 DEF Signal, Fault, fs
  <2> QED  BY <2>1, <2>2, <2>3 DEF Window, AtFile, After
<1>6. ASSUME NEW p \in Procs, Fail(p) \/ Kill(p)
      PROVE  SpacingInv'
  <2>1. Kept'
    BY <1>6 DEF Fail, Kill, Fault, fs, hist, Kept
  <2>2. run[p].pc # "idle" /\ Alone(p)
    BY <1>6, OnErrorAlone DEF Fail, Kill, Return, Alone, Idle, RunOK
  <2>3. run'[p].pc \notin {"rename", "restoreRename"}
    BY <1>6, OnErrorWindow DEF Fail, Kill, Return, Idle, RunOK
  <2> QED  BY <1>1, <1>2, <2>1, <2>2, <2>3
<1>7. ASSUME NEW f \in Files, NEW c \in Saves, Save(f, c)
      PROVE  SpacingInv'
  <2>1. Kept'
    BY <1>7 DEF Save, Kept, SrcOK, RestOK
  <2>2. ASSUME NEW p \in Procs PROVE Window(p)'
    BY <1>7 DEF Save, InWindow, Window, AtFile, After, SrcOK
  <2> QED  BY <2>1, <2>2
<1>8. CASE PowerLoss
  <2>1. \A f \in Files : srcD'[f] = {src'[f]} /\ src'[f] \in srcD[f]
    BY <1>8 DEF PowerLoss
  <2>2. user' = user /\ \A p \in Procs : run'[p].pc = "idle"
    BY <1>8 DEF PowerLoss, Fault, hist, Idle
  <2> QED  BY <1>1, <2>1, <2>2 DEF Kept
<1>9. CASE UNCHANGED vars
  BY <1>9 DEF vars, fs, hist, Kept, Window, AtFile, After
<1> QED
  BY <1>3, <1>4, <1>5, <1>6, <1>7, <1>8, <1>9 DEF Next, Environment

\* Unless the editor saves between the check of a source and its replacement,
\* commit, rollback, recover, kills and power losses change nothing in a file
\* but the spacing of the editor's last save.
THEOREM NoLostSave ==
    ASSUME "race" \notin Env
    PROVE  Spec => []OnlySpacing
<1>1. Init => TypeOK /\ TxnOK /\ OneAtATime /\ SpacingInv
  <2> SUFFICES ASSUME Init PROVE SpacingInv
    BY TypeInit, InvInit DEF IInv
  <2>1. Kept
    BY DEF Init, Kept
  <2>2. \A p \in Procs : run[p].pc = "idle"
    BY DEF Init, Idle
  <2> QED  BY <2>1, <2>2 DEF SpacingInv, Window, AtFile
<1>2. /\ TypeOK /\ TxnOK /\ OneAtATime /\ SpacingInv
      /\ [Next]_vars
      => (TypeOK /\ TxnOK /\ OneAtATime /\ SpacingInv)'
  BY TypeStep, LockStep, SpacingStep
<1>3. TypeOK /\ SpacingInv => OnlySpacing
  BY DEF TypeOK, SpacingInv, Kept, OnlySpacing
<1> QED  BY <1>1, <1>2, <1>3, PTL DEF Spec
=============================================================================
