---------------------------- MODULE AtomicProofs ----------------------------
(***************************************************************************)
(* Commit, rollback and recover implement the atomic workspace: whatever   *)
(* is read of the sources and the journal, the workspace it stands for     *)
(* changes in one step, the rename of the complete journal.                *)
(***************************************************************************)
EXTENDS RecoveryProofs

\* What a process is sent to do: a fix has no outcome before it ends.
Errand(p) ==
    /\ run[p].pc \in {"idle", "list"} \cup Opening \cup Preparing \cup Replacing
         => run[p].outcome = "none"
    /\ run[p].pc \in Opening \cup Preparing \cup Replacing => run[p].cmd = "fix"

\* What the editor has saved since the transaction began.
Known(p) ==
    LET t == run[p].txn IN
    /\ run[p].pc \in {"assert"} \cup Preparing => \A f \in dirty : src[f] = user[f]
    /\ run[p].pc \in Restoring =>
          \A f \in dirty \ (run[p].todo \cup run[p].conflicts) : src[f] \in {user[f], before[t][f]}
    /\ run[p].pc = "restoreSync" =>
          \A f \in dirty : AtFile(p, "restoreSync", f) => src[f] \in {user[f], before[t][f]}
    /\ run[p].pc \in Removing /\ run[p].outcome # "fixed" =>
          \A f \in dirty : src[f] \in {user[f], before[t][f]}
Aside == \A f \in dirty : last = NoTxn \/ f \notin Changed(last) => src[f] = user[f]
Saved == Aside /\ \A p \in Procs : Known(p)

AInv == IInv /\ Outcome /\ SpacingInv /\ Saved /\ \A p \in Procs : Errand(p)

-----------------------------------------------------------------------------
(* Where a step of the tool leads.                                         *)

\* A fix that may still take effect.
Flying == {"assert"} \cup Preparing \cup (Replacing \ {"completeSync"})

\* The labels a step leads to, from a fix, and from a rollback or a removal.
LEMMA StepLabels ==
    ASSUME RunOK, NEW p \in Procs, Step(p), Errand(p)
    PROVE  /\ Errand(p)'
           /\ ~Open(p) => (run'[p].pc \in Flying => run[p].pc \in Flying)
<1> USE DEF AtFile, AtEnd
<1> DEFINE Fixing == Opening \cup Preparing \cup Replacing
<1> DEFINE Good == /\ Errand(p)'
                   /\ run'[p].pc \in Flying => run[p].pc \in Flying
<1>1. run \in [Procs -> Running] /\ Idle.pc = "idle" /\ Idle.outcome = "none"
  BY DEF RunOK, Idle
<1>2. ASSUME NEW label, NEW S, Goto(p, label) \/ Loop(p, label, S),
             \/ /\ run[p].pc \in Flying
                /\ label \in Preparing \cup Replacing \cup {"assert"}
             \/ label \in Restoring \cup Removing
      PROVE  Good
  <2>1. /\ run'[p].pc = label /\ run'[p].cmd = run[p].cmd
        /\ run'[p].outcome = run[p].outcome
    BY <1>1, <1>2 DEF Goto, Loop, Running
  <2> QED
    BY <1>2, <2>1 DEF Errand, Flying, Opening, Preparing, Replacing, Restoring, Removing
<1>3. ASSUME OnError(p)
      PROVE  Good
  <2>1. CASE run[p].pc \in Preparing \cup Replacing
    <3>1. run'[p].pc \in {"remove", "restore"}
      BY <2>1, <1>3, ErrorMoves
    <3> QED  BY <3>1 DEF Errand, Flying, Opening, Preparing, Replacing
  <2>2. CASE run[p].pc \notin Preparing \cup Replacing
    <3>1. run' = [run EXCEPT ![p] = Idle]
      BY <1>3, <2>2 DEF OnError, Return
    <3>2. run'[p] = Idle
      BY <1>1, <3>1
    <3> QED  BY <1>1, <3>2 DEF Errand, Flying, Opening, Preparing, Replacing
  <2> QED  BY <2>1, <2>2
<1>4. ASSUME NEW f, \/ AssertSnapshot(p, f) \/ CheckSource(p, f) \/ CheckEnd(p)
                    \/ FinalCheck(p) \/ VerifySnapshot(p, f) \/ VerifyEnd(p)
      PROVE  Good
  <2>1. CASE AssertSnapshot(p, f) \/ CheckSource(p, f) \/ CheckEnd(p)
    BY <1>2, <1>3, <2>1 DEF AssertSnapshot, CheckSource, CheckEnd, Flying, Replacing
  <2>2. CASE FinalCheck(p) \/ VerifySnapshot(p, f) \/ VerifyEnd(p)
    BY <1>2, <1>3, <2>2 DEF FinalCheck, VerifySnapshot, VerifyEnd, Flying, Replacing
  <2> QED  BY <1>4, <2>1, <2>2
<1>5. ASSUME NEW f, \/ MakeJournalDir(p) \/ WriteBackup(p, f) \/ SyncBackup(p, f)
                    \/ WriteJournal(p) \/ SyncJournal(p) \/ SyncTransactions(p)
                    \/ WriteComplete(p) \/ SyncStateDir(p)
      PROVE  Good
  <2>1. CASE MakeJournalDir(p)
    <3>1. \/ OnError(p)
          \/ run[p].pc = "assert" /\ Loop(p, "backup", Changed(run[p].txn))
      BY <2>1 DEF MakeJournalDir
    <3> QED  BY <1>2, <1>3, <3>1 DEF Flying, Preparing
  <2>2. CASE WriteBackup(p, f)
    BY <1>2, <1>3, <2>2 DEF WriteBackup, Flying, Preparing
  <2>3. CASE SyncBackup(p, f) \/ WriteJournal(p) \/ SyncJournal(p)
    BY <1>2, <2>3 DEF SyncBackup, WriteJournal, SyncJournal, Flying, Preparing
  <2>4. CASE SyncTransactions(p) \/ WriteComplete(p) \/ SyncStateDir(p)
    BY <1>2, <2>4 DEF SyncTransactions, WriteComplete, SyncStateDir, Flying, Preparing, Replacing
  <2> QED  BY <1>5, <2>1, <2>2, <2>3, <2>4
<1>6. ASSUME NEW f, \/ RenameSource(p, f) \/ SyncRenamed(p, f)
                    \/ RestoreRename(p, f) \/ RestoreSync(p, f)
      PROVE  Good
  BY <1>2, <1>6
     DEF RenameSource, SyncRenamed, RestoreRename, RestoreSync, Flying, Replacing, Restoring
<1>7. ASSUME NEW f, RestoreCheck(p, f)
      PROVE  Good
  <2>1. CASE run' = [run EXCEPT ![p].todo = @ \ {f}, ![p].conflicts = @ \cup {f}]
    <3>1. run'[p].pc = "restore"
      BY <1>1, <1>7, <2>1 DEF RestoreCheck, Running
    <3> QED  BY <3>1 DEF Errand, Flying, Opening, Preparing, Replacing
  <2> QED  BY <1>2, <1>3, <1>7, <2>1 DEF RestoreCheck, Restoring
<1>8. CASE RestoreEnd(p)
  BY <1>2, <1>3, <1>8 DEF RestoreEnd, Removing
<1>9. CASE ListTransactions(p)
  <2>1. OnError(p) \/ run'[p].pc \in {"remove", "restore"}
    <3>1. ASSUME NEW u,
                 \/ run' = [run EXCEPT ![p].pc = "remove", ![p].txn = u,
                                       ![p].outcome = "fixed"]
                 \/ run' = [run EXCEPT ![p].pc = "restore", ![p].txn = u,
                                       ![p].todo = Changed(u),
                                       ![p].outcome = "restored"]
          PROVE  run'[p].pc \in {"remove", "restore"}
      BY <1>1, <3>1 DEF Running
    <3> QED  BY <1>9, <3>1 DEF ListTransactions
  <2> QED  BY <1>3, <2>1 DEF Errand, Flying, Opening, Preparing, Replacing
<1>10. CASE SyncComplete(p) \/ RemoveEntry(p)
  <2>1. run'[p].pc \in Removing
    BY <1>1, <1>10 DEF SyncComplete, RemoveEntry, Goto, Running, Removing
  <2> QED  BY <2>1 DEF Errand, Flying, Opening, Preparing, Replacing, Removing
<1>11. CASE SyncRemoval(p)
  <2> DEFINE next == [Idle EXCEPT !.pc = "list", !.cmd = "recover",
                                  !.interrupted = run[p].interrupted]
  <2>1. next.pc = "list" /\ next.outcome = "none"
    BY DEF Idle
  <2> HIDE DEF next
  <2>2. run' = [run EXCEPT ![p] = next] \/ run' = [run EXCEPT ![p] = Idle]
    BY <1>11 DEF SyncRemoval, Return, next
  <2>3. run'[p].pc \in {"list", "idle"} /\ run'[p].outcome = "none"
    BY <1>1, <2>1, <2>2
  <2> QED  BY <2>3 DEF Errand, Flying, Opening, Preparing, Replacing
<1>12. CASE Open(p)
  <2>1. CASE OnError(p)
    BY <1>3, <2>1
  <2>2. ASSUME NEW u \in Txns,
               run' = [run EXCEPT ![p].pc = "assert", ![p].txn = u, ![p].todo = Files]
        PROVE  Errand(p)'
    <3>1. run[p].pc = "open"
      BY <1>12 DEF Open
    <3>2. /\ run'[p].pc = "assert" /\ run'[p].cmd = run[p].cmd
          /\ run'[p].outcome = run[p].outcome
      BY <1>1, <2>2 DEF Running
    <3> QED  BY <3>1, <3>2 DEF Errand, Opening
  <2> QED  BY <1>12, <2>1, <2>2 DEF Open
<1> QED
  BY <1>4, <1>5, <1>6, <1>7, <1>8, <1>9, <1>10, <1>11, <1>12 DEF Step

-----------------------------------------------------------------------------
(* The editor's saves.                                                     *)

\* Where nothing has to be known of them.
LEMMA Unknowing ==
    ASSUME NEW p \in Procs,
           \/ run'[p].pc \in {"idle", "list", "open"} \cup Replacing
           \/ run'[p].pc \in Removing /\ run'[p].outcome = "fixed"
    PROVE  Known(p)'
BY DEF Known, Preparing, Replacing, Restoring, Removing

\* A fix that fails leaves the files it does not change to the editor.
LEMMA OnErrorKnown ==
    ASSUME Base, Outcome, Saved, NEW p \in Procs, run[p].pc # "idle", OnError(p),
           UNCHANGED <<src, user, dirty, before, last>>
    PROVE  Known(p)'
<1>1. Known(p) /\ RunOK
  BY DEF Saved, Base
<1>2. CASE run[p].pc \in Preparing
  <2>1. run'[p].pc = "remove" /\ \A f \in dirty : src[f] = user[f]
    BY <1>1, <1>2, ErrorMoves DEF Known
  <2> QED  BY <2>1 DEF Known, Preparing, Restoring
<1>3. CASE run[p].pc \in Replacing
  <2>1. PICK t \in Txns : t = run[p].txn /\ t = last
    BY <1>3, OwnIsLast DEF Working, Replacing
  <2>2. run'[p].pc = "restore" /\ run'[p].txn = t /\ run'[p].todo = Changed(t)
    BY <1>1, <1>3, <2>1, ErrorMoves
  <2>3. \A f \in dirty \ Changed(t) : src[f] = user[f]
    BY <2>1 DEF Saved, Aside
  <2> QED  BY <2>2, <2>3 DEF Known, Preparing, Removing
<1>4. CASE run[p].pc \notin Preparing \cup Replacing
  BY <1>1, <1>4, ErrorMoves, Unknowing
<1> QED  BY <1>2, <1>3, <1>4

\* A step that leaves sources, saves and snapshots alone.
LEMMA AsideStays ==
    ASSUME Aside, UNCHANGED <<src, user, dirty, before, last>>
    PROVE  Aside'
BY DEF Aside, Changed, After

\* commit up to the first replacement.
LEMMA PrepareSaved ==
    ASSUME Base, Outcome, Saved, NEW p \in Procs, NEW f,
           \/ AssertSnapshot(p, f) \/ MakeJournalDir(p) \/ WriteBackup(p, f)
           \/ SyncBackup(p, f) \/ WriteJournal(p) \/ SyncJournal(p)
           \/ SyncTransactions(p) \/ SyncStateDir(p)
    PROVE  Aside' /\ Known(p)'
<1> USE DEF AtFile, AtEnd
<1>1. /\ UNCHANGED <<src, user, dirty, before, last>>
      /\ run[p].pc \in {"assert"} \cup Preparing
  BY DEF AssertSnapshot, MakeJournalDir, WriteBackup, SyncBackup, WriteJournal,
         SyncJournal, SyncTransactions, SyncStateDir, fs, hist, Preparing
<1>2. Aside' /\ (OnError(p) => Known(p)')
  BY <1>1, AsideStays, OnErrorKnown DEF Saved, Preparing
<1>3. ASSUME NEW label \in {"assert", "check"} \cup Preparing, NEW S,
             Goto(p, label) \/ Loop(p, label, S)
      PROVE  Known(p)'
  <2>1. run'[p].pc = label
    BY <1>3 DEF Goto, Loop, Base, RunOK, Running
  <2>2. \A g \in dirty : src[g] = user[g]
    BY <1>1 DEF Saved, Known
  <2> QED  BY <1>1, <1>3, <2>1, <2>2 DEF Known, Preparing, Restoring, Removing
<1>4. CASE MakeJournalDir(p)
  <2>1. OnError(p) \/ Loop(p, "backup", Changed(run[p].txn))
    BY <1>4 DEF MakeJournalDir
  <2> QED  BY <1>2, <1>3, <2>1 DEF Preparing
<1>5. CASE AssertSnapshot(p, f) \/ WriteBackup(p, f) \/ SyncBackup(p, f) \/ WriteJournal(p)
  BY <1>2, <1>3, <1>5 DEF AssertSnapshot, WriteBackup, SyncBackup, WriteJournal, Preparing
<1>6. CASE SyncJournal(p) \/ SyncTransactions(p) \/ SyncStateDir(p)
  BY <1>2, <1>3, <1>6 DEF SyncJournal, SyncTransactions, SyncStateDir, Preparing
<1> QED  BY <1>4, <1>5, <1>6

\* The replacement of the sources.
LEMMA ReplaceSaved ==
    ASSUME Base, Outcome, Saved, NEW p \in Procs, NEW f, Window(p),
           \/ CheckSource(p, f) \/ RenameSource(p, f) \/ SyncRenamed(p, f)
           \/ CheckEnd(p) \/ FinalCheck(p) \/ VerifySnapshot(p, f) \/ VerifyEnd(p)
           \/ WriteComplete(p) \/ SyncComplete(p)
    PROVE  Aside' /\ Known(p)'
<1> USE DEF AtFile, AtEnd
<1>1. UNCHANGED <<user, dirty, before, last>> /\ run[p].pc \in Replacing
  BY DEF CheckSource, RenameSource, SyncRenamed, CheckEnd, FinalCheck, VerifySnapshot,
         VerifyEnd, WriteComplete, SyncComplete, hist, Replacing
<1>2. UNCHANGED src /\ OnError(p) => Known(p)'
  BY <1>1, OnErrorKnown DEF Replacing
<1>3. ASSUME NEW label \in Replacing, NEW S, Goto(p, label) \/ Loop(p, label, S)
      PROVE  Known(p)'
  <2>1. run'[p].pc = label
    BY <1>3 DEF Goto, Loop, Base, RunOK, Running
  <2> QED  BY <1>3, <2>1, Unknowing
<1>4. Known(p)'
  <2>1. CASE CheckSource(p, f) \/ CheckEnd(p) \/ FinalCheck(p)
    BY <1>2, <1>3, <2>1 DEF CheckSource, CheckEnd, FinalCheck, Replacing, fs
  <2>2. CASE VerifySnapshot(p, f) \/ VerifyEnd(p) \/ WriteComplete(p)
    BY <1>2, <1>3, <2>2 DEF VerifySnapshot, VerifyEnd, WriteComplete, Replacing, fs
  <2>3. CASE RenameSource(p, f) \/ SyncRenamed(p, f)
    BY <1>3, <2>3 DEF RenameSource, SyncRenamed, Replacing
  <2>4. CASE SyncComplete(p)
    <3>1. run'[p].pc = "remove" /\ run'[p].outcome = "fixed"
      BY <2>4 DEF SyncComplete, Base, RunOK, Running
    <3> QED  BY <3>1, Unknowing DEF Removing
  <2> QED  BY <2>1, <2>2, <2>3, <2>4
<1>5. Aside'
  <2>1. CASE UNCHANGED src
    BY <1>1, <2>1, AsideStays DEF Saved
  <2>2. CASE RenameSource(p, f)
    <3>1. PICK t \in Txns : t = run[p].txn /\ t = last
      BY <1>1, OwnIsLast DEF Working, Replacing
    <3>2. f \in Files /\ src[f] = before[t][f] /\ src' = [src EXCEPT ![f] = After(t, f)]
      BY <2>2, <3>1 DEF RenameSource, PutSource, Window, Base, RunOK, Running
    <3>3. f \notin Changed(t) => src'[f] = src[f]
      BY <3>2 DEF Changed, Base, SrcOK
    <3>4. \A g \in Files \ {f} : src'[g] = src[g]
      BY <3>2 DEF Base, SrcOK
    <3>5. Changed(t)' = Changed(t) /\ t # NoTxn /\ dirty \subseteq Files
      BY <1>1, SameJournal, NoTxnAssumption DEF Base, RestOK
    <3> QED  BY <1>1, <3>1, <3>3, <3>4, <3>5 DEF Saved, Aside
  <2>3. UNCHANGED src \/ RenameSource(p, f)
    BY DEF CheckSource, SyncRenamed, SyncSource, CheckEnd, FinalCheck, VerifySnapshot,
           VerifyEnd, WriteComplete, SyncComplete, fs
  <2> QED  BY <2>1, <2>2, <2>3
<1> QED  BY <1>4, <1>5

\* rollback, recover and the removal.
LEMMA RollbackSaved ==
    ASSUME Base, Outcome, Saved, NEW p \in Procs, NEW f, Window(p),
           \/ ListTransactions(p) \/ RestoreCheck(p, f) \/ RestoreRename(p, f)
           \/ RestoreSync(p, f) \/ RestoreEnd(p) \/ RemoveEntry(p) \/ SyncRemoval(p)
    PROVE  Aside' /\ Known(p)'
<1> USE DEF AtFile, AtEnd
<1>1. /\ UNCHANGED <<user, dirty, before, last>> /\ run[p].pc # "idle"
      /\ UNCHANGED src \/ RestoreRename(p, f)
      /\ run \in [Procs -> Running] /\ Known(p) /\ Aside /\ dirty \subseteq Files
  BY DEF ListTransactions, RestoreCheck, RestoreRename, RestoreSync, SyncSource,
         RestoreEnd, RemoveEntry, SyncRemoval, fs, hist, Base, RunOK, RestOK, Saved
<1>2. UNCHANGED src => Aside' /\ (OnError(p) => Known(p)')
  BY <1>1, AsideStays, OnErrorKnown
<1>3. CASE ListTransactions(p)
  <2>1. UNCHANGED src /\ run[p].pc = "list"
    BY <1>3 DEF ListTransactions, fs
  <2>2. ASSUME NEW t \in Txns, jr[t].dir,
               \/ run' = [run EXCEPT ![p].pc = "remove", ![p].txn = t,
                                     ![p].outcome = "fixed"]
               \/ run' = [run EXCEPT ![p].pc = "restore", ![p].txn = t,
                                     ![p].todo = Changed(t),
                                     ![p].outcome = "restored"]
        PROVE  Known(p)'
    <3>1. t = last
      BY <2>2, Reading DEF Outcome, OneJournal, Base, Nothing
    <3>2. \/ run'[p].pc = "remove" /\ run'[p].outcome = "fixed"
          \/ run'[p].pc = "restore" /\ run'[p].todo = Changed(t)
      BY <1>1, <2>2 DEF Running
    <3>3. \A g \in dirty \ Changed(t) : src[g] = user[g]
      BY <1>1, <3>1 DEF Aside
    <3> QED  BY <1>1, <2>1, <3>2, <3>3 DEF Known, Preparing, Restoring, Removing
  <2>3. OnError(p) \/ Known(p)'
    BY <1>3, <2>2 DEF ListTransactions, Visible
  <2> QED  BY <1>2, <2>1, <2>3
<1>4. CASE RestoreCheck(p, f)
  <2>1. UNCHANGED src /\ run[p].pc = "restore" /\ f \in run[p].todo
    BY <1>4 DEF RestoreCheck, fs
  <2>2. \A g \in dirty \ (run[p].todo \cup run[p].conflicts) :
            src[g] \in {user[g], before[run[p].txn][g]}
    BY <1>1, <2>1 DEF Known, Restoring
  <2>3. CASE src[f] = before[run[p].txn][f] /\ Loop(p, "restore", run[p].todo \ {f})
    <3>1. /\ run'[p].pc = "restore" /\ run'[p].todo = run[p].todo \ {f}
          /\ run'[p].conflicts = run[p].conflicts /\ run'[p].txn = run[p].txn
      BY <1>1, <2>3 DEF Loop, Running
    <3> QED  BY <1>1, <1>2, <2>1, <2>2, <2>3, <3>1 DEF Known, Preparing, Removing
  <2>4. CASE run' = [run EXCEPT ![p].todo = @ \ {f}, ![p].conflicts = @ \cup {f}]
    <3>1. /\ run'[p].pc = "restore" /\ run'[p].todo = run[p].todo \ {f}
          /\ run'[p].conflicts = run[p].conflicts \cup {f} /\ run'[p].txn = run[p].txn
      BY <1>1, <2>1, <2>4 DEF Running
    <3> QED  BY <1>1, <1>2, <2>1, <2>2, <3>1 DEF Known, Preparing, Removing
  <2>5. CASE Goto(p, "restoreRename")
    <3>1. /\ run'[p].pc = "restoreRename" /\ run'[p].todo = run[p].todo
          /\ run'[p].conflicts = run[p].conflicts /\ run'[p].txn = run[p].txn
      BY <1>1, <2>5 DEF Goto, Running
    <3> QED  BY <1>1, <1>2, <2>1, <2>2, <3>1 DEF Known, Preparing, Removing
  <2> QED  BY <1>2, <1>4, <2>1, <2>3, <2>4, <2>5 DEF RestoreCheck
<1>5. CASE RestoreRename(p, f)
  <2>1. run[p].pc = "restoreRename" /\ f \in run[p].todo /\ \A g \in run[p].todo : f <= g
    BY <1>5 DEF RestoreRename
  <2>2. PICK t \in Txns : t = run[p].txn /\ t = last
    BY <2>1, OwnIsLast DEF Working
  <2>3. /\ run'[p].pc = "restoreSync" /\ run'[p].todo = run[p].todo
        /\ run'[p].conflicts = run[p].conflicts /\ run'[p].txn = t
    BY <1>1, <1>5, <2>2 DEF RestoreRename, Goto, Running
  <2>4. f \in Files /\ src[f] = After(t, f) /\ src' = [src EXCEPT ![f] = before[t][f]]
    BY <1>1, <1>5, <2>1, <2>2 DEF RestoreRename, PutSource, Window, Running
  <2>5. src'[f] = before[t][f] /\ \A g \in Files \ {f} : src'[g] = src[g]
    BY <2>4 DEF Base, SrcOK
  <2>6. \A g \in dirty \ (run[p].todo \cup run[p].conflicts) : src[g] \in {user[g], before[t][g]}
    BY <1>1, <2>1, <2>2 DEF Known, Restoring
  <2>7. \A g \in run[p].todo : (\A h \in run[p].todo : g <= h) => g = f
    <3>1. run[p].todo \subseteq Nat
      BY <1>1, FilesAssumption DEF Running
    <3> QED  BY <2>1, <3>1, FirstIsUnique
  <2>8. Known(p)'
    BY <1>1, <2>1, <2>3, <2>5, <2>6, <2>7 DEF Known, Preparing, Restoring, Removing
  <2>9. Aside'
    <3>1. f \notin Changed(t) => src'[f] = src[f]
      BY <2>4, <2>5 DEF Changed
    <3>2. Changed(t)' = Changed(t) /\ t # NoTxn
      BY <1>1, SameJournal, NoTxnAssumption
    <3> QED  BY <1>1, <2>2, <2>5, <3>1, <3>2 DEF Aside
  <2> QED  BY <2>8, <2>9
<1>6. CASE RestoreSync(p, f)
  <2>1. UNCHANGED src /\ run[p].pc = "restoreSync" /\ f \in run[p].todo
        /\ \A g \in run[p].todo : f <= g
    BY <1>6 DEF RestoreSync, SyncSource
  <2>2. /\ run'[p].pc = "restore" /\ run'[p].todo = run[p].todo \ {f}
        /\ run'[p].conflicts = run[p].conflicts /\ run'[p].txn = run[p].txn
    BY <1>1, <1>6 DEF RestoreSync, Loop, Running
  <2>3. \A g \in dirty \ (run[p].todo \cup run[p].conflicts) :
            src[g] \in {user[g], before[run[p].txn][g]}
    BY <1>1, <2>1 DEF Known, Restoring
  <2>4. f \in dirty => src[f] \in {user[f], before[run[p].txn][f]}
    BY <1>1, <2>1 DEF Known
  <2> QED
    BY <1>1, <1>2, <2>1, <2>2, <2>3, <2>4 DEF Known, Preparing, Removing
<1>7. CASE RestoreEnd(p)
  <2>1. UNCHANGED src /\ run[p].pc = "restore" /\ run[p].todo = {}
    BY <1>7 DEF RestoreEnd, fs
  <2>2. ASSUME run[p].conflicts = {}, Goto(p, "remove")
        PROVE  Known(p)'
    <3>1. run'[p].pc = "remove" /\ run'[p].txn = run[p].txn
      BY <1>1, <2>2 DEF Goto, Running
    <3>2. \A g \in dirty : src[g] \in {user[g], before[run[p].txn][g]}
      BY <1>1, <2>1, <2>2 DEF Known, Restoring
    <3> QED  BY <1>1, <2>1, <3>1, <3>2 DEF Known, Preparing, Restoring
  <2> QED  BY <1>2, <1>7, <2>1, <2>2 DEF RestoreEnd
<1>8. CASE RemoveEntry(p)
  <2>1. /\ UNCHANGED src /\ run[p].pc = "remove"
        /\ UNCHANGED run \/ Goto(p, "removeSync")
    BY <1>8 DEF RemoveEntry
  <2>2. /\ run'[p].pc \in {"remove", "removeSync"} /\ run'[p].txn = run[p].txn
        /\ run'[p].outcome = run[p].outcome
    BY <1>1, <2>1 DEF Goto, Running
  <2>3. run[p].outcome # "fixed" =>
           \A g \in dirty : src[g] \in {user[g], before[run[p].txn][g]}
    BY <1>1, <2>1 DEF Known, Removing
  <2>4. Known(p)'
    BY <1>1, <2>1, <2>2, <2>3 DEF Known, Preparing, Restoring, Removing
  <2> QED  BY <1>2, <2>1, <2>4
<1>9. CASE SyncRemoval(p)
  <2> DEFINE next == [Idle EXCEPT !.pc = "list", !.cmd = "recover",
                                  !.interrupted = run[p].interrupted]
  <2>1. next.pc = "list" /\ Idle.pc = "idle"
    BY DEF Idle
  <2> HIDE DEF next
  <2>2. run' = [run EXCEPT ![p] = next] \/ run' = [run EXCEPT ![p] = Idle]
    BY <1>9 DEF SyncRemoval, Return, next
  <2>3. run'[p].pc \in {"idle", "list"} /\ UNCHANGED src
    BY <1>1, <1>9, <2>1, <2>2 DEF SyncRemoval
  <2> QED  BY <1>2, <2>3, Unknowing
<1> QED  BY <1>3, <1>4, <1>5, <1>6, <1>7, <1>8, <1>9

\* The start of a fix: the saves are those since then.
LEMMA OpenSaved ==
    ASSUME Base, Outcome, Saved, NEW p \in Procs, Open(p)
    PROVE  Aside' /\ Known(p)'
<1>1. CASE dirty' = {}
  BY <1>1 DEF Aside, Known
<1>2. CASE OnError(p) /\ UNCHANGED <<fs, user, before, dirty, last>>
  <2>1. run[p].pc = "open" /\ UNCHANGED <<src, user, dirty, before, last>>
    BY <1>2 DEF Open, fs
  <2> QED  BY <1>2, <2>1, AsideStays, OnErrorKnown DEF Saved
<1> QED  BY <1>1, <1>2 DEF Open

\* A step of the tool: the other processes are idle.
LEMMA StepSaved ==
    ASSUME Base, Outcome, Saved, SpacingInv, \A q \in Procs : Errand(q),
           NEW p \in Procs, Step(p)
    PROVE  Saved' /\ \A q \in Procs : Errand(q)'
<1>1. Window(p) /\ RunOK /\ OneAtATime /\ Errand(p)
  BY DEF SpacingInv, Base
<1>2. Errand(p)' /\ run[p].pc # "idle" /\ Alone(p)
  BY <1>1, StepLabels, StepAlone
<1>3. Aside' /\ Known(p)'
  BY <1>1, OpenSaved, PrepareSaved, ReplaceSaved, RollbackSaved DEF Step
<1>4. ASSUME NEW q \in Procs, q # p
      PROVE  Known(q)' /\ Errand(q)'
  <2>1. run'[q] = run[q] /\ run[q].pc = "idle" /\ Errand(q)
    BY <1>1, <1>2, <1>4 DEF OneAtATime, Alone
  <2> QED  BY <2>1, Unknowing DEF Errand
<1> QED  BY <1>2, <1>3, <1>4 DEF Saved

\* The start of an invocation, a signal, a failing call, the death of a process.
LEMMA LockSaved ==
    ASSUME Base, Saved, \A q \in Procs : Errand(q),
           NEW p \in Procs, NEW c \in Commands, LockWorkspace(p, c)
    PROVE  Saved' /\ \A q \in Procs : Errand(q)'
<1>1. UNCHANGED <<src, user, dirty, before, last>>
  BY DEF LockWorkspace, fs, hist
<1>2. \A q \in Procs : run[q].pc = "idle"
  BY NoProcAssumption DEF LockWorkspace, Base, OneAtATime
<1>3. ASSUME NEW q \in Procs
      PROVE  /\ run'[q].pc \in {"idle", "list", "open"}
             /\ run'[q].outcome = run[q].outcome
             /\ run'[q].pc = "open" => run'[q].cmd = "fix"
  BY <1>2 DEF LockWorkspace, Base, RunOK, Running
<1>4. ASSUME NEW q \in Procs
      PROVE  Errand(q)'
  <2>1. run[q].outcome = "none"
    BY <1>2 DEF Errand
  <2> QED  BY <1>3, <2>1 DEF Errand, Opening, Preparing, Replacing
<1> QED  BY <1>1, <1>3, <1>4, AsideStays, Unknowing DEF Saved

LEMMA SignalSaved ==
    ASSUME Base, Saved, \A q \in Procs : Errand(q),
           \/ \E p \in Procs : Signal(p)
           \/ UNCHANGED vars
    PROVE  Saved' /\ \A q \in Procs : Errand(q)'
<1>1. UNCHANGED <<src, user, dirty, before, last>>
  BY DEF Signal, Fault, vars, fs, hist
<1>2. ASSUME NEW q \in Procs
      PROVE  /\ run'[q].pc = run[q].pc /\ run'[q].txn = run[q].txn
             /\ run'[q].todo = run[q].todo /\ run'[q].conflicts = run[q].conflicts
             /\ run'[q].outcome = run[q].outcome /\ run'[q].cmd = run[q].cmd
  BY DEF Signal, vars, Base, RunOK, Running
<1>3. ASSUME NEW q \in Procs
      PROVE  Errand(q)' /\ Known(q)'
  BY <1>1, <1>2 DEF Saved, Errand, Known, AtFile
<1> QED  BY <1>1, <1>3, AsideStays DEF Saved

LEMMA FailureSaved ==
    ASSUME Base, Outcome, Saved, \A q \in Procs : Errand(q),
           NEW p \in Procs, Fail(p) \/ Kill(p)
    PROVE  Saved' /\ \A q \in Procs : Errand(q)'
<1>1. /\ UNCHANGED <<src, user, dirty, before, last>> /\ run[p].pc # "idle"
      /\ \/ OnError(p)
         \/ run' = [run EXCEPT ![p] = Idle] /\ lock' = NoProc
  BY DEF Fail, Kill, Return, Fault, fs, hist
<1>2. Idle.pc = "idle" /\ Idle.outcome = "none" /\ RunOK /\ run \in [Procs -> Running]
  BY DEF Idle, Base, RunOK
<1>3. Alone(p)
  BY <1>1, <1>2, OnErrorAlone DEF Alone
<1>4. Known(p)' /\ Errand(p)'
  <2>1. CASE run' = [run EXCEPT ![p] = Idle]
    BY <1>2, <2>1, Unknowing DEF Errand, Opening, Preparing, Replacing
  <2>2. CASE OnError(p)
    <3>1. CASE run[p].pc \in Preparing \cup Replacing
      <4>1. run'[p].pc \in {"remove", "restore"}
        BY <1>2, <2>2, <3>1, ErrorMoves
      <4> QED
        BY <1>1, <2>2, <4>1, OnErrorKnown DEF Errand, Opening, Preparing, Replacing
    <3>2. CASE run[p].pc \notin Preparing \cup Replacing
      BY <2>1, <2>2, <3>2 DEF OnError, Return
    <3> QED  BY <3>1, <3>2
  <2> QED  BY <1>1, <2>1, <2>2
<1>5. ASSUME NEW q \in Procs, q # p
      PROVE  Known(q)' /\ Errand(q)'
  <2>1. run'[q] = run[q] /\ run[q].pc = "idle" /\ Errand(q)
    BY <1>1, <1>3, <1>5 DEF Base, OneAtATime, Alone
  <2> QED  BY <2>1, Unknowing DEF Errand
<1> QED  BY <1>1, <1>4, <1>5, AsideStays DEF Saved

\* The editor.
LEMMA SaveSaved ==
    ASSUME Base, Saved, \A q \in Procs : Errand(q),
           NEW f \in Files, NEW c \in Saves, Save(f, c)
    PROVE  Saved' /\ \A q \in Procs : Errand(q)'
<1>1. /\ UNCHANGED <<run, before, last>> /\ dirty' = dirty \cup {f}
      /\ src'[f] = user'[f]
      /\ \A g \in Files \ {f} : src'[g] = src[g] /\ user'[g] = user[g]
  BY DEF Save, Base, SrcOK, RestOK
<1>2. dirty \subseteq Files /\ \A t : Changed(t)' = Changed(t)
  BY <1>1, SameJournal DEF Base, RestOK
<1>3. Aside'
  BY <1>1, <1>2 DEF Saved, Aside
<1>4. ASSUME NEW q \in Procs
      PROVE  Errand(q)' /\ Known(q)'
  BY <1>1, <1>2 DEF Saved, Errand, Known, AtFile
<1> QED  BY <1>3, <1>4 DEF Saved

-----------------------------------------------------------------------------
(* The workspace as it is read with the journal that is open.              *)

Pending == last \in Txns /\ jr[last].dir /\ jr[last].phase = "prepared"
Undone(f) == Pending /\ f \in Changed(last) /\ src[f] = After(last, f)
Shown(f) == IF Undone(f) THEN before[last][f] ELSE src[f]

\* There is one journal to resolve.
LEMMA ResolvedIs == OneJournal /\ JrOK => Resolved = [f \in Files |-> Shown(f)]
<1> SUFFICES ASSUME OneJournal, JrOK, NEW f \in Files
             PROVE  Resolved[f] = Shown(f)
  BY DEF Resolved
<1> DEFINE undone == {t \in Visible : /\ jr[t].phase = "prepared"
                                      /\ f \in Changed(t) /\ src[f] = After(t, f)}
<1>1. Resolved[f] = IF undone = {} THEN src[f] ELSE before[CHOOSE t \in undone : TRUE][f]
  BY DEF Resolved
<1>2. \A t \in Txns \ {last} : ~jr[t].dir
  BY Reading DEF OneJournal, Nothing
<1>3. undone = IF Undone(f) THEN {last} ELSE {}
  BY <1>2 DEF Visible, Undone, Pending
<1> HIDE DEF undone
<1>4. undone = {last} => (CHOOSE t \in undone : TRUE) = last
  OBVIOUS
<1> QED  BY <1>1, <1>3, <1>4 DEF Shown
LEMMA ResolvedNext == (OneJournal /\ JrOK)' => (Resolved = [f \in Files |-> Shown(f)])'
BY ResolvedIs, PTL

\* A fix is in flight where its label says so.
LEMMA InFlightIs ==
    (\A p \in Procs : Errand(p)) => (InFlight <=> \E p \in Procs : run[p].pc \in Flying)
BY DEF Errand, InFlight, Flying, Opening, Preparing, Replacing
LEMMA InFlightNext ==
    (\A p \in Procs : Errand(p))' => (InFlight <=> \E p \in Procs : run[p].pc \in Flying)'
BY InFlightIs, PTL

-----------------------------------------------------------------------------
(* Every step is one of the atomic workspace, or none.                     *)

\* The parts of the invariant.
LEMMA Parts == IInv => Base
BY TypeParts DEF IInv, Base, TypeOK, TxnOK, SrcOK, JrOK, RunOK, RestOK, Running
LEMMA PartsNext == IInv' => Base'
BY Parts, PTL

\* Nothing is shown differently: the step is unseen, or gives the fix up.
LEMMA Unseen ==
    ASSUME AInv, AInv', UNCHANGED <<user, dirty>>, InFlight' => InFlight,
           \A f \in Files : Shown(f)' = Shown(f)
    PROVE  [Atomic!Next]_(Atomic!vars)
<1>1. Resolved = [f \in Files |-> Shown(f)] /\ Resolved' = [f \in Files |-> Shown(f)']
  BY Parts, PartsNext, ResolvedIs, ResolvedNext DEF AInv, Base, Outcome
<1>2. Resolved' = Resolved
  BY <1>1
<1>3. InFlight \in BOOLEAN /\ InFlight' \in BOOLEAN
  BY DEF InFlight
<1>4. CASE InFlight' = InFlight
  BY <1>2, <1>4 DEF Atomic!vars
<1>5. CASE InFlight /\ InFlight' = FALSE
  BY <1>2, <1>5 DEF Atomic!Next, Atomic!Abandon
<1> QED  BY <1>3, <1>4, <1>5

\* The sources are read as before, and so is the journal that is open.
LEMMA SameShown ==
    ASSUME UNCHANGED <<src, before, last>>, Pending' <=> Pending
    PROVE  \A f \in Files : Shown(f)' = Shown(f)
BY DEF Shown, Undone, Changed, After
LEMMA SameFlight ==
    ASSUME AInv, AInv', NEW p \in Procs, Alone(p), run[p].pc # "idle",
           run'[p].pc \in Flying => run[p].pc \in Flying
    PROVE  InFlight' => InFlight
<1>1. ASSUME NEW q \in Procs, run'[q].pc \in Flying
      PROVE  run[q].pc \in Flying
  BY <1>1 DEF Alone
<1> QED  BY <1>1, InFlightIs, InFlightNext DEF AInv

\* A step of the tool that shows the same.
LEMMA UnseenStep ==
    ASSUME AInv, AInv', NEW p \in Procs, Step(p), ~Open(p), UNCHANGED <<user, dirty>>,
           \A f \in Files : Shown(f)' = Shown(f)
    PROVE  [Atomic!Next]_(Atomic!vars)
<1>1. Base /\ RunOK /\ Errand(p)
  BY Parts DEF AInv, Base
<1>2. run'[p].pc \in Flying => run[p].pc \in Flying
  BY <1>1, StepLabels
<1>3. run[p].pc # "idle" /\ Alone(p)
  BY <1>1, StepAlone
<1> QED  BY <1>2, <1>3, SameFlight, Unseen

\* Steps that leave every entry the reader goes by: the directory of the
\* journal, its phase, the sources.
LEMMA UnseenChecks ==
    ASSUME AInv, AInv', NEW p \in Procs,
           \/ \E f \in Files :
                 \/ AssertSnapshot(p, f) \/ SyncBackup(p, f) \/ CheckSource(p, f)
                 \/ SyncRenamed(p, f) \/ VerifySnapshot(p, f)
                 \/ RestoreCheck(p, f) \/ RestoreSync(p, f)
           \/ SyncJournal(p) \/ SyncTransactions(p) \/ SyncStateDir(p)
           \/ CheckEnd(p) \/ FinalCheck(p) \/ VerifyEnd(p) \/ SyncComplete(p)
           \/ ListTransactions(p) \/ RestoreEnd(p) \/ SyncRemoval(p)
    PROVE  [Atomic!Next]_(Atomic!vars)
<1>1. UNCHANGED <<src, jr, before, user, dirty, last>> /\ run[p].pc # "open"
  BY DEF AssertSnapshot, SyncBackup, CheckSource, SyncRenamed, VerifySnapshot, RestoreCheck,
         RestoreSync, SyncJournal, SyncTransactions, SyncStateDir, CheckEnd, FinalCheck,
         VerifyEnd, SyncComplete, ListTransactions, RestoreEnd, SyncRemoval,
         SyncDir, SyncList, SyncSource, AtFile, AtEnd, fs, hist
<1>2. Step(p) /\ ~Open(p)
  BY <1>1 DEF Step, Open
<1>3. \A g \in Files : Shown(g)' = Shown(g)
  BY <1>1, SameShown DEF Pending
<1> QED  BY <1>1, <1>2, <1>3, UnseenStep

\* The journal directory comes and goes without a journal in it, and the
\* backups with the journal as it is.
LEMMA UnseenEntries ==
    ASSUME AInv, AInv', NEW p \in Procs, NEW t, t = run[p].txn,
           \/ MakeJournalDir(p)
           \/ \E f \in Files : WriteBackup(p, f)
           \/ RemoveEntry(p) /\ ~PutPhase(t, "none")
    PROVE  [Atomic!Next]_(Atomic!vars)
<1>1. UNCHANGED <<src, before, user, dirty, last>> /\ Working(p)
  BY DEF MakeJournalDir, WriteBackup, RemoveEntry, AtFile, AtEnd, fs, hist, Working
<1>2. Step(p) /\ ~Open(p)
  BY <1>1 DEF Step, Open, Working
<1>3. Base /\ JrOK /\ jr \in [Txns -> Image] /\ JournalAt(p) /\ t \in Txns
  BY <1>1, Parts, OwnIsLast DEF AInv, Base, JrOK, JournalInv
<1>4. CASE UNCHANGED jr
  BY <1>1, <1>2, <1>4, SameShown, UnseenStep DEF Pending
<1>5. ASSUME NEW g, PutBackup(t, g) \/ DropBackup(t, g)
      PROVE  [Atomic!Next]_(Atomic!vars)
  <2>1. \A u \in Txns : jr'[u].dir = jr[u].dir /\ jr'[u].phase = jr[u].phase
    BY <1>3, <1>5, BackupImages
  <2> QED  BY <1>1, <1>2, <2>1, SameShown, UnseenStep DEF Pending
<1>6. ASSUME NEW there \in BOOLEAN, PutDir(t, there), jr[t].phase = "none"
      PROVE  [Atomic!Next]_(Atomic!vars)
  <2>1. jr'[t] = [jr[t] EXCEPT !.dir = there] /\ \A u \in Txns \ {t} : jr'[u] = jr[u]
    BY <1>3, <1>6, DirImages
  <2>2. jr'[t].phase = "none"
    BY <1>3, <1>6, <2>1 DEF Image
  <2>3. Pending' <=> Pending
    BY <1>1, <1>6, <2>1, <2>2 DEF Pending
  <2> QED  BY <1>1, <1>2, <2>3, SameShown, UnseenStep
<1>7. CASE MakeJournalDir(p)
  <2>1. jr[t].phase = "none"
    BY <1>3, <1>7 DEF MakeJournalDir, AtEnd, JournalAt, JrOK, Nothing
  <2> QED  BY <1>4, <1>6, <1>7, <2>1 DEF MakeJournalDir, fs
<1>8. CASE \E f \in Files : WriteBackup(p, f)
  BY <1>4, <1>5, <1>8 DEF WriteBackup, fs
<1>9. CASE RemoveEntry(p) /\ ~PutPhase(t, "none")
  BY <1>5, <1>6, <1>9 DEF RemoveEntry
<1> QED  BY <1>7, <1>8, <1>9

\* A source is replaced by what its journal says it may hold, or restored.
LEMMA UnseenRenames ==
    ASSUME AInv, AInv', NEW p \in Procs, NEW f \in Files,
           RenameSource(p, f) \/ RestoreRename(p, f)
    PROVE  [Atomic!Next]_(Atomic!vars)
<1> USE DEF AtFile
<1>1. /\ UNCHANGED <<jr, before, user, dirty, last>>
      /\ run[p].pc \in {"rename", "restoreRename"}
  BY DEF RenameSource, RestoreRename, hist
<1>2. Step(p) /\ ~Open(p)
  BY <1>1 DEF Step, Open
<1>3. Base /\ SrcOK /\ Window(p) /\ Progress(p)
  BY Parts DEF AInv, Base, SpacingInv, Outcome
<1>4. PICK t \in Txns : t = run[p].txn /\ t = last
  BY <1>1, <1>3, OwnIsLast DEF AInv, Working
<1>5. Pending /\ Pending'
  <2>1. jr[t].dir /\ jr[t].phase = "prepared"
    BY <1>1, <1>3, <1>4, PreparedImages DEF Progress, Rolling, Replacing, Restoring
  <2> QED  BY <1>1, <1>4, <2>1 DEF Pending
<1>6. \/ src[f] = before[t][f] /\ src' = [src EXCEPT ![f] = After(t, f)]
      \/ src[f] = After(t, f) /\ src' = [src EXCEPT ![f] = before[t][f]]
  BY <1>3, <1>4 DEF RenameSource, RestoreRename, PutSource, Window
<1>7. Shown(f)' = Shown(f)
  <2>1. \/ src[f] = before[t][f] /\ src'[f] = After(t, f)
        \/ src[f] = After(t, f) /\ src'[f] = before[t][f]
    BY <1>3, <1>6 DEF SrcOK
  <2>2. After(t, f)' = After(t, f) /\ (f \in Changed(t)' <=> f \in Changed(t))
        /\ (f \in Changed(t) <=> After(t, f) # before[t][f])
    BY <1>1, SameJournal DEF Changed
  <2> QED  BY <1>1, <1>4, <1>5, <2>1, <2>2 DEF Shown, Undone
<1>8. ASSUME NEW g \in Files \ {f}
      PROVE  Shown(g)' = Shown(g)
  <2>1. src'[g] = src[g]
    BY <1>3, <1>6 DEF SrcOK
  <2> QED  BY <1>1, <1>5, <2>1, SameJournal DEF Shown, Undone
<1> QED  BY <1>1, <1>2, <1>7, <1>8, UnseenStep

\* y is what a fix makes of x.
Made(x, y) == y \in [c \in Contents |-> {Fix[c]}][x]

\* What the atomic workspace reads before and after a step.
LEMMA Reads ==
    ASSUME AInv, AInv'
    PROVE  /\ Resolved = [f \in Files |-> Shown(f)]
           /\ Resolved' = [f \in Files |-> Shown(f)']
           /\ Resolved' \in [Files -> Contents]
<1>1. Resolved = [f \in Files |-> Shown(f)] /\ Resolved' = [f \in Files |-> Shown(f)']
  BY Parts, PartsNext, ResolvedIs, ResolvedNext DEF AInv, Base, Outcome
<1>2. SrcOK' /\ RestOK'
  BY PartsNext DEF AInv, Base
<1>3. \A f \in Files : Shown(f)' \in Contents
  BY <1>2 DEF Shown, Undone, Pending, SrcOK, RestOK
<1> QED  BY <1>1, <1>3

\* A step after which some saves show in the form from before the fix.
LEMMA Respaces ==
    ASSUME AInv, AInv', UNCHANGED <<user, dirty>>, InFlight' = InFlight,
           \A f \in Files : Shown(f)' # Shown(f) =>
               f \in dirty /\ Made(user[f], user[f]) /\ Made(Shown(f)', user[f])
    PROVE  Atomic!Respace
<1>1. \A f \in Files : Resolved[f] = Shown(f) /\ Resolved'[f] = Shown(f)'
  BY Reads
<1>2. \A f \in Files : \/ Resolved'[f] = Resolved[f]
                       \/ f \in dirty /\ Made(user[f], user[f]) /\ Made(Resolved'[f], user[f])
  BY <1>1
<1>3. Resolved' \in [Files -> Contents]
  BY Reads
<1> QED  BY ONLY <1>2, <1>3, UNCHANGED <<user, dirty>>, InFlight' = InFlight, Zenon
            DEF Atomic!Respace, Made

\* The snapshot is taken when there is no journal: the fix begins.
LEMMA OpenBegins ==
    ASSUME AInv, AInv', NEW p \in Procs, Open(p)
    PROVE  [Atomic!Next]_(Atomic!vars)
<1>1. Base /\ RunOK /\ run \in [Procs -> Running] /\ OneAtATime /\ run[p].pc = "open"
  BY Parts DEF AInv, Base, RunOK, Open
<1>2. UNCHANGED <<src, jr>> /\ Alone(p) /\ user' = user
  BY <1>1, StepAlone DEF Step, Open, fs
<1>3. CASE UNCHANGED <<before, dirty, last>> /\ OnError(p)
  <2>1. run'[p].pc = "idle"
    BY <1>1, <1>3, ErrorMoves DEF Preparing, Replacing
  <2>2. InFlight' => InFlight
    BY <1>1, <1>2, <2>1, SameFlight DEF Flying, Preparing, Replacing
  <2> QED  BY <1>2, <1>3, <2>2, SameShown, Unseen DEF Pending
<1>4. ASSUME Visible = {}, NEW t \in Txns, dirty' = {},
             run' = [run EXCEPT ![p].pc = "assert", ![p].txn = t, ![p].todo = Files]
      PROVE  [Atomic!Next]_(Atomic!vars)
  <2>1. ~Pending /\ ~Pending'
    BY <1>2, <1>4 DEF Visible, Pending
  <2>2. Resolved' = Resolved
    BY <1>2, <2>1, Reads DEF Shown, Undone
  <2>3. \A q \in Procs : run[q].pc \notin Flying
    BY <1>1 DEF OneAtATime, Flying, Preparing, Replacing
  <2>4. run'[p].pc = "assert"
    BY <1>1, <1>4 DEF Running
  <2>5. ~InFlight /\ InFlight'
    BY <2>3, <2>4, InFlightIs, InFlightNext DEF AInv, Flying
  <2>6. InFlight' = TRUE
    BY <2>5 DEF InFlight
  <2> QED  BY <1>2, <1>4, <2>2, <2>5, <2>6 DEF Atomic!Next, Atomic!Begin
<1> QED  BY <1>3, <1>4 DEF Open

\* The journal appears: a save of exactly what the fix will write now counts as
\* the fix's own.
LEMMA JournalRespaces ==
    ASSUME AInv, AInv', NEW p \in Procs, WriteJournal(p)
    PROVE  [Atomic!Next]_(Atomic!vars)
<1>1. /\ UNCHANGED <<src, before, user, dirty, last>> /\ run[p].pc = "backup"
      /\ PutPhase(run[p].txn, "prepared") /\ Goto(p, "journalSync")
  BY DEF WriteJournal, AtEnd, hist
<1>2. Base /\ SrcOK /\ JrOK /\ RunOK /\ RestOK /\ Progress(p) /\ JournalAt(p) /\ Known(p)
  BY Parts DEF AInv, Base, Outcome, JournalInv, Saved
<1>3. PICK t \in Txns : t = run[p].txn /\ t = last
  BY <1>1, <1>2, OwnIsLast DEF AInv, Working
<1>4. ~Pending
  BY <1>1, <1>2, <1>3 DEF Pending, JournalAt, JrOK
<1>5. InFlight' = InFlight
  <2>1. run'[p].pc = "journalSync" /\ Alone(p)
    BY <1>1, <1>2, StepAlone DEF Step, Goto, RunOK, Running
  <2>2. InFlight /\ InFlight'
    BY <1>1, <2>1, InFlightIs, InFlightNext DEF AInv, Flying, Preparing
  <2> QED  BY <2>2 DEF InFlight
<1>6. ASSUME NEW f \in Files, Shown(f)' # Shown(f)
      PROVE  f \in dirty /\ Made(user[f], user[f]) /\ Made(Shown(f)', user[f])
  <2>1. Undone(f)' /\ Shown(f)' = before[t][f] /\ Shown(f) = src[f]
    BY <1>1, <1>3, <1>4, <1>6 DEF Shown, Undone
  <2>2. src[f] = After(t, f) /\ After(t, f) # before[t][f]
    BY <1>1, <1>3, <2>1, SameJournal DEF Undone, Changed
  <2>3. f \in dirty
    <3>1. Original(t) /\ src[f] \in OnDisk(f)
      BY <1>1, <1>2, <1>3, Reading DEF Progress, Untouched, Preparing
    <3> QED  BY <2>2, <3>1 DEF Original
  <2>4. src[f] = user[f]
    BY <1>1, <1>2, <2>3 DEF Known, Preparing
  <2>5. before[t][f] \in Contents
    BY <1>2 DEF RestOK
  <2> QED  BY <2>1, <2>2, <2>3, <2>4, <2>5, FixAssumption DEF After, Made
<1>7. Atomic!Respace
  BY <1>1, <1>5, <1>6, Respaces
<1> QED  BY <1>7 DEF Atomic!Next

\* The rename of the complete journal: what was shown as original is the fix.
LEMMA CompleteCommits ==
    ASSUME AInv, AInv', NEW p \in Procs, WriteComplete(p)
    PROVE  [Atomic!Next]_(Atomic!vars)
<1>1. /\ UNCHANGED <<src, before, user, dirty, last>> /\ run[p].pc = "complete"
      /\ PutPhase(run[p].txn, "complete") /\ Goto(p, "completeSync")
  BY DEF WriteComplete, hist
<1>2. Base /\ SrcOK /\ JrOK /\ RunOK /\ RestOK /\ OneAtATime /\ Progress(p)
  BY Parts DEF AInv, Base, Outcome
<1>3. PICK t \in Txns : t = run[p].txn /\ t = last
  BY <1>1, <1>2, OwnIsLast DEF AInv, Working
<1>4. Pending /\ ~Pending'
  <2>1. jr[t].dir /\ jr[t].phase = "prepared"
    BY <1>1, <1>2, <1>3, PreparedImages DEF Replacing
  <2>2. "complete" \in Phases /\ JrOK /\ PutPhase(t, "complete")
    BY <1>1, <1>2, <1>3 DEF Phases
  <2>3. jr'[t] = [jr[t] EXCEPT !.phase = "complete"]
    BY <2>2, PhaseImages
  <2>4. jr'[t].phase = "complete"
    BY <2>2, <2>3 DEF JrOK, Image
  <2> QED  BY <1>1, <1>3, <2>1, <2>4 DEF Pending
<1>5. InFlight /\ InFlight' = FALSE
  <2>1. run'[p].pc = "completeSync" /\ Alone(p)
    BY <1>1, <1>2, StepAlone DEF Step, Goto, RunOK, Running
  <2>2. \A q \in Procs : run'[q].pc \notin Flying
    BY <1>1, <1>2, <2>1 DEF OneAtATime, Alone, Flying, Preparing, Replacing
  <2>3. InFlight /\ ~InFlight'
    BY <1>1, <2>2, InFlightIs, InFlightNext DEF AInv, Flying, Replacing
  <2> QED  BY <2>3
<1>6. ASSUME NEW f \in Files
      PROVE  Made(Shown(f), Shown(f)') \/ (f \in dirty /\ Shown(f)' = Shown(f))
  <2>1. Shown(f)' = src[f]
    BY <1>1, <1>4 DEF Shown, Undone
  <2>2. before[t][f] \in Contents /\ Fix[before[t][f]] = After(t, f)
        /\ Fix[After(t, f)] = After(t, f)
    BY <1>2, FixAssumption DEF RestOK, After
  <2>3. Shown(f) = IF f \in Changed(t) /\ src[f] = After(t, f) THEN before[t][f] ELSE src[f]
    BY <1>3, <1>4 DEF Shown, Undone
  <2>4. f \notin dirty => src[f] = After(t, f)
    BY <1>1, <1>2, <1>3, Reading DEF Progress, Done, Replaced
  <2>5. After(t, f) \in Contents
    BY <2>2, FixAssumption DEF After
  <2> QED  BY <2>1, <2>2, <2>3, <2>4, <2>5 DEF Made
<1>7. Atomic!Commit
  BY <1>1, <1>5, <1>6, Reads DEF Atomic!Commit, Made
<1> QED  BY <1>7 DEF Atomic!Next

\* The journal is removed: after a rollback every original is back, and what
\* still looks like the fix is a save.
LEMMA RemovalRespaces ==
    ASSUME AInv, AInv', NEW p \in Procs, RemoveEntry(p), PutPhase(run[p].txn, "none")
    PROVE  [Atomic!Next]_(Atomic!vars)
<1>1. UNCHANGED <<src, before, user, dirty, last>> /\ run[p].pc = "remove"
  BY DEF RemoveEntry, hist
<1>2. Base /\ SrcOK /\ JrOK /\ RestOK /\ RunOK /\ OneAtATime /\ Progress(p) /\ Known(p)
  BY Parts DEF AInv, Base, Outcome, Saved
<1>3. PICK t \in Txns : t = run[p].txn /\ t = last
  BY <1>1, <1>2, OwnIsLast DEF AInv, Working
<1>4. Step(p) /\ ~Open(p)
  BY <1>1 DEF Step, Open
<1>5. ~Pending'
  <2>1. jr'[t] = [jr[t] EXCEPT !.phase = "none"] /\ jr[t] \in Image
    BY <1>2, <1>3, PhaseImages DEF Phases, JrOK
  <2>2. jr'[t].phase = "none"
    BY <2>1 DEF Image
  <2> QED  BY <1>1, <1>3, <2>2 DEF Pending
<1>6. CASE run[p].outcome = "fixed"
  <2>1. jr[t].phase # "prepared"
    BY <1>1, <1>2, <1>3, <1>6, Reading DEF Progress, Resolving, Removing
  <2>2. ~Pending
    BY <1>3, <2>1 DEF Pending
  <2> QED  BY <1>1, <1>4, <1>5, <2>2, SameShown, UnseenStep
<1>7. CASE run[p].outcome # "fixed"
  <2>1. ASSUME NEW f \in Files, Shown(f)' # Shown(f)
        PROVE  f \in dirty /\ Made(user[f], user[f]) /\ Made(Shown(f)', user[f])
    <3>1. Shown(f)' = src[f] /\ src[f] = After(t, f) /\ After(t, f) # before[t][f]
      BY <1>1, <1>3, <1>5, <2>1 DEF Shown, Undone, Changed
    <3>2. f \in dirty
      <4>1. Original(t) /\ src[f] \in OnDisk(f)
        BY <1>1, <1>2, <1>3, <1>7, Reading DEF Progress, Resolving, Removing
      <4> QED  BY <3>1, <4>1 DEF Original
    <3>3. src[f] = user[f]
      BY <1>1, <1>2, <1>3, <1>7, <3>1, <3>2 DEF Known, Removing
    <3>4. before[t][f] \in Contents
      BY <1>2 DEF RestOK
    <3> QED  BY <3>1, <3>2, <3>3, <3>4, FixAssumption DEF After, Made
  <2>2. InFlight' = InFlight
    <3>1. Alone(p) /\ run'[p].pc \notin Flying
      BY <1>1, <1>2, <1>4, StepAlone, StepLabels DEF AInv, Flying, Preparing, Replacing
    <3>2. \A q \in Procs : run[q].pc \notin Flying /\ run'[q].pc \notin Flying
      BY <1>1, <1>2, <3>1 DEF OneAtATime, Alone, Flying, Preparing, Replacing
    <3>3. ~InFlight /\ ~InFlight'
      BY <3>2, InFlightIs, InFlightNext DEF AInv
    <3> QED  BY <3>3 DEF InFlight
  <2>3. Atomic!Respace
    BY <1>1, <2>1, <2>2, Respaces
  <2> QED  BY <2>3 DEF Atomic!Next
<1> QED  BY <1>6, <1>7

\* The editor saves: what is shown is the save, or, where it is exactly what the
\* open journal writes, the text the fix started from.
LEMMA SaveSaves ==
    ASSUME AInv, AInv', NEW f \in Files, NEW c \in Saves, Save(f, c)
    PROVE  [Atomic!Next]_(Atomic!vars)
<1>1. /\ UNCHANGED <<jr, run, before, last>>
      /\ dirty' = dirty \cup {f} /\ user' = [user EXCEPT ![f] = c]
      /\ src'[f] = c /\ \A g \in Files \ {f} : src'[g] = src[g]
  BY Parts DEF Save, AInv, Base, SrcOK
<1>2. Pending' <=> Pending
  BY <1>1 DEF Pending
<1>3. \A g \in Files \ {f} : Shown(g)' = Shown(g)
  BY <1>1, <1>2, SameJournal DEF Shown, Undone
<1>4. InFlight' = InFlight
  BY <1>1 DEF InFlight
<1>5. \/ Shown(f)' = c
      \/ \E x \in Contents : Made(x, c) /\ Shown(f)' = x
  <2>1. CASE Undone(f)'
    <3>1. Pending /\ src'[f] = After(last, f) /\ Shown(f)' = before[last][f]
      BY <1>1, <1>2, <2>1, SameJournal DEF Shown, Undone
    <3>2. before[last][f] \in Contents
      BY <3>1, Parts DEF Pending, AInv, Base, RestOK
    <3> QED  BY <1>1, <3>1, <3>2 DEF After, Made
  <2>2. CASE ~Undone(f)'
    BY <1>1, <2>2 DEF Shown
  <2> QED  BY <2>1, <2>2
<1>6. Resolved' = [Resolved EXCEPT ![f] = Shown(f)']
  BY <1>3, Reads
<1>7. Atomic!Save(f, c)
  BY <1>1, <1>4, <1>5, <1>6 DEF Atomic!Save, Made
<1> QED  BY <1>7 DEF Atomic!Next

\* The steps of the tool.
LEMMA StepMaps ==
    ASSUME AInv, AInv', NEW p \in Procs, Step(p)
    PROVE  [Atomic!Next]_(Atomic!vars)
<1>1. CASE Open(p)
  BY <1>1, OpenBegins
<1>2. CASE WriteJournal(p) \/ WriteComplete(p)
  BY <1>2, JournalRespaces, CompleteCommits
<1>3. CASE MakeJournalDir(p) \/ RemoveEntry(p)
  BY <1>3, UnseenEntries, RemovalRespaces
<1>4. ASSUME NEW f \in Files,
             \/ AssertSnapshot(p, f) \/ WriteBackup(p, f) \/ SyncBackup(p, f)
             \/ CheckSource(p, f) \/ RenameSource(p, f) \/ SyncRenamed(p, f)
             \/ VerifySnapshot(p, f)
             \/ RestoreCheck(p, f) \/ RestoreRename(p, f) \/ RestoreSync(p, f)
      PROVE  [Atomic!Next]_(Atomic!vars)
  BY <1>4, UnseenChecks, UnseenEntries, UnseenRenames
<1> QED  BY <1>1, <1>2, <1>3, <1>4, UnseenChecks DEF Step

\* The start of an invocation, and what the environment does to one.
LEMMA EnvironmentMaps ==
    ASSUME AInv, AInv', "power" \notin Env,
           \/ \E p \in Procs, c \in Commands : LockWorkspace(p, c)
           \/ Environment
           \/ UNCHANGED vars
    PROVE  [Atomic!Next]_(Atomic!vars)
<1>1. Base /\ RunOK /\ run \in [Procs -> Running] /\ OneAtATime
  BY Parts DEF AInv, Base, RunOK
<1>2. ASSUME UNCHANGED <<src, jr, before, user, dirty, last>>, InFlight' => InFlight
      PROVE  [Atomic!Next]_(Atomic!vars)
  BY <1>2, SameShown, Unseen DEF Pending
<1>3. ASSUME NEW p \in Procs, NEW c \in Commands, LockWorkspace(p, c)
      PROVE  [Atomic!Next]_(Atomic!vars)
  <2>1. UNCHANGED <<src, jr, before, user, dirty, last>>
    BY <1>3 DEF LockWorkspace, fs, hist
  <2>2. \A q \in Procs : run'[q].pc \in {"idle", "open", "list"}
    BY <1>1, <1>3, NoProcAssumption DEF LockWorkspace, OneAtATime, Running
  <2>3. ~InFlight'
    BY <2>2, InFlightNext DEF AInv, Flying, Preparing, Replacing
  <2> QED  BY <1>2, <2>1, <2>3
<1>4. ASSUME NEW p \in Procs, Signal(p)
      PROVE  [Atomic!Next]_(Atomic!vars)
  <2>1. UNCHANGED <<src, jr, before, user, dirty, last>>
    BY <1>4 DEF Signal, Fault, fs, hist
  <2>2. \A q \in Procs : run'[q].pc = run[q].pc
    BY <1>1, <1>4 DEF Signal, Running
  <2>3. InFlight' => InFlight
    BY <2>2, InFlightIs, InFlightNext DEF AInv
  <2> QED  BY <1>2, <2>1, <2>3
<1>5. ASSUME NEW p \in Procs, Fail(p) \/ Kill(p)
      PROVE  [Atomic!Next]_(Atomic!vars)
  <2>1. UNCHANGED <<src, jr, before, user, dirty, last>> /\ run[p].pc # "idle"
    BY <1>5 DEF Fail, Kill, Fault, fs, hist
  <2>2. Alone(p) /\ run'[p].pc \in {"idle", "remove", "restore"}
    BY <1>1, <1>5, OnErrorAlone, ErrorMoves DEF Fail, Kill, Return, Alone, Idle
  <2>3. InFlight' => InFlight
    BY <2>1, <2>2, SameFlight DEF Flying, Preparing, Replacing
  <2> QED  BY <1>2, <2>1, <2>3
<1>6. ASSUME NEW f \in Files, NEW c \in Saves, Save(f, c)
      PROVE  [Atomic!Next]_(Atomic!vars)
  BY <1>6, SaveSaves
<1>7. CASE UNCHANGED vars
  <2>1. UNCHANGED <<src, jr, run, before, user, dirty, last>>
    BY <1>7 DEF vars, fs, hist
  <2>2. InFlight' => InFlight
    BY <2>1 DEF InFlight
  <2> QED  BY <1>2, <2>1, <2>2
<1> QED
  BY <1>3, <1>4, <1>5, <1>6, <1>7 DEF Environment, PowerLoss, Fault

\* The invariant of the refinement.
LEMMA AtomicInvariant ==
    ASSUME {"race", "commitSync", "power"} \cap Env = {}
    PROVE  AInv /\ [Next]_vars => AInv'
<1> SUFFICES ASSUME AInv, [Next]_vars PROVE AInv'
  OBVIOUS
<1>1. Base /\ "race" \notin Env /\ "power" \notin Env /\ Survivable
  BY Parts DEF AInv, Survivable
<1>2. IInv' /\ Outcome'
  BY <1>1, OutcomeStep DEF AInv
<1>3. SpacingInv'
  BY <1>1, SpacingStep DEF AInv, IInv
<1>4. Saved' /\ \A q \in Procs : Errand(q)'
  <2>1. CASE \E p \in Procs, c \in Commands : LockWorkspace(p, c)
    BY <1>1, <2>1, LockSaved DEF AInv
  <2>2. CASE \E p \in Procs : Step(p)
    BY <1>1, <2>2, StepSaved DEF AInv
  <2>3. CASE \E p \in Procs : Fail(p) \/ Kill(p)
    BY <1>1, <2>3, FailureSaved DEF AInv
  <2>4. CASE (\E p \in Procs : Signal(p)) \/ UNCHANGED vars
    BY <1>1, <2>4, SignalSaved DEF AInv
  <2>5. CASE \E f \in Files, c \in Saves : Save(f, c)
    BY <1>1, <2>5, SaveSaved DEF AInv
  <2> QED  BY <1>1, <2>1, <2>2, <2>3, <2>4, <2>5 DEF Next, Environment, PowerLoss, Fault
<1> QED  BY <1>2, <1>3, <1>4 DEF AInv

LEMMA AtomicStart == Init => AInv /\ Atomic!Init
<1> SUFFICES ASSUME Init PROVE AInv /\ Atomic!Init
  OBVIOUS
<1>1. IInv /\ Outcome /\ Base
  BY InvInit, OutcomeInit, Parts
<1>2. \A p \in Procs : run[p] = Idle /\ Idle.pc = "idle" /\ Idle.outcome = "none"
  BY DEF Init, Idle
<1>3. SpacingInv /\ Saved /\ \A p \in Procs : Errand(p)
  BY <1>2 DEF Init, SpacingInv, Kept, Window, AtFile, Saved, Aside, Known, Errand,
              Opening, Preparing, Replacing, Restoring, Removing
<1>4. Resolved = src
  <2>1. ~Pending
    BY NoTxnAssumption DEF Init, Pending
  <2>2. Resolved = [f \in Files |-> src[f]]
    BY <1>1, <2>1, ResolvedIs DEF Shown, Undone, Outcome, Base
  <2> QED  BY <1>1, <2>2 DEF Base, SrcOK
<1>5. InFlight = FALSE
  BY <1>2 DEF InFlight, Opening, Preparing, Replacing
<1> QED  BY <1>1, <1>3, <1>4, <1>5 DEF AInv, Init, Atomic!Init

\* Unless the editor saves between check and rename, the completion fails to
\* sync or the machine loses power, a fix takes effect in one step or in none:
\* commit, rollback and recover, failures and kills included, implement the
\* atomic workspace.
THEOREM FixIsAtomic ==
    ASSUME {"race", "commitSync", "power"} \cap Env = {}
    PROVE  Spec => ImplementsAtomic
<1>1. Init => AInv /\ Atomic!Init
  BY AtomicStart
<1>2. AInv /\ [Next]_vars => AInv'
  BY AtomicInvariant
<1>3. AInv /\ AInv' /\ [Next]_vars => [Atomic!Next]_(Atomic!vars)
  <2>1. "power" \notin Env
    OBVIOUS
  <2> QED  BY <2>1, StepMaps, EnvironmentMaps DEF Next
<1> QED  BY <1>1, <1>2, <1>3, PTL DEF Spec, ImplementsAtomic, Atomic!Spec
=============================================================================
