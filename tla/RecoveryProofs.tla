--------------------------- MODULE RecoveryProofs ---------------------------
(***************************************************************************)
(* What a transaction leaves behind, for every set of processes, files,    *)
(* contents and journals: all of a fix or nothing, and no backup deleted   *)
(* before its time.                                                        *)
(***************************************************************************)
EXTENDS TransactionProofs

\* Nothing but a power loss comes between a write and its fsync.
Uncut == {"io", "kill"} \cap Env = {}

\* The faults under which a transaction is atomic: those of the violations
\* TransactionLateFailure.cfg and TransactionUnsynced.cfg are excluded, and a
\* power loss in the first run of a workspace, whose root is never fsynced.
Survivable == "commitSync" \notin Env /\ ("power" \in Env => Uncut /\ Rooted)

\* What the next invocation may find: after a power loss anything that may be
\* on disk, otherwise what is read now.
OnDisk(f) == IF Uncut THEN srcD[f] ELSE {src[f]}
Images(t) == IF Uncut THEN jrD[t] ELSE {jr[t]}

Original(t) == \A f \in Files \ dirty : OnDisk(f) = {before[t][f]}
Replaced(t) == \A f \in Files \ dirty : OnDisk(f) = {After(t, f)}
Mixed(t) == \A f \in Files \ dirty : OnDisk(f) \subseteq {before[t][f], After(t, f)}

\* What a journal says of the sources is true.
Recoverable(i) ==
    /\ i.dir /\ i.phase = "prepared" => Mixed(last)
    /\ i.dir /\ i.phase = "complete" => Replaced(last)
    /\ ~i.dir \/ i.phase = "none" => Original(last) \/ Replaced(last)
Durable ==
    last # NoTxn =>
        /\ \A i \in Images(last) : Recoverable(i)
        /\ Uncut /\ Rooted => anchored \/ Original(last) \/ Replaced(last)

\* There is one journal, that of the last transaction.
OneJournal ==
    /\ \A u \in Txns : jr[u].dir \/ jr[u] = Nothing
    /\ \A u \in Txns \ {last} : Images(u) = {Nothing}

\* A source waits for its fsync only while its process does.
Settled == \A f \in Files :
    \/ OnDisk(f) = {src[f]}
    \/ \E p \in Procs : AtFile(p, "sync", f) \/ AtFile(p, "restoreSync", f)

\* Between transactions nothing waits for an fsync at all.
Working(p) == run[p].pc \notin {"idle", "list", "open"}
Calm == \A p \in Procs : ~Working(p)
Synced ==
    /\ \A u \in Txns : Images(u) = {jr[u]}
    /\ Uncut /\ Rooted /\ Visible # {} => anchored

-----------------------------------------------------------------------------
(* How far a transaction has come.                                         *)

Untouched(p) == run[p].pc \in {"assert"} \cup Preparing => Original(run[p].txn)
NotComplete(p) ==
    run[p].pc \in Preparing =>
        /\ jr[run[p].txn].dir
        /\ \A i \in Images(run[p].txn) : i.phase # "complete"

\* The loop of commit: replaced is what it no longer has to do.
Halfway(p) ==
    LET t == run[p].txn IN
    run[p].pc \in {"check", "rename", "sync"} =>
        \A f \in Files \ dirty :
            IF AtFile(p, "sync", f)
            THEN src[f] = After(t, f) /\ OnDisk(f) \subseteq {before[t][f], After(t, f)}
            ELSE OnDisk(f) = {IF f \in run[p].todo THEN before[t][f] ELSE After(t, f)}
Done(p) ==
    /\ run[p].pc \in {"final", "verify", "complete", "completeSync"} => Replaced(run[p].txn)
    /\ run[p].pc = "completeSync" => jr[run[p].txn].phase = "complete"

\* The loop of rollback: restored is what it no longer has to do.
Rolling(p) ==
    LET t == run[p].txn IN
    run[p].pc \in Restoring =>
        /\ run[p].outcome # "fixed"
        /\ Images(t) = {jr[t]} /\ jr[t].dir /\ jr[t].phase = "prepared"
        /\ Uncut /\ Rooted => anchored
        /\ Mixed(t)
        /\ \A f \in (Files \ dirty) \ run[p].todo : OnDisk(f) = {before[t][f]}
        /\ \A f \in Files \ dirty : AtFile(p, "restoreSync", f) => src[f] = before[t][f]

Resolving(p) ==
    LET t == run[p].txn IN
    run[p].pc \in Removing =>
        /\ IF run[p].outcome = "fixed"
           THEN Replaced(t) /\ \A i \in Images(t) : i.phase # "prepared"
           ELSE Original(t) /\ \A i \in Images(t) : i.phase # "complete"
        /\ IF run[p].pc = "remove" THEN jr[t].dir ELSE jr[t] = Nothing

Progress(p) ==
    /\ Working(p) => run[p].txn = last
    /\ Untouched(p) /\ NotComplete(p) /\ Halfway(p) /\ Done(p) /\ Rolling(p) /\ Resolving(p)

Outcome ==
    /\ Durable /\ OneJournal /\ Settled
    /\ \A p \in Procs : Progress(p)
    /\ Calm => Synced

-----------------------------------------------------------------------------
(* What the helpers of the file system do to OnDisk and Images.            *)

Base == SrcOK /\ JrOK /\ RunOK /\ RestOK /\ OneAtATime /\ JournalInv

\* What is read may be on disk.
LEMMA Reading ==
    /\ SrcOK => \A f \in Files : src[f] \in OnDisk(f)
    /\ JrOK => \A t \in Txns : jr[t] \in Images(t)
BY DEF SrcOK, JrOK, OnDisk, Images

\* A step that leaves the variables alone leaves what is defined by them alone.
LEMMA SameSources == UNCHANGED <<src, srcD>> => \A f : OnDisk(f)' = OnDisk(f)
BY DEF OnDisk
LEMMA SameImages == UNCHANGED <<jr, jrD>> => \A t : Images(t)' = Images(t)
BY DEF Images
LEMMA SameJournal ==
    UNCHANGED before => \A t : Changed(t)' = Changed(t) /\ \A f : After(t, f)' = After(t, f)
BY DEF Changed, After
LEMMA SameData ==
    ASSUME UNCHANGED <<src, srcD, before, dirty>>
    PROVE  \A t : /\ Original(t)' <=> Original(t)
                  /\ Replaced(t)' <=> Replaced(t)
                  /\ Mixed(t)' <=> Mixed(t)
BY SameSources, SameJournal DEF Original, Replaced, Mixed

\* Both contents are among what a transaction may leave.
LEMMA OriginalIsMixed == \A t : Original(t) \/ Replaced(t) => Mixed(t)
BY DEF Original, Replaced, Mixed

\* A changed entry appears in the image that is read, and in any image that may survive.
LEMMA PhaseImages ==
    ASSUME JrOK, NEW t \in Txns, NEW phase \in Phases, PutPhase(t, phase)
    PROVE  /\ \A u \in Txns \ {t} : jr'[u] = jr[u] /\ Images(u)' = Images(u)
           /\ jr'[t] = [jr[t] EXCEPT !.phase = phase]
           /\ \A i \in Images(t)' :
                 \E k \in Images(t) : i.dir = k.dir /\ i.phase \in {k.phase, phase}
<1>1. jr \in [Txns -> Image] /\ jrD \in [Txns -> SUBSET Image]
  BY DEF JrOK
<1>2. jr' = [jr EXCEPT ![t].phase = phase]
      /\ jrD' = [jrD EXCEPT ![t] = @ \cup {[i EXCEPT !.phase = phase] : i \in jrD[t]}]
  BY DEF PutPhase
<1>3. \A u \in Txns \ {t} : jr'[u] = jr[u] /\ Images(u)' = Images(u)
  BY <1>1, <1>2 DEF Images
<1>4. jr'[t] = [jr[t] EXCEPT !.phase = phase]
  BY <1>1, <1>2
<1>5. ASSUME NEW k \in Image
      PROVE  [k EXCEPT !.phase = phase].dir = k.dir /\ [k EXCEPT !.phase = phase].phase = phase
  BY DEF Image
<1>6. ASSUME NEW i \in Images(t)'
      PROVE  \E k \in Images(t) : i.dir = k.dir /\ i.phase \in {k.phase, phase}
  <2>1. i \in Images(t) \/ \E k \in Images(t) : i = [k EXCEPT !.phase = phase]
    BY <1>1, <1>2, <1>4 DEF Images
  <2>2. Images(t) \subseteq Image
    BY <1>1 DEF Images
  <2> QED  BY <1>5, <2>1, <2>2
<1> QED  BY <1>3, <1>4, <1>6

LEMMA BackupImages ==
    ASSUME JrOK, NEW t \in Txns, NEW f, PutBackup(t, f) \/ DropBackup(t, f)
    PROVE  /\ \A u \in Txns \ {t} : jr'[u] = jr[u] /\ Images(u)' = Images(u)
           /\ jr'[t].dir = jr[t].dir /\ jr'[t].phase = jr[t].phase
           /\ \A i \in Images(t)' : \E k \in Images(t) : i.dir = k.dir /\ i.phase = k.phase
<1>1. jr \in [Txns -> Image] /\ jrD \in [Txns -> SUBSET Image]
  BY DEF JrOK
<1>2. PICK op \in [Image -> [dir : BOOLEAN, phase : Phases, backups : SUBSET (Files \cup {f})]] :
         /\ \A k \in Image : op[k].dir = k.dir /\ op[k].phase = k.phase
         /\ jr' = [jr EXCEPT ![t] = op[jr[t]]]
         /\ jrD' = [jrD EXCEPT ![t] = @ \cup {op[i] : i \in jrD[t]}]
  <2>1. CASE PutBackup(t, f)
    <3> DEFINE op == [k \in Image |-> [k EXCEPT !.backups = @ \cup {f}]]
    <3>1. \A k \in Image : /\ op[k].dir = k.dir /\ op[k].phase = k.phase
                           /\ op[k] \in [dir : BOOLEAN, phase : Phases, backups : SUBSET (Files \cup {f})]
      BY DEF Image
    <3>2. jr[t] \in Image /\ \A i \in jrD[t] : i \in Image
      BY <1>1
    <3>3. jr' = [jr EXCEPT ![t] = op[jr[t]]]
      BY <1>1, <2>1, <3>2 DEF PutBackup
    <3>4. {op[i] : i \in jrD[t]} = {[i EXCEPT !.backups = @ \cup {f}] : i \in jrD[t]}
      BY <3>2
    <3>5. jrD' = [jrD EXCEPT ![t] = @ \cup {op[i] : i \in jrD[t]}]
      BY <2>1, <3>4 DEF PutBackup
    <3> QED  BY <3>1, <3>3, <3>5
  <2>2. CASE DropBackup(t, f)
    <3> DEFINE op == [k \in Image |-> [k EXCEPT !.backups = @ \ {f}]]
    <3>1. \A k \in Image : /\ op[k].dir = k.dir /\ op[k].phase = k.phase
                           /\ op[k] \in [dir : BOOLEAN, phase : Phases, backups : SUBSET (Files \cup {f})]
      BY DEF Image
    <3>2. jr[t] \in Image /\ \A i \in jrD[t] : i \in Image
      BY <1>1
    <3>3. jr' = [jr EXCEPT ![t] = op[jr[t]]]
      BY <1>1, <2>2, <3>2 DEF DropBackup
    <3>4. {op[i] : i \in jrD[t]} = {[i EXCEPT !.backups = @ \ {f}] : i \in jrD[t]}
      BY <3>2
    <3>5. jrD' = [jrD EXCEPT ![t] = @ \cup {op[i] : i \in jrD[t]}]
      BY <2>2, <3>4 DEF DropBackup
    <3> QED  BY <3>1, <3>3, <3>5
  <2> QED  BY <2>1, <2>2
<1>3. \A u \in Txns \ {t} : jr'[u] = jr[u] /\ Images(u)' = Images(u)
  BY <1>1, <1>2 DEF Images
<1>4. jr'[t] = op[jr[t]] /\ jr[t] \in Image
  BY <1>1, <1>2
<1>5. \A i \in Images(t)' : \E k \in Images(t) \cap Image : i = k \/ i = op[k]
  BY <1>1, <1>2, <1>4 DEF Images
<1> QED  BY <1>2, <1>3, <1>4, <1>5

LEMMA DirImages ==
    ASSUME JrOK, NEW t \in Txns, NEW there \in BOOLEAN, PutDir(t, there)
    PROVE  /\ \A u \in Txns \ {t} : jr'[u] = jr[u] /\ Images(u)' = Images(u)
           /\ jr'[t] = [jr[t] EXCEPT !.dir = there]
           /\ \A i \in Images(t)' : \E k \in Images(t) : i.phase = k.phase
<1>1. jr \in [Txns -> Image] /\ jrD \in [Txns -> SUBSET Image]
  BY DEF JrOK
<1>2. jr' = [jr EXCEPT ![t].dir = there]
      /\ jrD' = [jrD EXCEPT ![t] = @ \cup {[i EXCEPT !.dir = there] : i \in jrD[t]}]
  BY DEF PutDir
<1>3. \A u \in Txns \ {t} : jr'[u] = jr[u] /\ Images(u)' = Images(u)
  BY <1>1, <1>2 DEF Images
<1>4. jr'[t] = [jr[t] EXCEPT !.dir = there]
  BY <1>1, <1>2
<1>5. \A k \in Image : [k EXCEPT !.dir = there].phase = k.phase
  BY DEF Image
<1>6. ASSUME NEW i \in Images(t)'
      PROVE  \E k \in Images(t) : i.phase = k.phase
  <2>1. i \in Images(t) \/ \E k \in Images(t) : i = [k EXCEPT !.dir = there]
    BY <1>1, <1>2, <1>4 DEF Images
  <2>2. Images(t) \subseteq Image
    BY <1>1 DEF Images
  <2> QED  BY <1>5, <2>1, <2>2
<1> QED  BY <1>3, <1>4, <1>6

\* An fsync takes images away and adds none.
LEMMA SyncedImages ==
    ASSUME JrOK, NEW t \in Txns, SyncDir(t)
    PROVE  /\ jr' = jr
           /\ \A u \in Txns \ {t} : Images(u)' = Images(u)
           /\ \A i \in Images(t)' : i \in Images(t) /\ i.phase = jr[t].phase
BY DEF SyncDir, Images, JrOK
LEMMA ListedImages ==
    ASSUME JrOK, SyncList
    PROVE  /\ jr' = jr
           /\ \A u \in Txns : /\ jr[u].dir => \A i \in Images(u)' : i \in Images(u)
                              /\ ~jr[u].dir => Images(u)' = {jr[u]}
BY DEF SyncList, Images, JrOK

\* The same for a source.
LEMMA PutOnDisk ==
    ASSUME SrcOK, NEW f \in Files, NEW c, PutSource(f, c)
    PROVE  /\ src'[f] = c /\ OnDisk(f)' \subseteq OnDisk(f) \cup {c}
           /\ \A g \in Files \ {f} : src'[g] = src[g] /\ OnDisk(g)' = OnDisk(g)
BY DEF SrcOK, PutSource, OnDisk
LEMMA SyncOnDisk ==
    ASSUME SrcOK, NEW f \in Files, SyncSource(f)
    PROVE  /\ src' = src /\ OnDisk(f)' = {src[f]}
           /\ \A g \in Files \ {f} : OnDisk(g)' = OnDisk(g)
BY DEF SrcOK, SyncSource, OnDisk

-----------------------------------------------------------------------------
(* The process at work, and the end of its step.                           *)

\* A working process has told what is on disk: a power loss now is recoverable.
LEMMA AtDurable == Base /\ (\E p \in Procs : Working(p) /\ Progress(p)) => Durable
<1> SUFFICES ASSUME Base, NEW p \in Procs, Working(p), Progress(p)
             PROVE  Durable
  OBVIOUS
<1> USE DEF Progress
<1> DEFINE t == run[p].txn
<1>1. t = last /\ t \in Txns /\ jr[t] \in Images(t) /\ Images(t) \subseteq jrD[t]
  BY Reading DEF Working, Base, RunOK, TxnOK, JrOK, Images
<1>2. JournalAt(p)
  BY DEF Base, JournalInv
<1>3. CASE run[p].pc = "assert"
  <2>1. Original(t) /\ \A i \in Images(t) : ~i.dir
    BY <1>1, <1>2, <1>3 DEF Untouched, JournalAt, Nothing
  <2> QED  BY <1>1, <2>1 DEF Durable, Recoverable
<1>4. CASE run[p].pc \in Preparing
  <2>1. Original(t) /\ \A i \in Images(t) : i.phase # "complete"
    BY <1>4 DEF Untouched, NotComplete
  <2> QED  BY <1>1, <2>1, OriginalIsMixed DEF Durable, Recoverable
<1>5. CASE run[p].pc \in Replacing \ {"completeSync"}
  <2>1. (Rooted => anchored) /\ \A i \in Images(t) : i.dir /\ i.phase = "prepared"
    BY <1>1, <1>2, <1>5 DEF JournalAt, Prepared
  <2>2. Mixed(t)
    <3>1. CASE run[p].pc \in {"check", "rename", "sync"}
      BY <3>1 DEF Halfway, Mixed
    <3>2. CASE run[p].pc \in {"final", "verify", "complete"}
      BY <3>2, OriginalIsMixed DEF Done
    <3> QED  BY <1>5, <3>1, <3>2 DEF Replacing
  <2> QED  BY <1>1, <2>1, <2>2 DEF Durable, Recoverable
<1>6. CASE run[p].pc = "completeSync"
  <2>1. Replaced(t) /\ (Rooted => anchored) /\ \A i \in Images(t) : i.dir /\ i.phase # "none"
    BY <1>1, <1>2, <1>6 DEF Done, JournalAt
  <2> QED  BY <1>1, <2>1, OriginalIsMixed DEF Durable, Recoverable
<1>7. CASE run[p].pc \in Restoring
  BY <1>1, <1>7 DEF Rolling, Durable, Recoverable
<1>8. CASE run[p].pc \in Removing
  <2>1. \/ Replaced(t) /\ \A i \in Images(t) : i.phase # "prepared"
        \/ Original(t) /\ \A i \in Images(t) : i.phase # "complete"
    BY <1>8 DEF Resolving
  <2> QED  BY <1>1, <2>1, OriginalIsMixed DEF Durable, Recoverable
<1> QED
  BY <1>3, <1>4, <1>5, <1>6, <1>7, <1>8
     DEF Base, RunOK, Running, Working, Labels, Opening
LEMMA AtDurableNext ==
    (Base /\ (\E p \in Procs : Working(p) /\ Progress(p)))' => Durable'
BY AtDurable, PTL

\* The step of a process: the others are idle, and stay so.
LEMMA Join ==
    ASSUME Base, Base', NEW p \in Procs, run[p].pc # "idle", Alone(p),
           Progress(p)', OneJournal', Settled',
           Working(p)' \/ (Durable' /\ Synced')
    PROVE  Outcome'
<1>1. \A q \in Procs \ {p} : run'[q].pc = "idle"
  BY DEF Base, OneAtATime, Alone
<1>2. ASSUME NEW q \in Procs, q # p
      PROVE  Progress(q)'
  BY <1>1, <1>2 DEF Progress, Working, Untouched, NotComplete, Halfway, Done, Rolling,
                    Resolving, Preparing, Restoring, Removing
<1>3. Durable'
  BY AtDurableNext
<1>4. Calm' => Synced'
  BY DEF Calm
<1> QED  BY <1>2, <1>3, <1>4 DEF Outcome

\* Unless it has just renamed a file, everything read is on disk.
LEMMA AllSettled ==
    ASSUME OneAtATime, Settled, NEW p \in Procs, run[p].pc # "idle",
           run[p].pc \notin {"sync", "restoreSync"}
    PROVE  \A f \in Files : OnDisk(f) = {src[f]}
BY DEF OneAtATime, Settled, AtFile

\* What a process that goes on keeps of its locals.
LEMMA Moves ==
    ASSUME RunOK, NEW p \in Procs, NEW label, Goto(p, label)
    PROVE  /\ run'[p].pc = label /\ run'[p].todo = run[p].todo
           /\ run'[p].txn = run[p].txn /\ run'[p].cmd = run[p].cmd
           /\ run'[p].outcome = run[p].outcome /\ run'[p].conflicts = run[p].conflicts
BY DEF Goto, RunOK, Running
LEMMA Loops ==
    ASSUME RunOK, NEW p \in Procs, NEW label, NEW S, Loop(p, label, S)
    PROVE  /\ run'[p].pc = label /\ run'[p].todo = S
           /\ run'[p].txn = run[p].txn /\ run'[p].cmd = run[p].cmd
           /\ run'[p].outcome = run[p].outcome /\ run'[p].conflicts = run[p].conflicts
BY DEF Loop, RunOK, Running

\* What has to be shown of a process, phase by phase.
LEMMA Entering ==
    ASSUME NEW p \in Procs, NEW t, run'[p].txn = t, last' = t
    PROVE  /\ run'[p].pc = "assert" /\ Original(t)' => Progress(p)'
           /\ /\ run'[p].pc \in Preparing /\ Original(t)' /\ jr'[t].dir
              /\ \A i \in Images(t)' : i.phase # "complete"
              => Progress(p)'
           /\ /\ run'[p].pc \in {"check", "rename"}
              /\ \A f \in Files \ dirty' :
                    OnDisk(f)' = {IF f \in run'[p].todo THEN before'[t][f] ELSE After(t, f)'}
              => Progress(p)'
           /\ run'[p].pc \in {"final", "verify", "complete"} /\ Replaced(t)' => Progress(p)'
           /\ run'[p].pc = "completeSync" /\ Replaced(t)' /\ jr'[t].phase = "complete"
              => Progress(p)'
           /\ run'[p].pc = "remove" /\ jr'[t].dir /\ run'[p].outcome = "fixed"
              /\ Replaced(t)' /\ (\A i \in Images(t)' : i.phase # "prepared")
              => Progress(p)'
           /\ run'[p].pc = "remove" /\ jr'[t].dir /\ run'[p].outcome # "fixed"
              /\ Original(t)' /\ (\A i \in Images(t)' : i.phase # "complete")
              => Progress(p)'
<1> USE DEF Progress, Working, Untouched, NotComplete, Halfway, Done, Rolling,
            Resolving, Preparing, Restoring, Removing, AtFile
<1>1. run'[p].pc = "assert" /\ Original(t)' => Progress(p)'
  OBVIOUS
<1>2. /\ run'[p].pc \in Preparing /\ Original(t)' /\ jr'[t].dir
      /\ \A i \in Images(t)' : i.phase # "complete"
      => Progress(p)'
  OBVIOUS
<1>3. /\ run'[p].pc \in {"check", "rename"}
      /\ \A f \in Files \ dirty' :
            OnDisk(f)' = {IF f \in run'[p].todo THEN before'[t][f] ELSE After(t, f)'}
      => Progress(p)'
  OBVIOUS
<1>4. run'[p].pc \in {"final", "verify", "complete"} /\ Replaced(t)' => Progress(p)'
  OBVIOUS
<1>5. run'[p].pc = "completeSync" /\ Replaced(t)' /\ jr'[t].phase = "complete" => Progress(p)'
  OBVIOUS
<1>6. run'[p].pc = "remove" /\ jr'[t].dir /\ run'[p].outcome = "fixed"
      /\ Replaced(t)' /\ (\A i \in Images(t)' : i.phase # "prepared")
      => Progress(p)'
  OBVIOUS
<1>7. run'[p].pc = "remove" /\ jr'[t].dir /\ run'[p].outcome # "fixed"
      /\ Original(t)' /\ (\A i \in Images(t)' : i.phase # "complete")
      => Progress(p)'
  OBVIOUS
<1> QED  BY <1>1, <1>2, <1>3, <1>4, <1>5, <1>6, <1>7
LEMMA Leaving ==
    ASSUME NEW p \in Procs, run'[p].pc \in {"idle", "list", "open"}
    PROVE  Progress(p)'
BY DEF Progress, Working, Untouched, NotComplete, Halfway, Done, Rolling,
       Resolving, Preparing, Restoring, Removing

-----------------------------------------------------------------------------
(* Steps that write nothing.                                               *)

\* The files, the snapshots and the history are as they were.
Quiet == UNCHANGED <<fs, before, hist>>

\* What was durable, settled and synced stays so.
LEMMA QuietKeeps ==
    ASSUME Quiet
    PROVE  /\ Durable => Durable'
           /\ OneJournal => OneJournal'
           /\ Synced => Synced'
           /\ (\A f \in Files : OnDisk(f) = {src[f]}) => Settled'
<1>1. UNCHANGED <<src, srcD, jr, jrD, anchored, before, dirty, last>>
  BY DEF Quiet, fs, hist
<1>2. /\ \A f : OnDisk(f)' = OnDisk(f)
      /\ \A t : Images(t)' = Images(t)
      /\ \A t : /\ Original(t)' <=> Original(t)
                /\ Replaced(t)' <=> Replaced(t)
                /\ Mixed(t)' <=> Mixed(t)
  BY <1>1, SameSources, SameImages, SameData
<1>3. Durable => Durable'
  BY <1>1, <1>2 DEF Durable, Recoverable
<1>4. OneJournal => OneJournal'
  BY <1>1, <1>2 DEF OneJournal
<1>5. Synced => Synced'
  BY <1>1, <1>2 DEF Synced, Visible
<1>6. (\A f \in Files : OnDisk(f) = {src[f]}) => Settled'
  BY <1>1, <1>2 DEF Settled
<1> QED  BY <1>3, <1>4, <1>5, <1>6

\* A process that writes nothing goes on, or ends where everything is synced.
LEMMA QuietStep ==
    ASSUME Base, Base', Outcome, Quiet, NEW p \in Procs, run[p].pc # "idle", Alone(p),
           Progress(p)', Working(p)' \/ Synced,
           ~Uncut \/ run[p].pc \notin {"sync", "restoreSync"}
    PROVE  Outcome'
<1>1. \A f \in Files : OnDisk(f) = {src[f]}
  BY AllSettled DEF OnDisk, Outcome, Base
<1>2. OneJournal' /\ Settled' /\ Durable' /\ (Synced => Synced')
  BY <1>1, QuietKeeps DEF Outcome
<1> QED  BY <1>2, Join

\* Where a process can end: nothing waits for an fsync of transactions.
LEMMA EndSynced ==
    ASSUME Base, Outcome, NEW p \in Procs, run[p].pc # "idle",
           ~Uncut \/ run[p].pc \in {"open", "list", "assert"} \cup Restoring
    PROVE  Synced
<1>1. CASE ~Uncut
  BY <1>1 DEF Synced, Images
<1>2. CASE run[p].pc \in {"open", "list"}
  BY <1>2 DEF Outcome, Calm, Working, Base, OneAtATime
<1>3. ASSUME run[p].pc \in {"assert"} \cup Restoring
      PROVE  Synced
  <2> DEFINE t == run[p].txn
  <2>1. t \in Txns /\ t = last /\ Progress(p) /\ JournalAt(p)
    BY <1>3 DEF Outcome, Progress, Working, Base, RunOK, TxnOK, JournalInv, Restoring
  <2>2. \A u \in Txns \ {t} : Images(u) = {Nothing} /\ jr[u] \in Images(u)
    BY <2>1, Reading DEF Outcome, OneJournal, Base
  <2>3. Images(t) = {jr[t]} /\ (Uncut /\ Rooted => anchored \/ jr[t] = Nothing)
    BY <1>3, <2>1, Reading DEF Progress, Rolling, JournalAt, Images, JrOK, Base, Restoring
  <2>4. ~Nothing.dir
    BY DEF Nothing
  <2> QED  BY <2>2, <2>3, <2>4 DEF Synced, Visible
<1> QED  BY <1>1, <1>2, <1>3

\* A rollback starts from sources that are each original or replaced.
LEMMA ToRestore ==
    ASSUME SrcOK', NEW p \in Procs, NEW t \in Txns, run'[p].txn = t, last' = t,
           run'[p].pc = "restore", run'[p].todo = Changed(t)',
           run'[p].outcome # "fixed",
           Images(t)' = {jr'[t]}, jr'[t].dir, jr'[t].phase = "prepared",
           Uncut /\ Rooted => anchored', Mixed(t)'
    PROVE  Progress(p)'
<1>1. ASSUME NEW f \in Files \ dirty', f \notin Changed(t)'
      PROVE  OnDisk(f)' = {before'[t][f]}
  <2>1. OnDisk(f)' \subseteq {before'[t][f], After(t, f)'} /\ src'[f] \in OnDisk(f)'
    BY DEF Mixed, SrcOK, OnDisk
  <2>2. After(t, f)' = before'[t][f]
    BY <1>1 DEF Changed
  <2> QED  BY <2>1, <2>2
<1> QED
  BY <1>1 DEF Progress, Working, Untouched, NotComplete, Halfway, Done, Rolling,
              Resolving, Preparing, Restoring, Removing, AtFile

\* The three ways of OnError.
LEMMA ErrorMoves ==
    ASSUME RunOK, NEW p \in Procs, OnError(p)
    PROVE  /\ run[p].pc \in Preparing =>
                /\ run'[p].pc = "remove" /\ run'[p].outcome = "failed"
                /\ run'[p].txn = run[p].txn
           /\ run[p].pc \in Replacing =>
                /\ run'[p].pc = "restore" /\ run'[p].outcome = "failed"
                /\ run'[p].txn = run[p].txn /\ run'[p].todo = Changed(run[p].txn)
           /\ run[p].pc \notin Preparing \cup Replacing => run'[p].pc = "idle"
<1>1. run \in [Procs -> Running] /\ Idle.pc = "idle"
  BY DEF RunOK, Idle
<1>2. CASE run[p].pc \in Preparing
  BY <1>1, <1>2 DEF OnError, Running, Preparing, Replacing
<1>3. CASE run[p].pc \in Replacing
  BY <1>1, <1>3 DEF OnError, Running, Preparing, Replacing
<1>4. CASE run[p].pc \notin Preparing \cup Replacing
  BY <1>1, <1>4 DEF OnError, Return, Preparing, Replacing
<1> QED  BY <1>2, <1>3, <1>4

\* While sources are replaced, what may be on disk is the prepared journal.
LEMMA PreparedImages ==
    ASSUME Base, NEW p \in Procs, run[p].pc \in Replacing \ {"completeSync"},
           NEW t \in Txns, run[p].txn = t
    PROVE  (Rooted => anchored) /\ Images(t) = {jr[t]} /\ jr[t].dir /\ jr[t].phase = "prepared"
<1>1. (Rooted => anchored) /\ \A i \in jrD[t] : i.dir /\ Prepared(i, t)
  BY DEF Base, JournalInv, JournalAt
<1>2. jr[t] \in jrD[t] /\ jrD[t] \subseteq Image /\ Images(t) \subseteq jrD[t]
      /\ jr[t] \in Images(t)
  BY Reading DEF Base, JrOK, Images
<1>3. \A i, k \in jrD[t] : i = k
  BY <1>1, <1>2 DEF Prepared, Image
<1> QED  BY <1>1, <1>2, <1>3 DEF Prepared

\* An error where the code handles it: preparation is undone, a replacement
\* rolled back, and only an end with everything synced is a return.
LEMMA OnErrorOutcome ==
    ASSUME Base, Base', Outcome, Quiet, NEW p \in Procs, run[p].pc # "idle", OnError(p),
           run[p].pc # "completeSync",
           ~Uncut \/ run[p].pc \notin {"sync", "restoreSync"} \cup Removing
    PROVE  Outcome'
<1> DEFINE t == run[p].txn
<1>1. Alone(p) /\ Progress(p)
  BY OnErrorAlone DEF Base, Outcome
<1>2. UNCHANGED <<src, srcD, jr, jrD, anchored, before, dirty, last>>
  BY DEF Quiet, fs, hist
<1>3. CASE run[p].pc \in Preparing
  <2>1. PICK u \in Txns : u = t /\ u = last
    BY <1>1, <1>3 DEF Progress, Working, Base, RunOK, TxnOK, Preparing
  <2>2. Original(u) /\ jr[u].dir /\ \A i \in Images(u) : i.phase # "complete"
    BY <1>1, <1>3, <2>1 DEF Progress, Untouched, NotComplete
  <2>3. Original(u)' /\ jr'[u].dir /\ \A i \in Images(u)' : i.phase # "complete"
    BY <1>2, <2>2, SameData, SameImages
  <2>4. run'[p].pc = "remove" /\ run'[p].outcome # "fixed" /\ run'[p].txn = u /\ last' = u
    BY <1>2, <1>3, <2>1, ErrorMoves DEF Base
  <2>5. Progress(p)' /\ Working(p)'
    BY <2>3, <2>4, Entering DEF Working
  <2>6. run[p].pc \notin {"sync", "restoreSync"}
    BY <1>3 DEF Preparing
  <2> QED  BY <1>1, <2>5, <2>6, QuietStep
<1>4. CASE run[p].pc \in Replacing
  <2>1. PICK u \in Txns : u = t /\ u = last
    BY <1>1, <1>4 DEF Progress, Working, Base, RunOK, TxnOK, Replacing
  <2>2. (Rooted => anchored) /\ Images(u) = {jr[u]} /\ jr[u].dir /\ jr[u].phase = "prepared"
    BY <1>4, <2>1, PreparedImages
  <2>3. Mixed(u)
    <3>1. CASE run[p].pc \in {"check", "rename", "sync"}
      BY <1>1, <2>1, <3>1 DEF Progress, Halfway, Mixed
    <3>2. CASE run[p].pc \in {"final", "verify", "complete"}
      BY <1>1, <2>1, <3>2, OriginalIsMixed DEF Progress, Done
    <3> QED  BY <1>4, <3>1, <3>2 DEF Replacing
  <2>4. /\ run'[p].pc = "restore" /\ run'[p].outcome # "fixed" /\ run'[p].txn = u
        /\ run'[p].todo = Changed(u)' /\ last' = u
    BY <1>2, <1>4, <2>1, ErrorMoves, SameJournal DEF Base
  <2>5. /\ (Rooted => anchored') /\ Images(u)' = {jr'[u]} /\ jr'[u].dir
        /\ jr'[u].phase = "prepared" /\ Mixed(u)'
    BY <1>2, <2>2, <2>3, SameData, SameImages
  <2>6. Progress(p)' /\ Working(p)'
    BY <2>4, <2>5, ToRestore DEF Working, Base
  <2>7. ~Uncut \/ run[p].pc \notin {"sync", "restoreSync"}
    OBVIOUS
  <2> QED  BY <1>1, <2>6, <2>7, QuietStep
<1>5. CASE run[p].pc \notin Preparing \cup Replacing
  <2>1. run'[p].pc = "idle"
    BY <1>5, ErrorMoves DEF Base
  <2>2. Progress(p)'
    BY <2>1, Leaving
  <2>3. ~Uncut \/ run[p].pc \in {"open", "list", "assert"} \cup Restoring
    BY <1>5 DEF Base, RunOK, Running, Labels, Opening
  <2>4. Synced
    BY <2>3, EndSynced
  <2> QED  BY <1>1, <2>2, <2>4, QuietStep
<1> QED  BY <1>3, <1>4, <1>5

\* A process with a transaction has the last one.
LEMMA OwnIsLast ==
    ASSUME Base, Outcome, NEW p \in Procs, Working(p)
    PROVE  run[p].txn \in Txns /\ run[p].txn = last
BY DEF Base, Outcome, Progress, Working, RunOK, TxnOK

\* The checks of commit.
LEMMA CheckOutcome ==
    ASSUME Base, Base', Outcome, NEW p \in Procs, NEW f,
           \/ AssertSnapshot(p, f) \/ CheckSource(p, f) \/ CheckEnd(p)
           \/ FinalCheck(p) \/ VerifySnapshot(p, f) \/ VerifyEnd(p)
    PROVE  Outcome'
<1> USE DEF AtFile, AtEnd
<1>1. Quiet /\ UNCHANGED <<src, srcD, jr, jrD, anchored, before, dirty, last>>
  BY DEF AssertSnapshot, CheckSource, CheckEnd, FinalCheck, VerifySnapshot, VerifyEnd,
         Quiet, fs, hist
<1>2. run[p].pc \in {"assert", "check", "final", "verify"} /\ RunOK
  BY DEF AssertSnapshot, CheckSource, CheckEnd, FinalCheck, VerifySnapshot, VerifyEnd, Base
<1>3. ASSUME OnError(p)
      PROVE  Outcome'
  BY <1>1, <1>2, <1>3, OnErrorOutcome DEF Removing
<1>4. PICK t \in Txns : t = run[p].txn /\ t = last
  BY <1>2, OwnIsLast DEF Working
<1>5. Progress(p)
  BY DEF Outcome
<1>6. ASSUME NEW label, NEW S, UNCHANGED lock,
             \/ Goto(p, label) /\ S = run[p].todo
             \/ Loop(p, label, S),
             \/ run[p].pc = "assert" /\ label = "assert"
             \/ run[p].pc = "check" /\ label = "rename" /\ S = run[p].todo
             \/ run[p].pc = "check" /\ label = "final" /\ run[p].todo = {}
             \/ run[p].pc \in {"final", "verify"} /\ label \in {"verify", "complete"}
      PROVE  Outcome'
  <2>1. /\ run'[p].pc = label /\ run'[p].todo = S /\ run'[p].txn = t /\ last' = t
        /\ label \notin {"idle", "list", "open"}
    BY <1>1, <1>2, <1>4, <1>6 DEF Goto, Loop, RunOK, Running
  <2>2. Alone(p)
    BY <1>2, <1>6, <2>1, GotoAlone
  <2>3. \A g : OnDisk(g)' = OnDisk(g) /\ After(t, g)' = After(t, g)
    BY <1>1, SameData, SameSources, SameJournal
  <2>4. ASSUME label = "assert" PROVE Progress(p)'
    BY <1>4, <1>5, <1>6, <2>1, <2>3, <2>4, Entering, SameData, <1>1 DEF Progress, Untouched
  <2>5. ASSUME label = "rename" PROVE Progress(p)'
    <3>1. \A g \in Files \ dirty :
             OnDisk(g) = {IF g \in run[p].todo THEN before[t][g] ELSE After(t, g)}
      BY <1>4, <1>5, <1>6, <2>5 DEF Progress, Halfway
    <3>2. \A g \in Files \ dirty' :
             OnDisk(g)' = {IF g \in run'[p].todo THEN before'[t][g] ELSE After(t, g)'}
      BY <1>1, <1>6, <2>1, <2>3, <2>5, <3>1
    <3> QED  BY <2>1, <2>5, <3>2, Entering
  <2>6. ASSUME label = "final" PROVE Progress(p)'
    <3>1. Replaced(t)
      BY <1>4, <1>5, <1>6, <2>6 DEF Progress, Halfway, Replaced
    <3> QED  BY <1>1, <2>1, <2>6, <3>1, SameData, Entering
  <2>7. ASSUME label \in {"verify", "complete"} PROVE Progress(p)'
    <3>1. Replaced(t)
      BY <1>4, <1>5, <1>6, <2>7 DEF Progress, Done
    <3> QED  BY <1>1, <2>1, <2>7, <3>1, SameData, Entering
  <2>8. Progress(p)'
    BY <1>6, <2>4, <2>5, <2>6, <2>7
  <2> QED  BY <1>1, <1>2, <2>1, <2>2, <2>8, QuietStep DEF Working
<1>7. CASE AssertSnapshot(p, f)
  BY <1>3, <1>6, <1>7 DEF AssertSnapshot
<1>8. CASE CheckSource(p, f)
  BY <1>3, <1>6, <1>8 DEF CheckSource
<1>9. CASE CheckEnd(p)
  BY <1>3, <1>6, <1>9 DEF CheckEnd
<1>10. CASE FinalCheck(p)
  BY <1>3, <1>6, <1>10 DEF FinalCheck
<1>11. CASE VerifySnapshot(p, f)
  BY <1>3, <1>6, <1>11 DEF VerifySnapshot
<1>12. CASE VerifyEnd(p)
  BY <1>3, <1>6, <1>12 DEF VerifyEnd
<1> QED  BY <1>7, <1>8, <1>9, <1>10, <1>11, <1>12

\* recover finds the one journal there can be; rollback leaves an original
\* alone, and takes for a conflict only what the editor has saved.
LEMMA RollbackOutcome ==
    ASSUME Base, Base', Outcome, NEW p \in Procs, NEW f,
           ListTransactions(p) \/ RestoreCheck(p, f) \/ RestoreEnd(p)
    PROVE  Outcome'
<1> USE DEF AtFile, AtEnd
<1>1. Quiet /\ UNCHANGED <<src, srcD, jr, jrD, anchored, before, dirty, last>>
  BY DEF ListTransactions, RestoreCheck, RestoreEnd, Quiet, fs, hist
<1>2. run[p].pc \in {"list", "restore"} /\ RunOK /\ run \in [Procs -> Running]
  BY DEF ListTransactions, RestoreCheck, RestoreEnd, Base, RunOK
<1>3. ASSUME OnError(p)
      PROVE  Outcome'
  BY <1>1, <1>2, <1>3, OnErrorOutcome DEF Removing
<1>4. ASSUME Alone(p), Progress(p)', run'[p].pc \notin {"idle", "list", "open"}
      PROVE  Outcome'
  BY <1>1, <1>2, <1>4, QuietStep DEF Working
<1>5. ASSUME NEW t \in Txns, jr[t].dir, UNCHANGED lock, run[p].pc = "list",
             \/ /\ jr[t].phase = "complete"
                /\ run' = [run EXCEPT ![p].pc = "remove", ![p].txn = t,
                                      ![p].outcome = "fixed"]
             \/ /\ jr[t].phase = "prepared"
                /\ run' = [run EXCEPT ![p].pc = "restore", ![p].txn = t,
                                      ![p].todo = Changed(t),
                                      ![p].outcome = "restored"]
      PROVE  Outcome'
  <2>1. t = last /\ last # NoTxn
    BY <1>5, Reading, NoTxnAssumption DEF Outcome, OneJournal, Base, Nothing
  <2>2. Synced
    BY <1>5, EndSynced
  <2>3. Images(t) = {jr[t]} /\ (Uncut /\ Rooted => anchored)
    BY <1>5, <2>2 DEF Synced, Visible
  <2>4. Recoverable(jr[t])
    BY <2>1, <2>3 DEF Outcome, Durable
  <2>5. last' = t /\ jr'[t] = jr[t] /\ anchored' = anchored /\ Images(t)' = {jr'[t]}
        /\ Changed(t)' = Changed(t)
    BY <1>1, <2>1, <2>3, SameImages, SameJournal
  <2>6. CASE /\ jr[t].phase = "complete"
             /\ run' = [run EXCEPT ![p].pc = "remove", ![p].txn = t,
                                   ![p].outcome = "fixed"]
    <3>1. run'[p].pc = "remove" /\ run'[p].txn = t /\ run'[p].outcome = "fixed"
      BY <1>2, <2>6 DEF Running
    <3>2. Replaced(t)
      BY <1>5, <2>1, <2>4, <2>6 DEF Recoverable
    <3>3. Replaced(t)'
      BY <1>1, <3>2, SameData
    <3>4. \A i \in Images(t)' : i.phase # "prepared"
      BY <2>5, <2>6
    <3>5. Progress(p)'
      BY <1>5, <2>5, <3>1, <3>3, <3>4, Entering
    <3>6. Alone(p)
      BY <1>2, <1>5, <2>6, <3>1 DEF Alone
    <3> QED  BY <1>4, <3>1, <3>5, <3>6
  <2>7. CASE /\ jr[t].phase = "prepared"
             /\ run' = [run EXCEPT ![p].pc = "restore", ![p].txn = t,
                                   ![p].todo = Changed(t), ![p].outcome = "restored"]
    <3>1. /\ run'[p].pc = "restore" /\ run'[p].txn = t /\ run'[p].outcome = "restored"
          /\ run'[p].todo = Changed(t)
      BY <1>2, <2>7 DEF Running
    <3>2. Mixed(t)
      BY <1>5, <2>1, <2>4, <2>7 DEF Recoverable
    <3>3. Mixed(t)'
      BY <1>1, <3>2, SameData
    <3>4. Progress(p)'
      BY <1>5, <2>3, <2>5, <2>7, <3>1, <3>3, ToRestore DEF Base
    <3>5. Alone(p)
      BY <1>2, <1>5, <2>7, <3>1 DEF Alone
    <3> QED  BY <1>4, <3>1, <3>4, <3>5
  <2> QED  BY <1>5, <2>6, <2>7
<1>6. CASE ListTransactions(p)
  BY <1>3, <1>5, <1>6 DEF ListTransactions, Visible
<1>7. ASSUME run[p].pc = "restore"
      PROVE  \E t \in Txns :
               /\ t = run[p].txn /\ t = last
               /\ run[p].outcome # "fixed"
               /\ Images(t) = {jr[t]} /\ jr[t].dir /\ jr[t].phase = "prepared"
               /\ Uncut /\ Rooted => anchored
               /\ Mixed(t)
               /\ \A g \in (Files \ dirty) \ run[p].todo : OnDisk(g) = {before[t][g]}
               /\ \A g \in Files : OnDisk(g) = {src[g]}
  <2>1. run[p].txn \in Txns /\ run[p].txn = last /\ Rolling(p)
    BY <1>7, OwnIsLast DEF Working, Outcome, Progress
  <2>2. \A g \in Files : OnDisk(g) = {src[g]}
    BY <1>7, AllSettled DEF Base, Outcome
  <2> QED  BY <1>7, <2>1, <2>2 DEF Rolling, Restoring
<1>8. CASE RestoreCheck(p, f)
  <2>1. run[p].pc = "restore" /\ f \in run[p].todo /\ f \in Files
    BY <1>2, <1>8 DEF RestoreCheck, Running
  <2>2. PICK t \in Txns :
               /\ t = run[p].txn /\ t = last
               /\ run[p].outcome # "fixed"
               /\ Images(t) = {jr[t]} /\ jr[t].dir /\ jr[t].phase = "prepared"
               /\ Uncut /\ Rooted => anchored
               /\ Mixed(t)
               /\ \A g \in (Files \ dirty) \ run[p].todo : OnDisk(g) = {before[t][g]}
               /\ \A g \in Files : OnDisk(g) = {src[g]}
    BY <1>7, <2>1
  <2>3. ASSUME UNCHANGED lock,
               \/ src[f] = before[t][f] /\ Loop(p, "restore", run[p].todo \ {f})
               \/ /\ src[f] \notin {before[t][f], After(t, f)}
                  /\ run' = [run EXCEPT ![p].todo = @ \ {f},
                                        ![p].conflicts = @ \cup {f}]
               \/ Goto(p, "restoreRename")
        PROVE  Outcome'
    <3>1. /\ run'[p].txn = t /\ run'[p].outcome = run[p].outcome
          /\ \/ run'[p].pc = "restore" /\ run'[p].todo = run[p].todo \ {f}
                /\ (src[f] = before[t][f] \/ src[f] \notin {before[t][f], After(t, f)})
             \/ run'[p].pc = "restoreRename" /\ run'[p].todo = run[p].todo
          /\ \A q \in Procs \ {p} : run'[q] = run[q]
      <4>1. CASE src[f] = before[t][f] /\ Loop(p, "restore", run[p].todo \ {f})
        BY <1>2, <2>2, <4>1 DEF Loop, Running
      <4>2. CASE /\ src[f] \notin {before[t][f], After(t, f)}
                 /\ run' = [run EXCEPT ![p].todo = @ \ {f},
                                       ![p].conflicts = @ \cup {f}]
        BY <1>2, <2>1, <2>2, <4>2 DEF Running
      <4>3. CASE Goto(p, "restoreRename")
        BY <1>2, <2>2, <4>3 DEF Goto, Running
      <4> QED  BY <2>3, <4>1, <4>2, <4>3
    <3>2. \A g \in (Files \ dirty) \ run'[p].todo : OnDisk(g) = {before[t][g]}
      <4>1. f \notin dirty /\ f \notin run'[p].todo => OnDisk(f) = {before[t][f]}
        BY <2>1, <2>2, <3>1 DEF Mixed
      <4>2. \A g \in Files : g \notin run'[p].todo => g = f \/ g \notin run[p].todo
        BY <3>1
      <4> QED  BY <2>2, <4>1, <4>2
    <3>3. \A g \in (Files \ dirty') \ run'[p].todo : OnDisk(g)' = {before'[t][g]}
      BY <1>1, <3>2, SameSources
    <3>4. Mixed(t)' /\ Images(t)' = {jr'[t]} /\ last' = t
      BY <1>1, <2>2, SameData, SameImages
    <3>5. Progress(p)'
      BY <1>1, <2>2, <3>1, <3>3, <3>4
         DEF Progress, Working, Untouched, NotComplete, Halfway, Done, Rolling,
             Resolving, Preparing, Restoring, Removing
    <3>6. Alone(p)
      BY <2>3, <3>1 DEF Alone
    <3> QED  BY <1>4, <3>1, <3>5, <3>6
  <2> QED  BY <1>3, <1>8, <2>2, <2>3 DEF RestoreCheck
<1>9. CASE RestoreEnd(p)
  <2>1. run[p].pc = "restore" /\ run[p].todo = {}
    BY <1>9 DEF RestoreEnd
  <2>2. PICK t \in Txns :
               /\ t = run[p].txn /\ t = last
               /\ run[p].outcome # "fixed"
               /\ Images(t) = {jr[t]} /\ jr[t].dir /\ jr[t].phase = "prepared"
               /\ Uncut /\ Rooted => anchored
               /\ Mixed(t)
               /\ \A g \in (Files \ dirty) \ run[p].todo : OnDisk(g) = {before[t][g]}
               /\ \A g \in Files : OnDisk(g) = {src[g]}
    BY <1>7, <2>1
  <2>3. ASSUME Goto(p, "remove"), UNCHANGED lock
        PROVE  Outcome'
    <3>1. /\ run'[p].pc = "remove" /\ run'[p].txn = t
          /\ run'[p].outcome = run[p].outcome /\ Alone(p)
      BY <1>2, <2>2, <2>3, Moves, Loops, GotoAlone
    <3>2. Original(t)
      BY <2>1, <2>2 DEF Original
    <3>3. Original(t)' /\ Images(t)' = {jr[t]} /\ jr'[t] = jr[t] /\ last' = t
      BY <1>1, <2>2, <3>2, SameData, SameImages
    <3>4. Progress(p)'
      BY <2>2, <3>1, <3>3, Entering
    <3> QED  BY <1>4, <3>1, <3>4
  <2> QED  BY <1>3, <1>9, <2>3 DEF RestoreEnd
<1> QED  BY <1>6, <1>8, <1>9

\* A run starts when nothing waits for an fsync, and a transaction over an
\* empty journal and from what is on disk.
LEMMA OpenOutcome ==
    ASSUME Base, Base', Outcome, NEW p \in Procs,
           Open(p) \/ \E c \in Commands : LockWorkspace(p, c)
    PROVE  Outcome'
<1>1. run \in [Procs -> Running] /\ RunOK
  BY DEF Base, RunOK
<1>2. CASE \E c \in Commands : LockWorkspace(p, c)
  <2>1. Quiet /\ UNCHANGED <<src, srcD>>
    BY <1>2 DEF LockWorkspace, Quiet, fs
  <2>2. \A q \in Procs : run[q].pc = "idle" /\ run'[q].pc \in {"idle", "list", "open"}
    <3>1. \A q \in Procs : run[q].pc = "idle"
      BY <1>2, NoProcAssumption DEF LockWorkspace, Base, OneAtATime
    <3>2. PICK label \in {"list", "open"}, c \in Commands :
             run' = [run EXCEPT ![p].pc = label, ![p].cmd = c]
      BY <1>2 DEF LockWorkspace
    <3>3. run'[p].pc = label /\ \A q \in Procs \ {p} : run'[q] = run[q]
      BY <1>1, <3>2 DEF Running
    <3> QED  BY <3>1, <3>3
  <2>3. \A q \in Procs : Progress(q)'
    BY <2>2, Leaving
  <2>4. Calm /\ \A g \in Files : OnDisk(g) = {src[g]}
    BY <2>2 DEF Calm, Working, Outcome, Settled, AtFile
  <2> QED  BY <2>1, <2>3, <2>4, QuietKeeps DEF Outcome
<1>3. CASE Open(p) /\ OnError(p) /\ UNCHANGED <<before, dirty, last>>
  <2>1. Quiet /\ run[p].pc = "open"
    BY <1>3 DEF Open, Quiet, hist
  <2> QED  BY <1>3, <2>1, OnErrorOutcome DEF Removing
<1>4. ASSUME Open(p), Visible = {}, NEW t \in Txns, Free(t), UNCHANGED lock,
             before' = [before EXCEPT ![t] = src],
             run' = [run EXCEPT ![p].pc = "assert", ![p].txn = t, ![p].todo = Files],
             last' = t, dirty' = {}
      PROVE  Outcome'
  <2>1. run[p].pc = "open" /\ UNCHANGED <<src, srcD, jr, jrD>>
    BY <1>4 DEF Open, fs
  <2>2. run'[p].pc = "assert" /\ run'[p].txn = t /\ Alone(p)
    BY <1>1, <1>4 DEF Running, Alone
  <2>3. \A g \in Files : OnDisk(g) = {src[g]} /\ OnDisk(g)' = OnDisk(g)
    BY <2>1, AllSettled, SameSources DEF Base, Outcome
  <2>4. Synced
    BY <2>1, EndSynced
  <2>5. \A u \in Txns : jr[u] = Nothing /\ Images(u) = {jr[u]} /\ Images(u)' = Images(u)
    <3>1. \A u \in Txns : Images(u)' = Images(u)
      BY <2>1, SameImages
    <3>2. \A u \in Txns : jr[u] = Nothing
      BY <1>4 DEF Visible, Outcome, OneJournal
    <3> QED  BY <2>4, <3>1, <3>2 DEF Synced
  <2>6. Original(t)'
    BY <1>4, <2>3 DEF Original, Base, RestOK
  <2>7. OneJournal'
    BY <2>1, <2>5 DEF OneJournal
  <2>8. Settled'
    BY <2>1, <2>3 DEF Settled
  <2>9. Progress(p)'
    BY <1>4, <2>2, <2>6, Entering
  <2> QED  BY <2>1, <2>2, <2>7, <2>8, <2>9, Join DEF Working
<1>5. ASSUME Open(p)
      PROVE  Outcome'
  BY <1>3, <1>4, <1>5 DEF Open
<1> QED  BY <1>2, <1>5

\* Preparation: a backup or the journal is written, or a directory is synced.
LEMMA PrepareOutcome ==
    ASSUME Base, Base', Outcome, NEW p \in Procs, NEW f,
           \/ MakeJournalDir(p) \/ WriteBackup(p, f) \/ SyncBackup(p, f)
           \/ WriteJournal(p) \/ SyncJournal(p) \/ SyncTransactions(p)
    PROVE  Outcome'
<1> USE DEF AtFile, AtEnd
<1>1. run \in [Procs -> Running] /\ RunOK /\ JrOK /\ JournalAt(p)
  BY DEF Base, RunOK, JournalInv
<1>2. /\ run[p].pc \in {"assert", "backup", "backupSync", "journalSync", "listSync"}
      /\ UNCHANGED <<src, srcD, anchored, before, user, dirty, last>>
  BY DEF MakeJournalDir, WriteBackup, SyncBackup, WriteJournal, SyncJournal,
         SyncTransactions, fs, hist
<1>3. PICK t \in Txns : t = run[p].txn /\ t = last
  BY <1>2, OwnIsLast DEF Working
<1>4. ASSUME OnError(p), UNCHANGED fs
      PROVE  Outcome'
  BY <1>2, <1>4, OnErrorOutcome DEF Quiet, hist, Removing
<1>5. /\ Progress(p) /\ Original(t)
      /\ run[p].pc \in Preparing => jr[t].dir /\ \A i \in Images(t) : i.phase # "complete"
      /\ run[p].pc = "assert" => Images(t) = {Nothing}
  BY <1>1, <1>2, <1>3, Reading
     DEF Outcome, Progress, Untouched, NotComplete, Preparing, JournalAt, Images, JrOK
<1>6. ASSUME NEW label \in Preparing, NEW S, Goto(p, label) \/ Loop(p, label, S),
             UNCHANGED lock,
             \A u \in Txns \ {t} : jr'[u] = jr[u] /\ Images(u)' = Images(u),
             jr'[t].dir, \A i \in Images(t)' : i.phase # "complete"
      PROVE  Outcome'
  <2>1. run'[p].pc = label /\ run'[p].txn = t /\ last' = t /\ label # "idle"
    BY <1>1, <1>2, <1>3, <1>6, Moves, Loops DEF Preparing
  <2>2. Alone(p)
    BY <1>1, <1>6, <2>1, GotoAlone
  <2>3. Original(t)'
    BY <1>2, <1>5, SameData
  <2>4. Progress(p)' /\ Working(p)'
    BY <1>6, <2>1, <2>3, Entering DEF Working, Preparing
  <2>5. OneJournal'
    BY <1>2, <1>3, <1>6 DEF OneJournal, Outcome
  <2>6. Settled'
    <3>1. \A g \in Files : OnDisk(g) = {src[g]}
      BY <1>2, AllSettled DEF Base, Outcome
    <3> QED  BY <1>2, <3>1, SameSources DEF Settled
  <2> QED  BY <1>2, <2>2, <2>4, <2>5, <2>6, Join
<1>7. CASE MakeJournalDir(p)
  <2>1. ASSUME PutDir(t, TRUE), Loop(p, "backup", Changed(t)), UNCHANGED lock
        PROVE  Outcome'
    <3>1. Images(t) = {Nothing}
      BY <1>5, <1>7 DEF MakeJournalDir
    <3>2. /\ \A u \in Txns \ {t} : jr'[u] = jr[u] /\ Images(u)' = Images(u)
          /\ jr'[t] = [jr[t] EXCEPT !.dir = TRUE]
          /\ \A i \in Images(t)' : \E k \in Images(t) : i.phase = k.phase
      BY <1>1, <2>1, DirImages
    <3>3. jr'[t].dir /\ \A i \in Images(t)' : i.phase # "complete"
      BY <1>1, <3>1, <3>2 DEF JrOK, Image, Nothing
    <3> QED  BY <1>6, <2>1, <3>2, <3>3 DEF Preparing
  <2> QED  BY <1>3, <1>4, <1>7, <2>1 DEF MakeJournalDir
<1>8. CASE WriteBackup(p, f)
  <2>1. ASSUME PutBackup(t, f), Goto(p, "backupSync"), UNCHANGED lock
        PROVE  Outcome'
    <3>1. jr[t].dir /\ \A i \in Images(t) : i.phase # "complete"
      BY <1>5, <1>8 DEF WriteBackup, Preparing
    <3>2. /\ \A u \in Txns \ {t} : jr'[u] = jr[u] /\ Images(u)' = Images(u)
          /\ jr'[t].dir = jr[t].dir
          /\ \A i \in Images(t)' : \E k \in Images(t) : i.dir = k.dir /\ i.phase = k.phase
      BY <1>1, <2>1, BackupImages
    <3>3. jr'[t].dir /\ \A i \in Images(t)' : i.phase # "complete"
      BY <3>1, <3>2
    <3> QED  BY <1>6, <2>1, <3>2, <3>3 DEF Preparing
  <2> QED  BY <1>3, <1>4, <1>8, <2>1 DEF WriteBackup
<1>9. ASSUME run[p].pc \in Preparing, SyncDir(t) \/ SyncList
      PROVE  /\ \A u \in Txns \ {t} : jr'[u] = jr[u] /\ Images(u)' = Images(u)
             /\ jr'[t].dir /\ \A i \in Images(t)' : i.phase # "complete"
  <2>1. jr[t].dir /\ \A i \in Images(t) : i.phase # "complete"
    BY <1>5, <1>9
  <2>2. CASE SyncDir(t)
    BY <1>1, <2>1, <2>2, SyncedImages
  <2>3. CASE SyncList
    <3>1. \A u \in Txns \ {t} : Images(u) = {Nothing} /\ jr[u] = Nothing
      BY <1>1, <1>3, Reading DEF Outcome, OneJournal
    <3>2. /\ jr' = jr /\ \A i \in Images(t)' : i \in Images(t)
          /\ \A u \in Txns : ~jr[u].dir => Images(u)' = {jr[u]}
      BY <1>1, <2>1, <2>3, ListedImages
    <3>3. ~Nothing.dir
      BY DEF Nothing
    <3> QED  BY <2>1, <3>1, <3>2, <3>3
  <2> QED  BY <1>9, <2>2, <2>3
<1>10. CASE SyncBackup(p, f)
  BY <1>3, <1>6, <1>9, <1>10 DEF SyncBackup, Preparing
<1>11. CASE WriteJournal(p)
  <2>1. PutPhase(t, "prepared") /\ Goto(p, "journalSync") /\ UNCHANGED lock
        /\ run[p].pc \in Preparing
    BY <1>3, <1>11 DEF WriteJournal, Preparing
  <2>2. /\ \A u \in Txns \ {t} : jr'[u] = jr[u] /\ Images(u)' = Images(u)
        /\ jr'[t] = [jr[t] EXCEPT !.phase = "prepared"]
        /\ \A i \in Images(t)' :
              \E k \in Images(t) : i.dir = k.dir /\ i.phase \in {k.phase, "prepared"}
    BY <1>1, <2>1, PhaseImages DEF Phases
  <2>3. jr'[t].dir /\ \A i \in Images(t)' : i.phase # "complete"
    BY <1>1, <1>5, <2>1, <2>2 DEF JrOK, Image
  <2> QED  BY <1>6, <2>1, <2>2, <2>3 DEF Preparing
<1>12. CASE SyncJournal(p)
  BY <1>3, <1>6, <1>9, <1>12 DEF SyncJournal, Preparing
<1>13. CASE SyncTransactions(p)
  BY <1>3, <1>6, <1>9, <1>13 DEF SyncTransactions, Preparing
<1> QED  BY <1>7, <1>8, <1>10, <1>11, <1>12, <1>13

-----------------------------------------------------------------------------
(* Sources and phases.                                                     *)

\* The first replacement waits for the last fsync; the last phase of the
\* journal is written over replaced sources.
LEMMA PhaseOutcome ==
    ASSUME Base, Base', Outcome, NEW p \in Procs,
           SyncStateDir(p) \/ WriteComplete(p) \/ SyncComplete(p)
    PROVE  Outcome'
<1>1. run \in [Procs -> Running] /\ RunOK /\ JrOK /\ JournalAt(p) /\ Progress(p)
  BY DEF Base, RunOK, JournalInv, Outcome
<1>2. /\ run[p].pc \in {"rootSync", "complete", "completeSync"}
      /\ UNCHANGED <<src, srcD, before, user, dirty, last, lock>>
  BY DEF SyncStateDir, WriteComplete, SyncComplete, hist
<1>3. PICK t \in Txns : t = run[p].txn /\ t = last
  BY <1>2, OwnIsLast DEF Working
<1>4. Settled' /\ last' = t
  <2>1. \A g \in Files : OnDisk(g) = {src[g]}
    BY <1>2, AllSettled DEF Base, Outcome
  <2> QED  BY <1>2, <1>3, <2>1, SameSources DEF Settled
<1>5. ASSUME run'[p].pc \notin {"idle", "list", "open"}, Alone(p), Progress(p)',
             jr'[t].dir,
             \A u \in Txns \ {t} : jr'[u] = jr[u] /\ Images(u)' = Images(u)
      PROVE  Outcome'
  <2>1. OneJournal'
    BY <1>3, <1>4, <1>5 DEF OneJournal, Outcome
  <2> QED  BY <1>2, <1>4, <1>5, <2>1, Join DEF Working
<1>6. CASE SyncStateDir(p)
  <2>1. /\ run'[p].pc = "check" /\ run'[p].txn = t /\ run'[p].todo = Changed(t) /\ Alone(p)
        /\ UNCHANGED <<jr, jrD>>
    <3>1. Loop(p, "check", Changed(t)) /\ UNCHANGED <<jr, jrD, lock>>
      BY <1>3, <1>6 DEF SyncStateDir
    <3>2. Alone(p)
      BY <1>1, <3>1, GotoAlone
    <3> QED  BY <1>1, <1>3, <3>1, <3>2 DEF Goto, Loop, Running
  <2>2. Original(t) /\ jr[t].dir
    BY <1>1, <1>3, <1>6 DEF SyncStateDir, Progress, Untouched, NotComplete, Preparing
  <2>3. ASSUME NEW g \in Files \ dirty
        PROVE  OnDisk(g) = {IF g \in Changed(t) THEN before[t][g] ELSE After(t, g)}
    BY <2>2 DEF Original, Changed
  <2>4. \A g \in Files \ dirty' :
           OnDisk(g)' = {IF g \in run'[p].todo THEN before'[t][g] ELSE After(t, g)'}
    BY <1>2, <2>1, <2>3, SameSources, SameJournal
  <2>5. Progress(p)'
    BY <1>4, <2>1, <2>4, Entering
  <2> QED  BY <1>5, <2>1, <2>2, <2>5, SameImages
<1>7. CASE WriteComplete(p)
  <2>1. /\ run'[p].pc = "completeSync" /\ run'[p].txn = t /\ Alone(p)
        /\ PutPhase(t, "complete")
    BY <1>1, <1>3, <1>7, Moves, Loops, GotoAlone DEF WriteComplete
  <2>2. jr[t].dir /\ Replaced(t)
    BY <1>1, <1>3, <1>7, PreparedImages DEF WriteComplete, Replacing, Progress, Done
  <2>3. /\ \A u \in Txns \ {t} : jr'[u] = jr[u] /\ Images(u)' = Images(u)
        /\ jr'[t] = [jr[t] EXCEPT !.phase = "complete"]
    BY <1>1, <2>1, PhaseImages DEF Phases
  <2>4. jr'[t].dir /\ jr'[t].phase = "complete"
    BY <1>1, <2>2, <2>3 DEF JrOK, Image
  <2>5. Replaced(t)'
    BY <1>2, <2>2, SameData
  <2>6. Progress(p)'
    BY <1>4, <2>1, <2>4, <2>5, Entering
  <2> QED  BY <1>5, <2>1, <2>3, <2>4, <2>6
<1>8. CASE SyncComplete(p)
  <2>1. run' = [run EXCEPT ![p].pc = "remove", ![p].outcome = "fixed"] /\ SyncDir(t)
    BY <1>3, <1>8 DEF SyncComplete
  <2>2. run'[p].pc = "remove" /\ run'[p].outcome = "fixed" /\ run'[p].txn = t
    BY <1>1, <1>3, <2>1 DEF Running
  <2>3. Alone(p)
    BY <1>1, <1>2, <2>1, <2>2 DEF Alone
  <2>4. jr[t].dir /\ Replaced(t) /\ jr[t].phase = "complete"
    BY <1>1, <1>3, <1>8 DEF SyncComplete, JournalAt, JrOK, Progress, Done
  <2>5. /\ jr' = jr
        /\ \A u \in Txns \ {t} : Images(u)' = Images(u)
        /\ \A i \in Images(t)' : i.phase = "complete"
    BY <1>1, <2>1, <2>4, SyncedImages
  <2>6. Replaced(t)'
    BY <1>2, <2>4, SameData
  <2>7. Progress(p)'
    BY <1>4, <2>2, <2>4, <2>5, <2>6, Entering
  <2> QED  BY <1>5, <2>2, <2>3, <2>4, <2>5, <2>7
<1> QED  BY <1>6, <1>7, <1>8

\* A source is replaced or restored, and then synced.
LEMMA SourceOutcome ==
    ASSUME Base, Base', Outcome, NEW p \in Procs, NEW f,
           \/ RenameSource(p, f) \/ SyncRenamed(p, f)
           \/ RestoreRename(p, f) \/ RestoreSync(p, f)
    PROVE  Outcome'
<1> DEFINE todo == run[p].todo
<1>1. /\ run \in [Procs -> Running] /\ RunOK /\ SrcOK /\ Progress(p)
      /\ todo \subseteq Files /\ todo \subseteq Nat
  BY FilesAssumption DEF Base, RunOK, Running, Outcome
<1>2. /\ run[p].pc \in {"rename", "sync", "restoreRename", "restoreSync"}
      /\ f \in todo /\ \A g \in todo : f <= g
      /\ UNCHANGED <<jr, jrD, anchored, before, user, dirty, last, lock>>
  BY DEF RenameSource, SyncRenamed, RestoreRename, RestoreSync, AtFile, hist
<1>3. PICK t \in Txns : t = run[p].txn /\ t = last
  BY <1>2, OwnIsLast DEF Working
<1>4. \A g \in todo : (\A h \in todo : g <= h) => g = f
  BY <1>1, <1>2, FirstIsUnique
<1>5. OneJournal' /\ last' = t /\ Images(t)' = Images(t)
      /\ \A g : After(t, g)' = After(t, g)
  BY <1>2, <1>3, SameImages, SameJournal DEF Outcome, OneJournal
<1>6. ASSUME run'[p].pc \notin {"idle", "list", "open"}, Alone(p), Progress(p)', Settled'
      PROVE  Outcome'
  BY <1>2, <1>5, <1>6, Join DEF Working
<1>7. \A g \in Files \ {f} : OnDisk(g) = {src[g]}
  <2>1. ASSUME NEW g \in Files, NEW q \in Procs, AtFile(q, "sync", g) \/ AtFile(q, "restoreSync", g)
        PROVE  g = f
    <3>1. q = p
      BY <1>2, <2>1 DEF AtFile, Base, OneAtATime
    <3> QED  BY <1>4, <2>1, <3>1 DEF AtFile
  <2> QED  BY <2>1 DEF Outcome, Settled
<1>8. CASE RenameSource(p, f)
  <2>1. /\ run'[p].pc = "sync" /\ run'[p].txn = t /\ run'[p].todo = todo /\ Alone(p)
        /\ PutSource(f, After(t, f))
    <3>1. Goto(p, "sync") /\ PutSource(f, After(t, f)) /\ UNCHANGED lock
      BY <1>3, <1>8 DEF RenameSource
    <3>2. Alone(p)
      BY <1>1, <3>1, GotoAlone
    <3> QED  BY <1>1, <1>3, <3>1, <3>2 DEF Goto, Loop, Running
  <2>2. /\ src'[f] = After(t, f) /\ OnDisk(f)' \subseteq OnDisk(f) \cup {After(t, f)}
        /\ \A g \in Files \ {f} : src'[g] = src[g] /\ OnDisk(g)' = OnDisk(g)
    BY <1>1, <1>2, <2>1, PutOnDisk
  <2>3. \A g \in Files \ dirty : OnDisk(g) = {IF g \in todo THEN before[t][g] ELSE After(t, g)}
    BY <1>1, <1>3, <1>8 DEF RenameSource, AtFile, Progress, Halfway
  <2>4. \A g \in Files : AtFile(p, "sync", g)' <=> g = f
    BY <1>1, <1>2, <1>4, <2>1 DEF AtFile
  <2>5. Settled'
    BY <1>7, <2>2, <2>4 DEF Settled
  <2>6. \A g \in Files \ dirty' :
            IF AtFile(p, "sync", g)'
            THEN /\ src'[g] = After(t, g)' /\ OnDisk(g)' \subseteq {before'[t][g], After(t, g)'}
            ELSE OnDisk(g)' = {IF g \in run'[p].todo THEN before'[t][g] ELSE After(t, g)'}
    BY <1>2, <1>5, <2>1, <2>2, <2>3, <2>4
  <2>7. Progress(p)'
    BY <1>5, <2>1, <2>6
       DEF Progress, Working, Untouched, NotComplete, Halfway, Done, Rolling,
           Resolving, Preparing, Restoring, Removing
  <2> QED  BY <1>6, <2>1, <2>5, <2>7
<1>9. CASE SyncRenamed(p, f)
  <2>1. /\ run'[p].pc = "check" /\ run'[p].txn = t /\ run'[p].todo = todo \ {f} /\ Alone(p)
        /\ SyncSource(f)
    <3>1. Loop(p, "check", todo \ {f}) /\ SyncSource(f) /\ UNCHANGED lock
      BY <1>3, <1>9 DEF SyncRenamed
    <3>2. Alone(p)
      BY <1>1, <3>1, GotoAlone
    <3> QED  BY <1>1, <1>3, <3>1, <3>2 DEF Goto, Loop, Running
  <2>2. /\ src' = src /\ OnDisk(f)' = {src[f]}
        /\ \A g \in Files \ {f} : OnDisk(g)' = OnDisk(g)
    BY <1>1, <1>2, <2>1, SyncOnDisk
  <2>3. run[p].pc = "sync"
    BY <1>9 DEF SyncRenamed, AtFile
  <2>4. \A g \in Files : AtFile(p, "sync", g) <=> g = f
    BY <1>1, <1>2, <1>4, <2>3 DEF AtFile
  <2>5. \A g \in Files \ dirty :
            IF g = f THEN src[g] = After(t, g)
            ELSE OnDisk(g) = {IF g \in todo THEN before[t][g] ELSE After(t, g)}
    BY <1>1, <1>3, <2>3, <2>4 DEF Progress, Halfway
  <2>6. \A g \in Files \ dirty' :
           OnDisk(g)' = {IF g \in run'[p].todo THEN before'[t][g] ELSE After(t, g)'}
    BY <1>2, <1>5, <2>1, <2>2, <2>5
  <2>7. Progress(p)'
    BY <1>5, <2>1, <2>6, Entering
  <2>8. Settled'
    BY <1>7, <2>2 DEF Settled
  <2> QED  BY <1>6, <2>1, <2>7, <2>8
<1>10. ASSUME run[p].pc \in {"restoreRename", "restoreSync"}
       PROVE  /\ run[p].outcome # "fixed"
              /\ Images(t) = {jr[t]} /\ jr[t].dir /\ jr[t].phase = "prepared"
              /\ Uncut /\ Rooted => anchored
              /\ Mixed(t)
              /\ \A g \in (Files \ dirty) \ todo : OnDisk(g) = {before[t][g]}
              /\ \A g \in Files \ dirty : AtFile(p, "restoreSync", g) => src[g] = before[t][g]
  BY <1>1, <1>3, <1>10 DEF Progress, Rolling, Restoring
<1>11. CASE RestoreRename(p, f)
  <2>1. /\ run'[p].pc = "restoreSync" /\ run'[p].txn = t /\ run'[p].todo = todo /\ Alone(p)
        /\ run'[p].outcome = run[p].outcome
        /\ PutSource(f, before[t][f])
    <3>1. Goto(p, "restoreSync") /\ PutSource(f, before[t][f]) /\ UNCHANGED lock
      BY <1>3, <1>11 DEF RestoreRename
    <3>2. Alone(p)
      BY <1>1, <3>1, GotoAlone
    <3> QED  BY <1>1, <1>3, <3>1, <3>2 DEF Goto, Loop, Running
  <2>2. /\ src'[f] = before[t][f] /\ OnDisk(f)' \subseteq OnDisk(f) \cup {before[t][f]}
        /\ \A g \in Files \ {f} : src'[g] = src[g] /\ OnDisk(g)' = OnDisk(g)
    BY <1>1, <1>2, <2>1, PutOnDisk
  <2>3. \A g \in Files : AtFile(p, "restoreSync", g)' <=> g = f
    BY <1>1, <1>2, <1>4, <2>1 DEF AtFile
  <2>4. Settled'
    BY <1>7, <2>2, <2>3 DEF Settled
  <2>5. run[p].pc \in {"restoreRename", "restoreSync"}
    BY <1>11 DEF RestoreRename, AtFile
  <2>6. Mixed(t)'
    BY <1>2, <1>5, <1>10, <2>2, <2>5 DEF Mixed
  <2>7. /\ \A g \in (Files \ dirty') \ run'[p].todo : OnDisk(g)' = {before'[t][g]}
        /\ \A g \in Files \ dirty' : AtFile(p, "restoreSync", g)' => src'[g] = before'[t][g]
    BY <1>2, <1>10, <2>1, <2>2, <2>3, <2>5
  <2>8. Progress(p)'
    BY <1>2, <1>5, <1>10, <2>1, <2>5, <2>6, <2>7
       DEF Progress, Working, Untouched, NotComplete, Halfway, Done, Rolling,
           Resolving, Preparing, Restoring, Removing
  <2> QED  BY <1>6, <2>1, <2>4, <2>8
<1>12. CASE RestoreSync(p, f)
  <2>1. /\ run'[p].pc = "restore" /\ run'[p].txn = t /\ run'[p].todo = todo \ {f} /\ Alone(p)
        /\ run'[p].outcome = run[p].outcome
        /\ SyncSource(f)
    <3>1. Loop(p, "restore", todo \ {f}) /\ SyncSource(f) /\ UNCHANGED lock
      BY <1>3, <1>12 DEF RestoreSync
    <3>2. Alone(p)
      BY <1>1, <3>1, GotoAlone
    <3> QED  BY <1>1, <1>3, <3>1, <3>2 DEF Goto, Loop, Running
  <2>2. /\ src' = src /\ OnDisk(f)' = {src[f]}
        /\ \A g \in Files \ {f} : OnDisk(g)' = OnDisk(g)
    BY <1>1, <1>2, <2>1, SyncOnDisk
  <2>3. run[p].pc \in {"restoreRename", "restoreSync"} /\ AtFile(p, "restoreSync", f)
    BY <1>2, <1>12 DEF RestoreSync, AtFile
  <2>4. f \notin dirty => src[f] = before[t][f]
    BY <1>1, <1>2, <1>10, <2>3
  <2>5. Settled'
    BY <1>7, <2>2 DEF Settled
  <2>6. Mixed(t)'
    BY <1>2, <1>5, <1>10, <2>2, <2>3, <2>4 DEF Mixed
  <2>7. \A g \in (Files \ dirty') \ run'[p].todo : OnDisk(g)' = {before'[t][g]}
    BY <1>2, <1>10, <2>1, <2>2, <2>3, <2>4
  <2>8. Progress(p)'
    BY <1>2, <1>5, <1>10, <2>1, <2>3, <2>6, <2>7
       DEF Progress, Working, Untouched, NotComplete, Halfway, Done, Rolling,
           Resolving, Preparing, Restoring, Removing, AtFile
  <2> QED  BY <1>6, <2>1, <2>5, <2>8
<1> QED  BY <1>8, <1>9, <1>11, <1>12

\* An empty journal directory that goes leaves nothing.
LEMMA NothingLeft ==
    ASSUME NEW i \in Image, i.phase = "none", i.backups = {}
    PROVE  [i EXCEPT !.dir = FALSE] = Nothing
<1> DEFINE k == [i EXCEPT !.dir = FALSE]
<1>1. k \in Image /\ Nothing \in Image
  BY Defaults DEF Image
<1>2. k.dir = Nothing.dir /\ k.phase = Nothing.phase /\ k.backups = Nothing.backups
  BY DEF Image, Nothing
<1> HIDE DEF k
<1>3. k = Nothing
  BY <1>1, <1>2 DEF Image
<1> QED  BY <1>3 DEF k

\* A journal directory is taken apart only where it is no longer needed, and
\* its removal is on disk before the next one is looked for.
LEMMA RemovalOutcome ==
    ASSUME Base, Base', Outcome, NEW p \in Procs, RemoveEntry(p) \/ SyncRemoval(p)
    PROVE  Outcome'
<1>1. /\ run \in [Procs -> Running] /\ RunOK /\ JrOK /\ Progress(p)
      /\ run[p].pc \in Removing /\ run[p].pc \in {"remove", "removeSync"}
      /\ UNCHANGED <<src, srcD, anchored, before, user, dirty, last>>
  BY DEF Base, RunOK, Outcome, RemoveEntry, SyncRemoval, hist, Removing
<1>2. PICK t \in Txns : t = run[p].txn /\ t = last
  BY <1>1, OwnIsLast DEF Working
<1>3. Settled'
  <2>1. \A g \in Files : OnDisk(g) = {src[g]}
    BY <1>1, AllSettled DEF Base, Outcome
  <2> QED  BY <1>1, <2>1, SameSources DEF Settled
<1>4. /\ IF run[p].outcome = "fixed"
         THEN Replaced(t) /\ \A i \in Images(t) : i.phase # "prepared"
         ELSE Original(t) /\ \A i \in Images(t) : i.phase # "complete"
      /\ IF run[p].pc = "remove" THEN jr[t].dir ELSE jr[t] = Nothing
      /\ \A u \in Txns \ {t} : Images(u) = {Nothing} /\ jr[u] = Nothing
  BY <1>1, <1>2, Reading DEF Progress, Resolving, Outcome, OneJournal
<1>5. /\ Replaced(t)' <=> Replaced(t)
      /\ Original(t)' <=> Original(t)
  BY <1>1, SameData
<1>6. ~Nothing.dir /\ Nothing.phase = "none"
  BY DEF Nothing
<1>7. CASE RemoveEntry(p)
  <2>1. run[p].pc = "remove" /\ jr[t].dir /\ UNCHANGED lock
    BY <1>4, <1>7 DEF RemoveEntry
  <2>2. ASSUME \A u \in Txns \ {t} : jr'[u] = jr[u] /\ Images(u)' = Images(u),
               \A i \in Images(t)' :
                  i.phase = "none" \/ \E k \in Images(t) : i.phase = k.phase,
               \/ UNCHANGED run /\ jr'[t].dir
               \/ Goto(p, "removeSync") /\ jr'[t] = Nothing
        PROVE  Outcome'
    <3>1. OneJournal'
      BY <1>1, <1>2, <2>2 DEF OneJournal, Outcome
    <3>2. /\ run'[p].pc \in {"remove", "removeSync"} /\ run'[p].txn = t
          /\ run'[p].outcome = run[p].outcome
          /\ IF run'[p].pc = "remove" THEN jr'[t].dir ELSE jr'[t] = Nothing
      <4>1. CASE UNCHANGED run /\ jr'[t].dir
        BY <1>1, <1>2, <2>1, <4>1
      <4>2. CASE Goto(p, "removeSync") /\ jr'[t] = Nothing
        <5>1. /\ run'[p].pc = "removeSync" /\ run'[p].txn = run[p].txn
              /\ run'[p].outcome = run[p].outcome
          BY <1>1, <4>2 DEF Goto, Running
        <5> QED  BY <1>2, <4>2, <5>1
      <4> QED  BY <2>2, <4>1, <4>2
    <3>3. Alone(p)
      BY <1>1, <2>1, <2>2, GotoAlone DEF Alone
    <3>4. IF run'[p].outcome = "fixed"
          THEN Replaced(t)' /\ \A i \in Images(t)' : i.phase # "prepared"
          ELSE Original(t)' /\ \A i \in Images(t)' : i.phase # "complete"
      BY <1>4, <1>5, <2>2, <3>2
    <3>5. Progress(p)' /\ Working(p)'
      BY <1>1, <1>2, <3>2, <3>4
         DEF Progress, Working, Untouched, NotComplete, Halfway, Done, Rolling,
             Resolving, Preparing, Restoring, Removing
    <3> QED  BY <1>1, <1>3, <3>1, <3>3, <3>5, Join
  <2>3. CASE PutPhase(t, "none") /\ UNCHANGED run
    <3>1. /\ \A u \in Txns \ {t} : jr'[u] = jr[u] /\ Images(u)' = Images(u)
          /\ jr'[t] = [jr[t] EXCEPT !.phase = "none"]
          /\ \A i \in Images(t)' :
                \E k \in Images(t) : i.dir = k.dir /\ i.phase \in {k.phase, "none"}
      BY <1>1, <2>3, PhaseImages DEF Phases
    <3>2. jr'[t].dir
      BY <1>1, <2>1, <3>1 DEF JrOK, Image
    <3> QED  BY <2>2, <2>3, <3>1, <3>2
  <2>4. CASE \E f \in jr[t].backups : DropBackup(t, f) /\ UNCHANGED run
    <3>1. PICK f \in jr[t].backups : DropBackup(t, f)
      BY <2>4
    <3>2. /\ \A u \in Txns \ {t} : jr'[u] = jr[u] /\ Images(u)' = Images(u)
          /\ jr'[t].dir = jr[t].dir
          /\ \A i \in Images(t)' : \E k \in Images(t) : i.dir = k.dir /\ i.phase = k.phase
      BY <1>1, <3>1, BackupImages
    <3> QED  BY <2>1, <2>2, <2>4, <3>2
  <2>5. CASE /\ jr[t].phase = "none" /\ jr[t].backups = {}
             /\ PutDir(t, FALSE) /\ Goto(p, "removeSync")
    <3>1. /\ \A u \in Txns \ {t} : jr'[u] = jr[u] /\ Images(u)' = Images(u)
          /\ jr'[t] = [jr[t] EXCEPT !.dir = FALSE]
          /\ \A i \in Images(t)' : \E k \in Images(t) : i.phase = k.phase
      BY <1>1, <2>5, DirImages
    <3>2. jr'[t] = Nothing
      BY <1>1, <2>5, <3>1, NothingLeft DEF JrOK
    <3> QED  BY <2>2, <2>5, <3>1, <3>2
  <2> QED  BY <1>2, <1>7, <2>3, <2>4, <2>5 DEF RemoveEntry
<1>8. CASE SyncRemoval(p)
  <2>1. SyncList /\ jr[t] = Nothing
    <3>1. run[p].pc = "removeSync" /\ SyncList
      BY <1>8 DEF SyncRemoval
    <3> QED  BY <1>4, <3>1
  <2>2. jr' = jr /\ \A u \in Txns : jr[u] = Nothing /\ Images(u)' = {Nothing}
    BY <1>1, <1>4, <1>6, <2>1, ListedImages
  <2>3. OneJournal' /\ Synced'
    BY <1>6, <2>2 DEF OneJournal, Synced, Visible
  <2>4. Durable'
    BY <1>1, <1>2, <1>4, <1>5, <1>6, <2>2 DEF Durable, Recoverable
  <2> DEFINE next == [Idle EXCEPT !.pc = "list", !.cmd = "recover",
                                  !.interrupted = run[p].interrupted]
  <2>5. next.pc = "list" /\ Idle.pc = "idle"
    BY DEF Idle
  <2> HIDE DEF next
  <2>6. \/ run' = [run EXCEPT ![p] = next] /\ UNCHANGED lock
        \/ run' = [run EXCEPT ![p] = Idle] /\ lock' = NoProc
    BY <1>8 DEF SyncRemoval, Return, next
  <2>7. run'[p].pc \in {"idle", "list", "open"} /\ Alone(p)
    BY <1>1, <2>5, <2>6 DEF Alone
  <2>8. Progress(p)'
    BY <2>7, Leaving
  <2> QED  BY <1>1, <1>3, <2>3, <2>4, <2>7, <2>8, Join
<1> QED  BY <1>7, <1>8

-----------------------------------------------------------------------------
(* The environment.                                                        *)

\* A step that leaves a process where it is, and what is on disk of the files
\* that are not saved.
LEMMA StaysThere ==
    ASSUME NEW p \in Procs, Progress(p), UNCHANGED <<jr, jrD, anchored, before, last>>,
           run'[p].pc = run[p].pc, run'[p].txn = run[p].txn,
           run'[p].todo = run[p].todo, run'[p].outcome = run[p].outcome,
           dirty \subseteq dirty',
           \A g \in Files \ dirty' : src'[g] = src[g] /\ OnDisk(g)' = OnDisk(g)
    PROVE  Progress(p)'
<1>1. PICK t : t = run[p].txn
  OBVIOUS
<1>2. /\ \A u : Images(u)' = Images(u)
      /\ \A g : After(t, g)' = After(t, g)
  BY SameImages, SameJournal
<1>3. /\ Original(t) => Original(t)'
      /\ Replaced(t) => Replaced(t)'
      /\ Mixed(t) => Mixed(t)'
  BY <1>2 DEF Original, Replaced, Mixed
<1>4. \A label, g : AtFile(p, label, g)' <=> AtFile(p, label, g)
  BY DEF AtFile
<1> USE <1>1, <1>2, <1>3, <1>4 DEF Progress
<1>5. (Working(p) => run[p].txn = last)'
  BY DEF Working
<1>6. Untouched(p)' /\ NotComplete(p)' /\ Done(p)'
  BY DEF Untouched, NotComplete, Done
<1>7. Halfway(p)'
  <2> SUFFICES ASSUME run[p].pc \in {"check", "rename", "sync"}, NEW g \in Files \ dirty'
               PROVE  IF AtFile(p, "sync", g)
                      THEN /\ src'[g] = After(t, g)
                           /\ OnDisk(g)' \subseteq {before[t][g], After(t, g)}
                      ELSE OnDisk(g)' = {IF g \in run[p].todo THEN before[t][g] ELSE After(t, g)}
    BY DEF Halfway
  <2>1. IF AtFile(p, "sync", g)
        THEN src[g] = After(t, g) /\ OnDisk(g) \subseteq {before[t][g], After(t, g)}
        ELSE OnDisk(g) = {IF g \in run[p].todo THEN before[t][g] ELSE After(t, g)}
    BY DEF Halfway
  <2> QED  BY <2>1
<1>8. Rolling(p)'
  BY DEF Rolling
<1>9. Resolving(p)'
  BY DEF Resolving
<1> QED  BY <1>5, <1>6, <1>7, <1>8, <1>9

\* An interrupt is noted, an idle system stays idle.
LEMMA SignalOutcome ==
    ASSUME Base, Outcome, \/ \E p \in Procs : Signal(p)
                          \/ UNCHANGED vars
    PROVE  Outcome'
<1>1. Quiet /\ UNCHANGED <<src, srcD, jr, jrD, anchored, before, dirty, last>>
  BY DEF Signal, Fault, vars, Quiet, fs, hist
<1>2. ASSUME NEW q \in Procs
      PROVE  /\ run'[q].pc = run[q].pc /\ run'[q].txn = run[q].txn
             /\ run'[q].todo = run[q].todo /\ run'[q].outcome = run[q].outcome
  BY DEF Signal, vars, Base, RunOK, Running
<1>3. \A q \in Procs : Progress(q)'
  BY <1>1, <1>2, StaysThere, SameSources DEF Outcome
<1>4. Settled'
  BY <1>1, <1>2, SameSources DEF Outcome, Settled, AtFile
<1>5. Calm' => Calm
  BY <1>2 DEF Calm, Working
<1> QED  BY <1>1, <1>3, <1>4, <1>5, QuietKeeps DEF Outcome

\* A call fails or a process dies: only where no fsync is pending unless what is
\* read is all that matters.
LEMMA FailureOutcome ==
    ASSUME Survivable, Base, Base', Outcome, NEW p \in Procs, Fail(p) \/ Kill(p)
    PROVE  Outcome'
<1>1. Quiet /\ run[p].pc # "idle" /\ ~Uncut
  <2>1. CASE Fail(p)
    BY <2>1 DEF Fail, Fault, Survivable, Uncut, Quiet
  <2>2. CASE Kill(p)
    BY <2>2 DEF Kill, Fault, Uncut, Quiet
  <2> QED  BY <2>1, <2>2
<1>2. CASE Fail(p)
  <2>1. run[p].pc # "completeSync" /\ OnError(p)
    BY <1>2 DEF Fail, Fault, Survivable
  <2> QED  BY <1>1, <2>1, OnErrorOutcome
<1>3. CASE Kill(p)
  <2>1. run'[p].pc = "idle" /\ Alone(p)
    BY <1>3 DEF Kill, Return, Alone, Idle, Base, RunOK
  <2>2. Progress(p)' /\ Synced
    BY <1>1, <2>1, Leaving DEF Synced, Images
  <2> QED  BY <1>1, <2>1, <2>2, QuietStep
<1> QED  BY <1>2, <1>3

\* A save changes one file, and that file is dirty from then on.
LEMMA SaveOutcome ==
    ASSUME Base, Outcome, NEW f \in Files, NEW c \in Saves, Save(f, c)
    PROVE  Outcome'
<1>1. /\ UNCHANGED <<jr, jrD, anchored, run, before, last>>
      /\ dirty' = dirty \cup {f}
      /\ src'[f] = c /\ srcD'[f] = {c}
      /\ \A g \in Files \ {f} : src'[g] = src[g] /\ srcD'[g] = srcD[g]
  BY DEF Save, Base, SrcOK
<1>2. /\ OnDisk(f)' = {src'[f]}
      /\ \A g \in Files \ {f} : src'[g] = src[g] /\ OnDisk(g)' = OnDisk(g)
  BY <1>1 DEF OnDisk
<1>3. \A q \in Procs : Progress(q)'
  BY <1>1, <1>2, StaysThere DEF Outcome
<1>4. Settled'
  BY <1>1, <1>2 DEF Outcome, Settled, AtFile
<1>5. /\ \A u : Images(u)' = Images(u)
      /\ \A t, g : After(t, g)' = After(t, g)
  BY <1>1, SameImages, SameJournal
<1>6. \A t : /\ Original(t) => Original(t)'
             /\ Replaced(t) => Replaced(t)'
             /\ Mixed(t) => Mixed(t)'
  BY <1>1, <1>2, <1>5 DEF Original, Replaced, Mixed
<1>7. Durable'
  <2>1. ASSUME NEW i, Recoverable(i)
        PROVE  Recoverable(i)'
    BY <1>1, <1>6, <2>1 DEF Recoverable
  <2> QED  BY <1>1, <1>5, <1>6, <2>1 DEF Outcome, Durable
<1>8. OneJournal' /\ (Calm' => Synced')
  BY <1>1, <1>5 DEF Outcome, OneJournal, Calm, Working, Synced, Visible
<1> QED  BY <1>3, <1>4, <1>7, <1>8 DEF Outcome

\* A power loss picks one of the contents and one of the images that may be on
\* disk, and whichever it picks can be recovered.
LEMMA PowerOutcome ==
    ASSUME Survivable, Base, Base', Outcome, PowerLoss
    PROVE  Outcome'
<1>1. Uncut /\ Rooted /\ UNCHANGED <<before, user, dirty, last>>
  BY DEF PowerLoss, Fault, Survivable, hist
<1>2. \A f \in Files : src'[f] \in OnDisk(f) /\ OnDisk(f)' = {src'[f]}
  BY <1>1 DEF PowerLoss, OnDisk
<1>3. \A t \in Txns : Images(t)' = {jr'[t]}
  BY <1>1 DEF PowerLoss, Images
<1>4. \A q \in Procs : Progress(q)'
  <2>1. \A q \in Procs : run'[q].pc = "idle"
    BY DEF PowerLoss, Idle
  <2> QED  BY <2>1, Leaving
<1>5. \A t, g : After(t, g)' = After(t, g)
  BY <1>1, SameJournal
<1>6. \A t : /\ Original(t) => Original(t)'
             /\ Replaced(t) => Replaced(t)'
             /\ Mixed(t) => Mixed(t)'
  BY <1>1, <1>2, <1>5 DEF Original, Replaced, Mixed
<1>7. ~Nothing.dir
  BY DEF Nothing
<1>8. \/ \E img : /\ \A t \in Txns : /\ img[t] \in Images(t)
                                     /\ jr'[t] = IF img[t].dir THEN img[t] ELSE Nothing
                  /\ anchored' = (anchored \/ \E t \in Txns : img[t].dir)
      \/ ~anchored /\ \A t \in Txns : jr'[t] = Nothing
  BY <1>1 DEF PowerLoss, Images
<1>9. OneJournal' /\ Synced'
  <2>1. \A u \in Txns : jr'[u].dir \/ jr'[u] = Nothing
    BY <1>8
  <2>2. \A u \in Txns \ {last} : jr'[u] = Nothing
    BY <1>8 DEF Outcome, OneJournal
  <2>3. Visible' # {} => anchored'
    BY <1>7, <1>8 DEF Visible
  <2> QED  BY <1>1, <1>3, <2>1, <2>2, <2>3 DEF OneJournal, Synced
<1>10. Durable'
  <2> SUFFICES ASSUME last # NoTxn
               PROVE  /\ Recoverable(jr[last])'
                      /\ anchored' \/ Original(last)' \/ Replaced(last)'
    BY <1>1, <1>3 DEF Durable, Base, RestOK
  <2>1. PICK t \in Txns : t = last /\ last' = t
    BY <1>1 DEF Base, RestOK
  <2>2. /\ \A i \in Images(t) : Recoverable(i)
        /\ anchored \/ Original(t) \/ Replaced(t)
    BY <1>1, <2>1 DEF Outcome, Durable
  <2>3. CASE ~anchored /\ jr'[t] = Nothing
    BY <1>1, <1>6, <1>7, <2>1, <2>2, <2>3 DEF Recoverable
  <2>4. ASSUME NEW i \in Images(t), jr'[t] = IF i.dir THEN i ELSE Nothing,
               anchored => anchored'
        PROVE  /\ Recoverable(jr[last])'
               /\ anchored' \/ Original(last)' \/ Replaced(last)'
    BY <1>1, <1>6, <1>7, <2>1, <2>2, <2>4 DEF Recoverable
  <2> QED  BY <1>8, <2>1, <2>3, <2>4
<1> QED  BY <1>2, <1>4, <1>9, <1>10 DEF Outcome, Settled

-----------------------------------------------------------------------------
(* All of it, or nothing.                                                  *)

\* A step of commit, rollback or recover.
LEMMA StepOutcome ==
    ASSUME Base, Base', Outcome, NEW p \in Procs, Step(p)
    PROVE  Outcome'
BY CheckOutcome, RollbackOutcome, OpenOutcome, PrepareOutcome, PhaseOutcome,
   SourceOutcome, RemovalOutcome DEF Step

\* Before the first transaction there is nothing to recover.
LEMMA OutcomeInit == Init => Outcome
<1> SUFFICES ASSUME Init PROVE Outcome
  OBVIOUS
<1>1. \A p \in Procs : run[p].pc = "idle"
  BY DEF Init, Idle
<1>2. \A p \in Procs : Progress(p)
  BY <1>1 DEF Progress, Working, Untouched, NotComplete, Halfway, Done, Rolling, Resolving,
              Preparing, Restoring, Removing
<1>3. (\A f \in Files : OnDisk(f) = {src[f]}) /\ \A u \in Txns : Images(u) = {Nothing}
  BY DEF Init, OnDisk, Images
<1>4. \A u \in Txns : jr[u] = Nothing /\ ~jr[u].dir
  BY DEF Init, Nothing
<1> QED
  BY <1>2, <1>3, <1>4 DEF Init, Outcome, Durable, OneJournal, Settled, Synced, Visible

LEMMA OutcomeStep ==
    ASSUME Survivable
    PROVE  IInv /\ Outcome /\ [Next]_vars => (IInv /\ Outcome)'
<1> SUFFICES ASSUME IInv, Outcome, [Next]_vars
             PROVE  IInv' /\ Outcome'
  OBVIOUS
<1>1. IInv'
  BY InvStep
<1>2. Base /\ Base'
  BY <1>1, TypeParts DEF IInv, Base, TypeOK, TxnOK, SrcOK, JrOK, RunOK, RestOK, Running
<1>3. ASSUME NEW p \in Procs, NEW c \in Commands, LockWorkspace(p, c)
      PROVE  Outcome'
  BY <1>2, <1>3, OpenOutcome
<1>4. ASSUME NEW p \in Procs, Step(p)
      PROVE  Outcome'
  BY <1>2, <1>4, StepOutcome
<1>5. CASE Environment
  BY <1>1, <1>2, <1>5, SignalOutcome, FailureOutcome, SaveOutcome, PowerOutcome DEF Environment
<1>6. CASE UNCHANGED vars
  BY <1>1, <1>2, <1>6, SignalOutcome
<1> QED  BY <1>1, <1>3, <1>4, <1>5, <1>6 DEF Next

\* A workspace at rest without a prepared journal holds all of the last fix or
\* none of it, whatever failed, was killed or was saved on the way: unless the
\* fsync of the completion fails, a power loss meets a kill or a failing call, or
\* one comes before the entry of .statement-spacing is on disk.
THEOREM NothingInBetween ==
    ASSUME Survivable
    PROVE  Spec => []AllOrNothing
<1>1. IInv /\ Outcome => AllOrNothing
  <2> SUFFICES ASSUME IInv, Outcome, \A p \in Procs : run[p].pc = "idle", last # NoTxn,
                      \A t \in Visible : jr[t].phase # "prepared"
               PROVE  \/ \A f \in Files \ dirty : src[f] = before[last][f]
                      \/ \A f \in Files \ dirty : src[f] = After(last, f)
    BY DEF AllOrNothing
  <2>1. SrcOK /\ JrOK /\ last \in Txns
    BY TypeParts DEF IInv, RestOK
  <2>2. Recoverable(jr[last])
    BY <2>1, Reading DEF Outcome, Durable
  <2>3. Original(last) \/ Replaced(last)
    BY <2>1, <2>2 DEF Recoverable, Visible, JrOK, Image, Phases
  <2> QED  BY <2>1, <2>3, Reading DEF Original, Replaced
<1>2. Init => IInv /\ Outcome
  BY InvInit, OutcomeInit
<1>3. IInv /\ Outcome /\ [Next]_vars => (IInv /\ Outcome)'
  BY OutcomeStep
<1> QED  BY <1>1, <1>2, <1>3, PTL DEF Spec

\* Under the same faults a backup goes only when every source it stands for
\* reads as the end of the transaction wants it.
THEOREM BackupsOutlive ==
    ASSUME Survivable
    PROVE  Spec => []SafeToDelete
<1>1. IInv /\ Outcome => SafeToDelete
  <2> SUFFICES ASSUME IInv, Outcome, NEW p \in Procs, run[p].pc \in Removing,
                      NEW f \in Files \ dirty
               PROVE  src[f] = IF run[p].outcome = "fixed" THEN After(run[p].txn, f)
                                                           ELSE before[run[p].txn][f]
    BY DEF SafeToDelete
  <2>1. Resolving(p) /\ src[f] \in OnDisk(f)
    BY TypeParts, Reading DEF IInv, Outcome, Progress
  <2> QED  BY <2>1 DEF Resolving, Original, Replaced
<1>2. Init => IInv /\ Outcome
  BY InvInit, OutcomeInit
<1>3. IInv /\ Outcome /\ [Next]_vars => (IInv /\ Outcome)'
  BY OutcomeStep
<1> QED  BY <1>1, <1>2, <1>3, PTL DEF Spec

\* When no call fails, no process is killed between a write and its fsync and no
\* power loss comes before the entry of .statement-spacing is on disk, a backup
\* goes only when a power loss cannot ask for it again.
THEOREM SyncedBeforeDelete ==
    ASSUME {"io", "commitSync", "kill"} \cap Env = {},
           "power" \in Env => Rooted
    PROVE  Spec => []DeletesAfterSync
<1>1. Uncut /\ Survivable
  BY DEF Uncut, Survivable
<1>2. IInv /\ Outcome => DeletesAfterSync
  <2> SUFFICES ASSUME IInv, Outcome, NEW p \in Procs, run[p].pc \in Removing
               PROVE  LET t == run[p].txn
                          fixed == run[p].outcome = "fixed" IN
                      /\ \A f \in Files \ dirty :
                            srcD[f] = {IF fixed THEN After(t, f) ELSE before[t][f]}
                      /\ fixed => \A i \in jrD[t] : i.phase # "prepared"
    BY DEF DeletesAfterSync
  <2>1. Resolving(p)
    BY DEF Outcome, Progress
  <2> QED  BY <1>1, <2>1 DEF Resolving, Original, Replaced, OnDisk, Images
<1>3. Init => IInv /\ Outcome
  BY InvInit, OutcomeInit
<1>4. IInv /\ Outcome /\ [Next]_vars => (IInv /\ Outcome)'
  BY <1>1, OutcomeStep
<1> QED  BY <1>2, <1>3, <1>4, PTL DEF Spec
=============================================================================
