----------------------- MODULE TransactionProperties -----------------------
(***************************************************************************)
(* What Transaction promises: the invariants of commit, rollback and       *)
(* recover, the end of every run, and the atomic workspace they implement. *)
(***************************************************************************)
EXTENDS Transaction

\* A journal directory never holds a backup of a file its entries do not list,
\* and preparation, replacement and rollback loop over listed files alone.
Looping == Preparing \cup {"check", "rename", "sync"} \cup Restoring
Listed ==
    /\ \A t \in Txns : \A i \in jrD[t] : i.backups \subseteq Changed(t)
    /\ \A p \in Procs :
          run[p].pc \in Looping => run[p].todo \subseteq Changed(run[p].txn)

\* The variables range over the values the code gives them, journals and loops
\* over the files commit lists; a power loss can always leave what is read now.
TypeOK ==
    /\ src \in [Files -> Contents] /\ user \in [Files -> Contents]
    /\ srcD \in [Files -> SUBSET Contents]
    /\ jr \in [Txns -> Image] /\ jrD \in [Txns -> SUBSET Image]
    /\ \A f \in Files : src[f] \in srcD[f]
    /\ \A t \in Txns : jr[t] \in jrD[t]
    /\ anchored \in BOOLEAN
    /\ lock \in Procs \cup {NoProc}
    /\ run \in [Procs -> [pc : Labels, cmd : Commands, txn : Txns \cup {NoTxn},
                          todo : SUBSET Files, conflicts : SUBSET Files,
                          interrupted : BOOLEAN, outcome : Outcomes]]
    /\ before \in [Txns -> [Files -> Contents]]
    /\ dirty \in SUBSET Files /\ last \in Txns \cup {NoTxn}
    /\ saves \in 0..MaxSaves /\ faults \in 0..MaxFaults
    /\ Listed

\* At most one process works on the workspace, and it holds the lock.
OneAtATime == \A p \in Procs : run[p].pc # "idle" <=> lock = p

\* "Persist every backup and the prepared journal before replacing any source"
\* (commit): from the first replacement to the last restored file, whatever a
\* power loss leaves of the journal directory is a journal recover can use, and
\* the path to it is on disk if the entry of .statement-spacing is.
WriteAhead ==
    \A p \in Procs :
        /\ run[p].cmd = "fix"
        /\ run[p].pc \in Replacing \cup Restoring
        => /\ Rooted => anchored
           /\ \A i \in jrD[run[p].txn] :
                /\ i.dir /\ i.backups = Changed(run[p].txn)
                /\ i.phase # "none"
                /\ run[p].pc \in Replacing \ {"completeSync"} => i.phase = "prepared"

\* Whatever fails, is killed or is saved in between, a source file holds the
\* editor's last save up to statement spacing: no save is overwritten.
OnlySpacing == \A f \in Files : Fix[src[f]] = Fix[user[f]]

\* At rest and with nothing for recover to roll back, the files of the last
\* transaction that the editor left alone are all original or all fixed.
AllOrNothing ==
    /\ \A p \in Procs : run[p].pc = "idle"
    /\ last # NoTxn
    /\ \A t \in Visible : jr[t].phase # "prepared"
    => \/ \A f \in Files \ dirty : src[f] = before[last][f]
       \/ \A f \in Files \ dirty : src[f] = After(last, f)

\* Backups are deleted only when no longer needed: a failed or recovered
\* transaction has every original back, a fixed one every fixed content.
SafeToDelete ==
    \A p \in Procs : run[p].pc \in Removing =>
        LET t == run[p].txn IN
        \A f \in Files \ dirty :
            src[f] = IF run[p].outcome = "fixed" THEN After(t, f) ELSE before[t][f]

\* The same of what a power loss can leave behind, and a fixed transaction
\* leaves no image that asks for a rollback.
DeletesAfterSync ==
    \A p \in Procs : run[p].pc \in Removing =>
        LET t == run[p].txn
            fixed == run[p].outcome = "fixed" IN
        /\ \A f \in Files \ dirty :
              srcD[f] = {IF fixed THEN After(t, f) ELSE before[t][f]}
        /\ fixed => \A i \in jrD[t] : i.phase # "prepared"

\* A run of the tool whose cargo commands return ends, whatever is saved, fails
\* or is killed meanwhile, and frees the lock.  That they return is a premise:
\* Driver::run may wait for the pipes of a command for ever.
Terminates ==
    (\A p \in Procs : []<>~InCargo(p)) => \A p \in Procs : lock = p ~> lock # p

\* "unfinished transaction found; run cargo statement-spacing recover first"
\* (workflow): the rollback of a prepared journal fails for nothing but a file
\* the editor has saved since, or a failing call.
RecoverResolves ==
    [][\A p \in Procs :
          /\ run[p].cmd = "recover" /\ run[p].pc = "restore"
          /\ run'[p].pc = "idle" /\ faults' = faults
          => run[p].conflicts # {}]_vars

\* The workspace as it will be once recover has resolved a prepared journal.
Resolved ==
    [f \in Files |->
        LET undone == {t \in Visible : /\ jr[t].phase = "prepared"
                                       /\ f \in Changed(t) /\ src[f] = After(t, f)}
        IN  IF undone = {} THEN src[f] ELSE before[CHOOSE t \in undone : TRUE][f]]

InFlight == \E p \in Procs : /\ run[p].cmd = "fix" /\ run[p].outcome = "none"
                             /\ run[p].pc \in (Opening \cup Preparing \cup Replacing)
                                              \ {"open", "completeSync"}

Atomic == INSTANCE AtomicWorkspace WITH
    content <- Resolved, active <- InFlight, Fix <- [c \in Contents |-> {Fix[c]}]

\* A fix takes effect in one step, the rename of the complete journal, or not
\* at all: commit, rollback and recover implement the atomic workspace.
ImplementsAtomic == Atomic!Spec
=============================================================================
