------------------------------ MODULE Command ------------------------------
(***************************************************************************)
(* Driver::run of crates/cli/src/cargo.rs on Unix: a command in a process  *)
(* group of its own, whose end races with SIGINT and with the timeout; the *)
(* TERM, the grace period and the KILL that follow; and the commands that  *)
(* one invocation runs one after the other.                                *)
(***************************************************************************)
EXTENDS FiniteSets

CONSTANTS
    Tasks,    \* slots for the processes of the commands
    Child,    \* the slot of the process Driver::run spawns
    Env       \* what else may happen: see EnvKinds

\* "escape": a descendant leaves the process group and keeps the pipes it
\* inherited.  "refuse": kill(2) fails with an error other than ESRCH.
EnvKinds == {"escape", "refuse"}

ASSUME ChildAssumption == Child \in Tasks
ASSUME EnvAssumption == Env \subseteq EnvKinds

VARIABLES
    pc,           \* where Driver::run is
    result,       \* what the last call returned
    interrupted,  \* INTERRUPTED, set by the SIGINT listener, never reset
    task,         \* the processes of this command and of earlier ones
    code,         \* the exit status of the child
    strict,       \* require_success
    sent,         \* signals sent to the process group in this call
    refused       \* those that kill(2) refused

vars == <<pc, result, interrupted, task, code, strict, sent, refused>>

Running == {"select", "term", "grace", "kill", "drain"}
Labels  == {"idle", "spawn", "check", "stopped", "ended"} \cup Running
Results == {"none", "ok", "failed", "timeout", "interrupted"}
Signals == {"TERM", "KILL"}
Codes   == {"zero", "nonzero"}

\* group: in the process group of the current command.  pipe: holds the write
\* end of its stdout or stderr.  stubborn: ignores or handles TERM.
Task == [alive : BOOLEAN, group : BOOLEAN, pipe : BOOLEAN, stubborn : BOOLEAN]
Gone  == [alive |-> FALSE, group |-> FALSE, pipe |-> FALSE, stubborn |-> FALSE]
Fresh == [alive |-> TRUE, group |-> TRUE, pipe |-> TRUE, stubborn |-> FALSE]

Return(r) ==
    /\ result' = r
    /\ pc' = IF r = "ok" THEN "idle" ELSE "ended"

\* Mutant: the flag is not read where a call begins and ends.
CheckInterruptedNever == FALSE
CheckInterrupted == interrupted

-----------------------------------------------------------------------------
(* One call.                                                               *)

\* The workflow runs its next command.
Begin(s) ==
    /\ pc = "idle"
    /\ strict' = s
    /\ \/ /\ CheckInterrupted
          /\ Return("interrupted")
       \/ /\ ~CheckInterrupted
          /\ pc' = "spawn"
          /\ UNCHANGED result
    /\ UNCHANGED <<interrupted, task, code, sent, refused>>

\* What earlier commands left running is in no group that is signalled now.
Spawn ==
    /\ pc = "spawn"
    /\ \/ /\ Return("failed")
          /\ UNCHANGED <<task, code, sent, refused>>
       \/ /\ pc' = "select"
          /\ task' = [t \in Tasks |-> IF t = Child THEN Fresh
                                      ELSE [task[t] EXCEPT !.group = FALSE]]
          /\ code' = "zero"
          /\ sent' = {} /\ refused' = {}
          /\ UNCHANGED result
    /\ UNCHANGED <<interrupted, strict>>

\* join!(child.wait(), stdout.read_to_end(), stderr.read_to_end()) is ready.
Communicated == ~task[Child].alive /\ \A t \in Tasks : ~task[t].pipe

\* select!: the flag is polled every 10 ms, and the runtime learns of the end
\* of the output some time after the kernel, so any ready branch may win.
Cancel ==
    /\ pc = "select" /\ interrupted
    /\ pc' = "term"
    /\ UNCHANGED <<result, interrupted, task, code, strict, sent, refused>>
Finish ==
    /\ pc = "select" /\ Communicated
    /\ pc' = "check"
    /\ UNCHANGED <<result, interrupted, task, code, strict, sent, refused>>
Expire ==
    /\ pc = "select"
    /\ pc' = "term"
    /\ UNCHANGED <<result, interrupted, task, code, strict, sent, refused>>

Members == {t \in Tasks : task[t].group}
\* Mutant: a child that died of a signal has no exit code.
EndWithoutCode(T) ==
    /\ task' = [t \in Tasks |-> IF t \in T THEN Gone ELSE task[t]]
    /\ code' = IF Child \in T THEN "none" ELSE code
\* Whoever the signal kills; for the child's code, status.signal() is negated.
End(T) ==
    /\ task' = [t \in Tasks |-> IF t \in T THEN Gone ELSE task[t]]
    /\ code' = IF Child \in T THEN "nonzero" ELSE code

\* terminate_group: an empty group (ESRCH) is no error.
Terminate(signal, T) ==
    /\ sent' = sent \cup {signal}
    /\ \/ End(T) /\ UNCHANGED refused
       \/ /\ "refuse" \in Env /\ Members # {}
          /\ refused' = refused \cup {signal}
          /\ UNCHANGED <<task, code>>
    /\ UNCHANGED <<result, interrupted, strict>>

SendTerm ==
    /\ pc = "term"
    /\ pc' = "grace"
    /\ Terminate("TERM", {t \in Members : ~task[t].stubborn})

\* Mutant: the status of a terminated command is used after all.
StopInTimeUsesStatus ==
    /\ pc = "grace" /\ Communicated
    /\ pc' = "check"
    /\ UNCHANGED <<result, interrupted, task, code, strict, sent, refused>>
StopInTime ==
    /\ pc = "grace" /\ Communicated
    /\ pc' = "stopped"
    /\ UNCHANGED <<result, interrupted, task, code, strict, sent, refused>>
\* Mutant: the wait that follows TERM has no limit.
GraceOverNever == FALSE /\ UNCHANGED vars
GraceOver ==
    /\ pc = "grace"
    /\ pc' = "kill"
    /\ UNCHANGED <<result, interrupted, task, code, strict, sent, refused>>

\* Mutant: KILL goes to the child alone.
SendKillToChild ==
    /\ pc = "kill"
    /\ pc' = "drain"
    /\ Terminate("KILL", {Child})
SendKill ==
    /\ pc = "kill"
    /\ pc' = "drain"
    /\ Terminate("KILL", Members)

\* Mutant: the pipes are not drained after KILL.
DrainSkipped ==
    /\ pc = "drain"
    /\ pc' = "stopped"
    /\ UNCHANGED <<result, interrupted, task, code, strict, sent, refused>>
\* No timeout guards this wait.
Drain ==
    /\ pc = "drain" /\ Communicated
    /\ \/ /\ "KILL" \in refused
          /\ Return("failed")
       \/ /\ "KILL" \notin refused
          /\ pc' = "stopped"
          /\ UNCHANGED result
    /\ UNCHANGED <<interrupted, task, code, strict, sent, refused>>

\* What the terminated command has returned is thrown away.
Stopped ==
    /\ pc = "stopped"
    /\ \/ interrupted /\ Return("interrupted")
       \/ ~interrupted /\ "TERM" \in refused /\ Return("failed")
       \/ ~interrupted /\ "TERM" \notin refused /\ Return("timeout")
    /\ UNCHANGED <<interrupted, task, code, strict, sent, refused>>

CheckStatus ==
    /\ pc = "check"
    /\ \/ strict /\ code # "zero" /\ Return("failed")
       \/ ~(strict /\ code # "zero") /\ CheckInterrupted /\ Return("interrupted")
       \/ ~(strict /\ code # "zero") /\ ~CheckInterrupted /\ Return("ok")
    /\ UNCHANGED <<interrupted, task, code, strict, sent, refused>>

-----------------------------------------------------------------------------
(* The processes of the command, and the person at the terminal.           *)

Live(t) ==
    /\ task[t].alive
    /\ UNCHANGED <<pc, result, interrupted, strict, sent, refused>>

Exit(t) ==
    /\ Live(t)
    /\ task' = [task EXCEPT ![t] = Gone]
    /\ IF t = Child THEN code' \in Codes ELSE UNCHANGED code
Fork(t, u) ==
    /\ Live(t)
    /\ u # Child /\ ~task[u].alive
    /\ task' = [task EXCEPT ![u] = task[t]]
    /\ UNCHANGED code
ClosePipes(t) ==
    /\ Live(t)
    /\ task' = [task EXCEPT ![t].pipe = FALSE]
    /\ UNCHANGED code
IgnoreTerm(t) ==
    /\ Live(t)
    /\ task' = [task EXCEPT ![t].stubborn = TRUE]
    /\ UNCHANGED code
\* setsid(2); the leader of a group cannot.
Escape(t) ==
    /\ Live(t)
    /\ "escape" \in Env /\ t # Child
    /\ task' = [task EXCEPT ![t].group = FALSE]
    /\ UNCHANGED code

\* The command's own group does not receive the terminal's SIGINT.
Interrupt ==
    /\ ~interrupted /\ interrupted' = TRUE
    /\ UNCHANGED <<pc, result, task, code, strict, sent, refused>>

-----------------------------------------------------------------------------
Init ==
    /\ pc = "idle" /\ result = "none"
    /\ interrupted = FALSE
    /\ task = [t \in Tasks |-> Gone]
    /\ code = "zero" /\ strict = TRUE
    /\ sent = {} /\ refused = {}

Runner ==
    \/ \E s \in BOOLEAN : Begin(s)
    \/ Spawn \/ Cancel \/ Finish \/ Expire
    \/ SendTerm \/ StopInTime \/ GraceOver \/ SendKill \/ Drain \/ Stopped
    \/ CheckStatus

Processes ==
    \E t \in Tasks :
        \/ Exit(t) \/ ClosePipes(t) \/ IgnoreTerm(t) \/ Escape(t)
        \/ \E u \in Tasks : Fork(t, u)

Next == Runner \/ Processes \/ Interrupt

\* The runtime polls its futures and its timers fire; a command may run, fork
\* and wait for ever.
Spec == Init /\ [][Next]_vars /\ WF_vars(Runner)

-----------------------------------------------------------------------------
TypeOK ==
    /\ pc \in Labels /\ result \in Results
    /\ interrupted \in BOOLEAN
    /\ task \in [Tasks -> Task]
    /\ code \in Codes /\ strict \in BOOLEAN
    /\ sent \in SUBSET Signals /\ refused \in SUBSET sent

\* "Reap the child and drain both pipes" (run): whichever way a call ends, the
\* child is gone and nobody is left who could still write to its output.
OutputComplete == pc \notin Running => Communicated

\* The output of a command that was signalled is never taken for a result,
\* even if it still ended well within the grace period.
OkMeansUndisturbed ==
    (pc = "check" \/ (pc \in {"idle", "spawn"} /\ result = "ok")) => sent = {}

\* After a KILL that was not refused the whole group is gone, also those of its
\* members that had closed their pipes and ignored TERM.
KillIsFinal ==
    pc \in {"drain", "stopped", "ended"} /\ "KILL" \in sent \ refused => Members = {}

\* What can keep a call waiting: a process outside the group that holds a pipe,
\* or a KILL that was refused.
Held == "KILL" \in refused \/ \E t \in Tasks : task[t].pipe /\ ~task[t].group

\* Every call ends, unless it is held for ever: commands that run for ever, that ignore
\* TERM or that leave their pipes to descendants are stopped.
CallReturns == []<>~Held => (pc = "select" ~> pc \in {"idle", "ended"})

\* Once SIGINT is recorded the invocation ends; it does not go on for ever with
\* commands that end before anyone looks at the flag.
InterruptStops == []<>~Held => (interrupted ~> pc = "ended")

\* "Per-command timeout in seconds" (main.rs, --timeout) and "drain both pipes,
\* including inherited descendant pipes" (run): the timeout bounds every call.
TimeoutBounds == pc = "select" ~> pc \in {"idle", "ended"}
=============================================================================
