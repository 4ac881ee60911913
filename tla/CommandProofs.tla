--------------------------- MODULE CommandProofs ---------------------------
(***************************************************************************)
(* Safety of Driver::run for every number of processes a command may fork, *)
(* with descendants that escape and signals that are refused.              *)
(***************************************************************************)
EXTENDS Command, TLAPS

\* The records a slot can hold.
LEMMA Slots ==
    /\ Gone \in Task /\ Fresh \in Task
    /\ \A x \in Task : /\ [x EXCEPT !.group = FALSE] \in Task
                       /\ [x EXCEPT !.pipe = FALSE] \in Task
                       /\ [x EXCEPT !.stubborn = TRUE] \in Task
BY DEF Gone, Fresh, Task

\* The type invariant is inductive by itself.
THEOREM TypeCorrect == Spec => []TypeOK
<1>1. Init => TypeOK
  BY Slots DEF Init, TypeOK, Labels, Results, Codes
<1>2. TypeOK /\ [Next]_vars => TypeOK'
  <2> SUFFICES ASSUME TypeOK, [Next]_vars
               PROVE  TypeOK'
    OBVIOUS
  <2> USE DEF TypeOK, Labels, Running, Results
  <2>1. ASSUME NEW s \in BOOLEAN, Begin(s)
        PROVE  TypeOK'
    BY <2>1 DEF Begin, Return
  <2>2. CASE Spawn
    <3>1. task' \in [Tasks -> Task]
      BY <2>2, Slots DEF Spawn
    <3> QED  BY <2>2, <3>1 DEF Spawn, Return, Codes
  <2>3. ASSUME \/ Cancel \/ Finish \/ Expire \/ StopInTime \/ GraceOver
               \/ Drain \/ Stopped \/ CheckStatus
        PROVE  TypeOK'
    BY <2>3 DEF Cancel, Finish, Expire, StopInTime, GraceOver, Drain, Stopped,
                CheckStatus, Return
  <2>4. ASSUME NEW signal \in Signals, NEW T \in SUBSET Tasks, Terminate(signal, T),
               pc' \in Labels
        PROVE  TypeOK'
    <3>1. task' \in [Tasks -> Task]
      BY <2>4, Slots DEF Terminate, End
    <3> QED  BY <2>4, <3>1 DEF Terminate, End, Codes
  <2>5. CASE SendTerm
    BY <2>4, <2>5 DEF SendTerm, Signals, Members
  <2>6. CASE SendKill
    BY <2>4, <2>6 DEF SendKill, Signals, Members
  <2>7. ASSUME NEW t \in Tasks,
               \/ Exit(t) \/ ClosePipes(t) \/ IgnoreTerm(t) \/ Escape(t)
               \/ \E u \in Tasks : Fork(t, u)
        PROVE  TypeOK'
    <3>1. task' \in [Tasks -> Task]
      BY <2>7, Slots DEF Exit, ClosePipes, IgnoreTerm, Escape, Fork
    <3> QED
      BY <2>7, <3>1 DEF Exit, ClosePipes, IgnoreTerm, Escape, Fork, Live, Codes
  <2>8. CASE Interrupt
    BY <2>8 DEF Interrupt
  <2>9. CASE UNCHANGED vars
    BY <2>9 DEF vars
  <2> QED
    BY <2>1, <2>2, <2>3, <2>5, <2>6, <2>7, <2>8, <2>9 DEF Next, Runner, Processes
<1> QED  BY <1>1, <1>2, PTL DEF Spec

-----------------------------------------------------------------------------
(* The inductive invariant.                                                *)

\* A slot that is not alive is blank, so it holds no pipe and is in no group;
\* this is what makes the forks of the next step the only new holders.
Blank == \A t \in Tasks : ~task[t].alive => task[t] = Gone

\* In a call that was not signalled, no signal has been sent; where the group
\* has been killed, it is empty, and stays so because only members can fork
\* new members.
Sent ==
    /\ pc \in {"select", "check", "term"} => sent = {}
    /\ pc \in {"idle", "spawn"} => sent = {}
    /\ "KILL" \in sent => pc \in {"drain", "stopped", "ended"}
    /\ "KILL" \in sent \ refused => Members = {}

CallInv == TypeOK /\ Blank /\ OutputComplete /\ Sent

\* Every step of a call and of its processes keeps the invariant.
LEMMA CallStep == CallInv /\ [Next]_vars /\ TypeOK' => CallInv'
<1> SUFFICES ASSUME CallInv, [Next]_vars, TypeOK'
             PROVE  Blank' /\ OutputComplete' /\ Sent'
  BY DEF CallInv
<1> USE DEF CallInv
<1>1. ASSUME NEW s \in BOOLEAN, Begin(s)
      PROVE  Blank' /\ OutputComplete' /\ Sent'
  BY <1>1 DEF Begin, Return, Blank, OutputComplete, Communicated, Sent, Members, Running
<1>2. CASE Spawn
  <2>1. Blank'
    BY <1>2 DEF Spawn, Blank, TypeOK, Task, Fresh, Gone
  <2>2. OutputComplete'
    BY <1>2 DEF Spawn, Return, OutputComplete, Communicated, Running
  <2>3. Sent'
    BY <1>2 DEF Spawn, Return, Sent, Members
  <2> QED  BY <2>1, <2>2, <2>3
<1>3. ASSUME \/ Cancel \/ Finish \/ Expire \/ StopInTime \/ GraceOver
             \/ Drain \/ Stopped \/ CheckStatus
      PROVE  Blank' /\ OutputComplete' /\ Sent'
  <2>1. UNCHANGED <<task, sent, refused>>
    BY <1>3 DEF Cancel, Finish, Expire, StopInTime, GraceOver, Drain, Stopped, CheckStatus
  <2>2. Blank'
    BY <2>1 DEF Blank
  <2>3. OutputComplete'
    BY <1>3, <2>1 DEF Cancel, Finish, Expire, StopInTime, GraceOver, Drain, Stopped,
       CheckStatus, Return, OutputComplete, Communicated, Running
  <2>4. Sent'
    BY <1>3, <2>1 DEF Cancel, Finish, Expire, StopInTime, GraceOver, Drain, Stopped,
       CheckStatus, Return, Sent, Members
  <2> QED  BY <2>2, <2>3, <2>4
<1>4. ASSUME NEW signal, NEW T, Terminate(signal, T)
      PROVE  Blank'
  BY <1>4 DEF Terminate, End, Blank, Gone
<1>5. CASE SendTerm
  <2>1. pc = "term" /\ pc' = "grace" /\ sent = {} /\ sent' = {"TERM"}
    BY <1>5 DEF SendTerm, Terminate, Sent
  <2>2. OutputComplete' /\ Sent'
    BY <2>1 DEF OutputComplete, Sent, Running
  <2> QED  BY <1>4, <1>5, <2>2 DEF SendTerm
<1>6. CASE SendKill
  <2>1. pc' = "drain" /\ "KILL" \notin sent
    BY <1>6 DEF SendKill, Sent
  <2>2. ASSUME "KILL" \in refused'
        PROVE  OutputComplete' /\ Sent'
    BY <1>6, <2>1, <2>2 DEF OutputComplete, Sent, Running
  <2>3. ASSUME "KILL" \notin refused'
        PROVE  OutputComplete' /\ Sent'
    <3>1. End(Members)
      BY <1>6, <2>3 DEF SendKill, Terminate
    <3>2. Members' = {}
      BY <3>1 DEF End, Members, TypeOK, Gone
    <3> QED  BY <2>1, <3>2 DEF OutputComplete, Sent, Running
  <2> QED  BY <1>4, <1>6, <2>2, <2>3 DEF SendKill
<1>7. ASSUME NEW t \in Tasks,
             \/ Exit(t) \/ ClosePipes(t) \/ IgnoreTerm(t) \/ Escape(t)
             \/ \E u \in Tasks : Fork(t, u)
      PROVE  Blank' /\ OutputComplete' /\ Sent'
  <2>1. /\ UNCHANGED <<pc, sent, refused>>
        /\ task[t].alive
    BY <1>7 DEF Exit, ClosePipes, IgnoreTerm, Escape, Fork, Live
  <2>2. \A u \in Tasks :
           \/ task'[u] = task[u] \/ task'[u] = Gone
           \/ /\ task'[u].alive
              /\ task'[u].pipe => task[t].pipe
              /\ task'[u].group => task[t].group
              /\ u = Child => task[Child].alive
    BY <1>7, <2>1 DEF Exit, ClosePipes, IgnoreTerm, Escape, Fork, Live, TypeOK, Task
  <2>3. Blank'
    BY <2>2 DEF Blank, Gone
  <2>4. OutputComplete'
    BY <2>1, <2>2, ChildAssumption DEF OutputComplete, Communicated, Gone
  <2>5. Members = {} => Members' = {}
    BY <2>2 DEF Members, Gone
  <2> QED  BY <2>1, <2>3, <2>4, <2>5 DEF Sent
<1>8. CASE Interrupt \/ UNCHANGED vars
  BY <1>8 DEF Interrupt, vars, Blank, OutputComplete, Communicated, Sent, Members
<1> QED
  BY <1>1, <1>2, <1>3, <1>5, <1>6, <1>7, <1>8 DEF Next, Runner, Processes

\* No process of this command or an earlier one is alive at the start.
LEMMA CallInit == Init => CallInv
<1> SUFFICES ASSUME Init
             PROVE  CallInv
  OBVIOUS
<1>1. TypeOK
  BY Slots DEF Init, TypeOK, Labels, Results, Codes
<1>2. Blank /\ OutputComplete /\ Sent
  BY ChildAssumption
     DEF Init, Gone, Blank, OutputComplete, Communicated, Sent, Members
<1> QED  BY <1>1, <1>2 DEF CallInv

\* Whichever way a call ends - by itself, by the timeout, by SIGINT, after TERM
\* or after KILL - nobody is left who could write to its output.
THEOREM OutputIsComplete == Spec => []OutputComplete
<1>1. Init => CallInv
  BY CallInit
<1>2. CallInv /\ [Next]_vars /\ TypeOK' => CallInv'
  BY CallStep
<1>3. CallInv => OutputComplete
  BY DEF CallInv
<1> QED  BY <1>1, <1>2, <1>3, TypeCorrect, PTL DEF Spec

\* A command that was signalled never passes for one that succeeded.
THEOREM OkIsUndisturbed == Spec => []OkMeansUndisturbed
<1>1. CallInv => OkMeansUndisturbed
  BY DEF CallInv, Sent, OkMeansUndisturbed
<1> QED  BY <1>1, CallInit, CallStep, TypeCorrect, PTL DEF Spec

\* After a KILL the process group is empty, and no late fork refills it.
THEOREM KilledGroupIsGone == Spec => []KillIsFinal
<1>1. CallInv => KillIsFinal
  BY DEF CallInv, Sent, KillIsFinal
<1> QED  BY <1>1, CallInit, CallStep, TypeCorrect, PTL DEF Spec
=============================================================================
