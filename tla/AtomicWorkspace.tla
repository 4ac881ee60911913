-------------------------- MODULE AtomicWorkspace --------------------------
(***************************************************************************)
(* What a fix promises to the person at the editor: the workspace is a set *)
(* of files, an editor saves one of them, and a fix lays out all the files *)
(* that it started from in one step, or none of them.                      *)
(***************************************************************************)
CONSTANTS
    Files, Contents,
    Fix,       \* content -> what a fix may make of it
    Saves

VARIABLES
    content,   \* what the workspace holds, once an open journal is resolved
    user,      \* the editor's last save of each file
    dirty,     \* the files saved since the last fix began
    active     \* a fix has begun and may still take effect

vars == <<content, user, dirty, active>>

Init ==
    /\ content \in [Files -> Saves]
    /\ user = content
    /\ dirty = {}
    /\ active = FALSE

\* The editor saves c. While a fix is in flight or waits for recover, a save of
\* exactly what the fix writes may be taken for its own work and be undone with
\* it: what then counts is the text that it started from.
Save(f, c) ==
    /\ user' = [user EXCEPT ![f] = c]
    /\ dirty' = dirty \cup {f}
    /\ \/ content' = [content EXCEPT ![f] = c]
       \/ \E x \in Contents : c \in Fix[x] /\ content' = [content EXCEPT ![f] = x]
    /\ UNCHANGED active

\* Whether it is depends on how far the fix has come: the layout of such a
\* save, and nothing else, may be undone and come back.
Respace ==
    /\ content' \in [Files -> Contents]
    /\ \A f \in Files :
          \/ content'[f] = content[f]
          \/ f \in dirty /\ user[f] \in Fix[user[f]] /\ user[f] \in Fix[content'[f]]
    /\ UNCHANGED <<user, dirty, active>>

Begin ==
    /\ ~active /\ active' = TRUE
    /\ dirty' = {}
    /\ UNCHANGED <<content, user>>

\* All at once; only a file saved in the meantime may be left as it is.
Commit ==
    /\ active /\ active' = FALSE
    /\ content' \in [Files -> Contents]
    /\ \A f \in Files :
          \/ content'[f] \in Fix[content[f]]
          \/ f \in dirty /\ content'[f] = content[f]
    /\ UNCHANGED <<user, dirty>>

Abandon ==
    /\ active /\ active' = FALSE
    /\ UNCHANGED <<content, user, dirty>>

Next ==
    \/ \E f \in Files, c \in Saves : Save(f, c)
    \/ Respace \/ Begin \/ Commit \/ Abandon

Spec == Init /\ [][Next]_vars
=============================================================================
