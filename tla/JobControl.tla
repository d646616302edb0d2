----------------------------- MODULE JobControl -----------------------------
(***************************************************************************)
(* What job control promises, without processes, signals or a bounded       *)
(* table: a set of jobs with increasing job ids, of which at most one is in *)
(* the foreground, and a shell that is either busy or at its prompt, and at *)
(* its prompt only while no job is in the foreground.                       *)
(***************************************************************************)
EXTENDS Naturals

VARIABLES
    state,      \* state[jid] of every job there is
    next,       \* the job id of the next job
    prompting   \* the shell reads a command line (or has ended)

jcVars == <<state, next, prompting>>

JobIds == DOMAIN state
NoForeground == \A j \in JobIds : state[j] # "FOREGROUND"

Init ==
    /\ state = [j \in {} |-> "BACKGROUND"]
    /\ next = 1
    /\ prompting = TRUE

\* The shell takes up a command line that changes no job.
Begin ==
    /\ prompting
    /\ prompting' = FALSE
    /\ UNCHANGED <<state, next>>

\* The shell prompts again: never over a foreground job.
End ==
    /\ ~prompting
    /\ NoForeground
    /\ prompting' = TRUE
    /\ UNCHANGED <<state, next>>

Launch(s) ==
    /\ ~prompting
    /\ s \in {"FOREGROUND", "BACKGROUND"}
    /\ s = "FOREGROUND" => NoForeground
    /\ state' = [j \in JobIds \union {next} |-> IF j = next THEN s ELSE state[j]]
    /\ next' = next + 1
    /\ UNCHANGED prompting

\* bg and fg: the shell takes up the builtin and gives the job its new state.
Move(j, s) ==
    /\ prompting
    /\ s \in {"FOREGROUND", "BACKGROUND"}
    /\ state' = [state EXCEPT ![j] = s]
    /\ prompting' = FALSE
    /\ UNCHANGED next

\* A job's own progress.  Only the user puts a job in the foreground.
Stop(j) ==
    /\ state' = [state EXCEPT ![j] = "STOPPED"]
    /\ UNCHANGED <<next, prompting>>

Continue(j) ==
    /\ state[j] = "STOPPED"
    /\ state' = [state EXCEPT ![j] = "BACKGROUND"]
    /\ UNCHANGED <<next, prompting>>

Finish(j) ==
    /\ state' = [k \in JobIds \ {j} |-> state[k]]
    /\ UNCHANGED <<next, prompting>>

Next ==
    \/ Begin
    \/ End
    \/ \E s \in {"FOREGROUND", "BACKGROUND"} : Launch(s)
    \/ \E j \in JobIds :
          \/ \E s \in {"FOREGROUND", "BACKGROUND"} : Move(j, s)
          \/ Stop(j) \/ Continue(j) \/ Finish(j)

Spec == Init /\ [][Next]_jcVars
=============================================================================
