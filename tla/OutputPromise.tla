--------------------------- MODULE OutputPromise ---------------------------
(***************************************************************************)
(* What a wait promises the user of the command line, whatever becomes of  *)
(* hub, connections and worker in between: it only ever appends to stdout, *)
(* chunk after later chunk but for one whose sender had no answer, until   *)
(* it answers; it answers once, and never with a verdict the job does not  *)
(* have.  The exit code 0 of a streaming wait also says that there was     *)
(* output, that stdout took all of it and, unless a server process took    *)
(* the numbering with it, that no chunk is missing between two of them.    *)
(* Stream implements it.                                                   *)
(***************************************************************************)
EXTENDS Integers, Sequences

CONSTANT Modes

VARIABLES
    job,        \* the verdict, "running" until there is one
    lossy,      \* a server process has died with the numbering
    unanswered, \* chunks whose sender was not told of their fate
    mode,       \* what the wait is for
    written,    \* the chunks written to stdout
    refused,    \* stdout has not taken a chunk
    answer      \* what the wait returned, "none" until then

vars == <<job, lossy, unanswered, mode, written, refused, answer>>

Later(a, b) == a.attempt < b.attempt \/ (a.attempt = b.attempt /\ a.n < b.n)

InOrder(s) ==
    \A i, k \in 1..Len(s) :
        i < k => s[i] # s[k] /\ (Later(s[i], s[k]) \/ s[k] \in unanswered)

\* Of the attempt of a chunk nothing is missing between it and an earlier one.
Whole(s) ==
    \A i, k \in 1..Len(s) :
        (i < k /\ {s[i], s[k]} \cap unanswered = {})
        => \A n \in 1..(s[k].n - 1) :
              LET c == [attempt |-> s[k].attempt, n |-> n] IN
              Later(s[i], c) => c \in unanswered \/ \E m \in (i + 1)..(k - 1) : s[m] = c

Init ==
    /\ job = "running" /\ lossy = FALSE /\ unanswered = {}
    /\ mode \in Modes
    /\ written = <<>> /\ refused = FALSE /\ answer = "none"

Settle ==
    /\ job = "running"
    /\ job' \in {"completed", "failed"}
    /\ UNCHANGED <<lossy, unanswered, mode, written, refused, answer>>

Lose ==
    /\ lossy' = TRUE /\ unanswered \subseteq unanswered'
    /\ UNCHANGED <<job, mode, written, refused, answer>>

GoUnanswered ==
    /\ unanswered \subseteq unanswered'
    /\ UNCHANGED <<job, lossy, mode, written, refused, answer>>

Write ==
    /\ answer = "none"
    /\ Len(written') = Len(written) + 1
    /\ \A i \in 1..Len(written) : written'[i] = written[i]
    /\ InOrder(written')
    /\ UNCHANGED <<job, lossy, unanswered, mode, refused, answer>>

Refuse ==
    /\ answer = "none" /\ refused' = TRUE
    /\ UNCHANGED <<job, lossy, unanswered, mode, written, answer>>

\* The answers a wait may give now: it may always give up, and a streaming one
\* may find its output short whatever became of the job.
Due(a) ==
    \/ a \in {"exhausted", "error", "deadline"}
    \/ a = "failed" /\ job = "failed"
    \/ a = "incomplete" /\ mode = "stream"
    \/ a = "unwritten" /\ mode = "stream" /\ refused
    \/ a = "empty" /\ job = "completed" /\ mode = "stream" /\ written = <<>>
    \/ /\ a = "success" /\ job = "completed"
       /\ mode = "stream" => written # <<>> /\ ~refused /\ (lossy \/ Whole(written))

Answer(a) ==
    /\ answer = "none" /\ Due(a)
    /\ answer' = a
    /\ UNCHANGED <<job, lossy, unanswered, mode, written, refused>>

Next ==
    \/ Settle \/ Lose \/ GoUnanswered \/ Write \/ Refuse
    \/ \E a \in {"success", "failed", "incomplete", "unwritten", "empty",
               "exhausted", "error", "deadline"} : Answer(a)

Spec == Init /\ [][Next]_vars
=============================================================================
