----------------------------- MODULE HarnessRun -----------------------------
(* One headless run of a harness CLI: the process, what it leaves in its    *)
(* group or outside of it, the threads that feed and drain its pipes, the   *)
(* wait, the kill of the group, the joins, and what the parser of the       *)
(* harness makes of the lines kept.  Lines are told apart by what they      *)
(* announce: an answer, another model, or a failure in the words of a       *)
(* limit, a refused credential or a transient fault.                        *)
EXTENDS Naturals, Sequences, FiniteSets, SequencesExt

CONSTANTS
    Harnesses,    \* those of "claude", "codex", "pi" it may be
    Lines,        \* what the processes may write: [kind, says]
    PipeSize,     \* lines a pipe holds before its writer blocks
    MaxRetained,  \* lines of the tail that is kept (MAX_RETAINED)
    RunLimits     \* bounds: lines written, processes left behind

VARIABLES
    harness, payload,   \* the CLI, and whether it gets its prompt on stdin
    tree,         \* [leader, rc, group: a descendant lives, stray: one in a session of its own]
    pipe,         \* lines written and not read
    stdin,        \* "none", "writing", "done": the thread that writes the payload
    tail,         \* what the draining thread kept
    collecting,   \* [at, drained, timedOut]
    outcome, limitsLeft

runVars == <<harness, payload, tree, pipe, stdin, tail, collecting, outcome, limitsLeft>>

NoTree   == [leader |-> FALSE, rc |-> 0, group |-> FALSE, stray |-> FALSE]
Alive(t) == t.leader \/ t.group \/ t.stray
Uses1(kind) == limitsLeft[kind] > 0 /\ limitsLeft' = [limitsLeft EXCEPT ![kind] = @ - 1]

RunInit ==
    /\ harness \in Harnesses /\ payload \in BOOLEAN
    /\ tree = NoTree /\ pipe = <<>> /\ stdin = "none" /\ tail = <<>>
    /\ collecting = [at |-> "new", drained |-> FALSE, timedOut |-> FALSE]
    /\ outcome = "none"
    /\ limitsLeft \in RunLimits
-----------------------------------------------------------------------------
\* The processes (external): they write, start others, read stdin or not, and end.
Writes(line) ==
    /\ Alive(tree) /\ Len(pipe) < PipeSize /\ Uses1("lines")
    /\ pipe' = Append(pipe, line)
    /\ UNCHANGED <<harness, payload, tree, stdin, tail, collecting, outcome>>

LeavesBehind(where) ==
    /\ tree.leader /\ Uses1("left")
    /\ tree' = [tree EXCEPT ![where] = TRUE]
    /\ UNCHANGED <<harness, payload, pipe, stdin, tail, collecting, outcome>>

ReadsPrompt ==
    /\ tree.leader /\ stdin = "writing"
    /\ stdin' = "done"
    /\ UNCHANGED <<harness, payload, tree, pipe, tail, collecting, outcome, limitsLeft>>

LeaderEnds(rc) ==
    /\ tree.leader
    /\ tree' = [tree EXCEPT !.leader = FALSE, !.rc = rc]
    /\ UNCHANGED <<harness, payload, pipe, stdin, tail, collecting, outcome, limitsLeft>>

LeftOneEnds(where) ==
    /\ tree[where]
    /\ tree' = [tree EXCEPT ![where] = FALSE]
    /\ UNCHANGED <<harness, payload, pipe, stdin, tail, collecting, outcome, limitsLeft>>
-----------------------------------------------------------------------------
\* A run with no credential fails before there is a process.
Refused ==
    /\ collecting.at = "new"
    /\ collecting' = [collecting EXCEPT !.at = "ended"] /\ outcome' = "refused"
    /\ UNCHANGED <<harness, payload, tree, pipe, stdin, tail, limitsLeft>>

Spawn ==
    /\ collecting.at = "new"
    /\ tree' = [NoTree EXCEPT !.leader = TRUE]
    /\ stdin' = IF payload THEN "writing" ELSE "done"
    /\ collecting' = [collecting EXCEPT !.at = "wait"]
    /\ UNCHANGED <<harness, payload, pipe, tail, outcome, limitsLeft>>

\* The writer's pipe breaks when nobody holds its other end.
WriterBreaks ==
    /\ stdin = "writing" /\ ~Alive(tree)
    /\ stdin' = "done"
    /\ UNCHANGED <<harness, payload, tree, pipe, tail, collecting, outcome, limitsLeft>>

\* A line: the tail drops its oldest.  (The first session it names is recorded for the job.)
Kept(lines) == IF Len(lines) > MaxRetained THEN Tail(lines) ELSE lines

Drain ==
    /\ pipe # <<>> /\ ~collecting.drained
    /\ pipe' = Tail(pipe) /\ tail' = Kept(Append(tail, Head(pipe)))
    /\ UNCHANGED <<harness, payload, tree, stdin, collecting, outcome, limitsLeft>>

DrainEnds ==
    /\ pipe = <<>> /\ ~Alive(tree) /\ collecting.at # "new" /\ ~collecting.drained
    /\ collecting' = [collecting EXCEPT !.drained = TRUE]
    /\ UNCHANGED <<harness, payload, tree, pipe, stdin, tail, outcome, limitsLeft>>

\* proc.wait: the leader has ended, or the time of the job is over.
Waited(timedOut) ==
    /\ collecting.at = "wait" /\ (~tree.leader \/ timedOut)
    /\ collecting' = [collecting EXCEPT !.at = "kill", !.timedOut = timedOut]
    /\ UNCHANGED <<harness, payload, tree, pipe, stdin, tail, outcome, limitsLeft>>

\* The group goes, the leader with it; what left the group stays.
SparesAfterExit(t) == IF t.leader THEN [t EXCEPT !.leader = FALSE, !.rc = 1, !.group = FALSE] ELSE t
GroupKilled(t)     == [t EXCEPT !.leader = FALSE, !.rc = IF t.leader THEN 1 ELSE @, !.group = FALSE]

Kill ==
    /\ collecting.at = "kill"
    /\ tree' = GroupKilled(tree)
    /\ collecting' = [collecting EXCEPT !.at = "join"]
    /\ UNCHANGED <<harness, payload, pipe, stdin, tail, outcome, limitsLeft>>

\* Each thread is joined for five seconds, whether it ended or not: a stray process may keep it.
ThreadsEnded == collecting.drained /\ stdin = "done"
JoinsAreOver == TRUE
-----------------------------------------------------------------------------
\* What the parsers make of the lines: claude and pi of the first failure, codex of any.
Failures(lines) == SelectSeq(lines, LAMBDA l : l.kind = "failure")
FirstOf(words, order) == IF \E i \in DOMAIN order : order[i] \in words
                         THEN order[CHOOSE i \in DOMAIN order : order[i] \in words /\
                                        \A j \in 1..(i - 1) : order[j] \notin words]
                         ELSE "error"

ClaudeParses(lines) == IF Failures(lines) = <<>> THEN "ok"
                       ELSE FirstOf(Head(Failures(lines)).says, <<"auth", "limit", "transient">>)
\* pi must have answered, and with the model that was asked for.
Identified(lines)   == IF \A i \in DOMAIN lines : lines[i].kind = "failure" THEN "error"
                       ELSE IF \E i \in DOMAIN lines : lines[i].kind = "other model" THEN "model" ELSE "ok"
PiParses(lines)     == IF Failures(lines) # <<>>
                       THEN FirstOf(Head(Failures(lines)).says, <<"limit", "auth", "transient">>)
                       ELSE Identified(lines)
CodexParses(lines)  == LET words == UNION {l.says : l \in ToSet(Failures(lines))}
                           sort  == FirstOf(words, <<"auth", "transient", "limit">>)
                       IN  IF sort = "error" THEN "ok" ELSE sort
Parsed(lines) == CASE harness = "claude" -> ClaudeParses(lines)
                   [] harness = "pi"     -> PiParses(lines)
                   [] OTHER              -> CodexParses(lines)

\* A time out is one whatever was read; the parser's failure comes before the exit status.
Ends ==
    /\ collecting.at = "join" /\ JoinsAreOver
    /\ outcome' = IF collecting.timedOut THEN "timeout"
                  ELSE IF Parsed(tail) # "ok" THEN Parsed(tail)
                  ELSE IF tree.rc # 0 THEN "exit" ELSE "ok"
    /\ collecting' = [collecting EXCEPT !.at = "ended"]
    /\ UNCHANGED <<harness, payload, tree, pipe, stdin, tail, limitsLeft>>

RunNext ==
    \/ \E l \in Lines : Writes(l)
    \/ \E where \in {"group", "stray"} : LeavesBehind(where) \/ LeftOneEnds(where)
    \/ \E rc \in {0, 1} : LeaderEnds(rc)
    \/ ReadsPrompt
    \/ Refused \/ Spawn \/ WriterBreaks \/ Drain \/ DrainEnds \/ Kill \/ Ends
    \/ \E timedOut \in BOOLEAN : Waited(timedOut)

\* The consumer's own threads, and the time out of the job; nothing of the processes.
RunFairness ==
    /\ WF_runVars(\E timedOut \in BOOLEAN : Waited(timedOut))
    /\ WF_runVars(Kill) /\ WF_runVars(Ends)
    /\ WF_runVars(Drain) /\ WF_runVars(DrainEnds) /\ WF_runVars(WriterBreaks)

RunSpec == RunInit /\ [][RunNext]_runVars /\ RunFairness
-----------------------------------------------------------------------------
\* A run that started comes to its end, with its group gone, whatever it does with its pipes: it may
\* leave a process that holds them, in its group or out of it, never read its prompt, or hang
\* (subprocess_runner.py:43-51).
RunEnds == collecting.at = "wait" ~> (collecting.at = "ended" /\ ~tree.leader /\ ~tree.group)
=============================================================================
