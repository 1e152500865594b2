----------------------------- MODULE ReviewLane -----------------------------
(***************************************************************************)
(* A pull request of GitHub or Bitbucket, or an issue of Jira, that people *)
(* and the agent talk on, and the scans that turn what is unanswered into  *)
(* jobs (modules/github/src, modules/bitbucket/src, modules/jira/src).     *)
(* The talk is in the order it really happened; a scan knows it by the     *)
(* times the host gives, which on GitHub are seconds.  The hosts are       *)
(* external, the agent's answers are what its tools do.                    *)
(***************************************************************************)
EXTENDS Integers, Sequences, FiniteSetsExt

CONSTANTS
    Hosts,         \* of "github", "bitbucket", "jira"
    Reviewers,
    MaxTalk,       \* bound on the entries of the talk
    MaxTime,       \* bound on the clock
    LaneBudgets    \* bounds on commits, resolved comments and scans that see a part or fail

ASSUME HostsAssumption == Hosts \subseteq {"github", "bitbucket", "jira"}

VARIABLES
    host,
    second,      \* the clock of the host
    talk,        \* what was said: who, what, when
    gone,        \* entries that are resolved or deleted
    laneJobs,    \* the jobs of the two lanes
    scan,        \* each lane's scan: its step and what it has read
    owed,        \* history: entries a scan that queues nothing twice has found unanswered
    laneLeft

laneVars == <<host, second, talk, gone, laneJobs, scan, owed, laneLeft>>

Lanes == {"comments", "changes"}
Agent == "agent"
NoScan == [pc |-> "idle", n |-> 0, gone |-> {}]

LaneInit ==
    /\ host \in Hosts
    /\ second = 1
    /\ talk = <<>>
    /\ gone = {}
    /\ laneJobs = {}
    /\ scan = [l \in Lanes |-> NoScan]
    /\ owed = {}
    /\ laneLeft \in LaneBudgets

Pays(k) == laneLeft[k] > 0 /\ laneLeft' = [laneLeft EXCEPT ![k] = @ - 1]

-----------------------------------------------------------------------------
(* The talk *)

\* Bitbucket's and Jira's times tell any two entries apart.
Says(who, what) ==
    /\ Len(talk) < MaxTalk
    /\ IF host = "github" THEN second' = second ELSE second' = second + 1
    /\ talk' = Append(talk, [who |-> who, what |-> what, at |-> second'])

ReviewerSays ==
    /\ \E r \in Reviewers : Says(r, "comment") \/ (host # "jira" /\ (Says(r, "changes") \/ Says(r, "approve")))
    /\ UNCHANGED <<host, gone, laneJobs, scan, owed, laneLeft>>

SomeoneCommits ==
    /\ host # "jira"
    /\ Pays("commit") /\ \E r \in Reviewers : Says(r, "commit")
    /\ UNCHANGED <<host, gone, laneJobs, scan, owed>>

Second ==
    /\ host = "github" /\ second < MaxTime
    /\ second' = second + 1
    /\ UNCHANGED <<host, talk, gone, laneJobs, scan, owed, laneLeft>>

ResolveComment ==
    /\ Pays("resolve")
    /\ \E e \in 1..Len(talk) : talk[e].what = "comment" /\ talk[e].who # Agent /\ gone' = gone \cup {e}
    /\ UNCHANGED <<host, second, talk, laneJobs, scan, owed>>

\* One run at a time, its thread being the pull request's or the issue's (threads.py).
AgentReads ==
    /\ \A j \in laneJobs : j.state # "running"
    /\ \E j \in laneJobs :
        /\ j.state = "queued"
        /\ laneJobs' = (laneJobs \ {j}) \cup {[j EXCEPT !.state = "running"]}
    /\ UNCHANGED <<host, second, talk, gone, scan, owed, laneLeft>>

AgentAnswers ==
    /\ \E j \in laneJobs : j.state = "running"
    /\ Says(Agent, "comment") \/ (host # "jira" /\ Says(Agent, "commit"))
    /\ UNCHANGED <<host, gone, laneJobs, scan, owed, laneLeft>>

AgentEnds ==
    /\ \E j \in laneJobs :
        /\ j.state = "running"
        /\ laneJobs' = (laneJobs \ {j}) \cup {[j EXCEPT !.state = "over"]}
    /\ UNCHANGED <<host, second, talk, gone, scan, owed, laneLeft>>

-----------------------------------------------------------------------------
(* What a scan finds in the first n entries *)

At(e) == talk[e].at
LatestOf(times) == IF times = {} THEN 0 ELSE Max(times)
Comments(s) == {e \in 1..s.n : talk[e].what = "comment"}
Theirs(s) == {e \in Comments(s) \ s.gone : talk[e].who # Agent}

\* The agent's last comment, on any surface, and the head commit, whoever made it.
Watermark(s) ==
    LatestOf({At(e) : e \in {e \in Comments(s) : talk[e].who = Agent} \cup {e \in 1..s.n : talk[e].what = "commit"}})

\* Faulty: feedback of the second of the last answer counts as answered, as on Bitbucket.
OutlivesStrictly(e, mark) == At(e) > mark

Outlives(e, mark) == IF host = "github" THEN At(e) >= mark ELSE At(e) > mark

\* The latest mention, unless the agent has commented since.  A comment on an issue is a mention.
UnansweredMention(s) ==
    LET last == LatestOf(Theirs(s)) IN {e \in Theirs(s) : e = last /\ \A f \in Comments(s) : f > e => talk[f].who # Agent}

FlagUnanswered(s) ==
    IF host = "jira" THEN UnansweredMention(s) ELSE {e \in Theirs(s) : Outlives(e, Watermark(s))}

\* A reviewer's position is its latest review that decides; Bitbucket's log of requests is taken as it is.
Requests(s) == {e \in 1..s.n : talk[e].what = "changes"}
Outstanding(s) ==
    IF host = "github"
    THEN {e \in Requests(s) : \A f \in 1..s.n : f > e /\ talk[f].who = talk[e].who => talk[f].what \notin {"changes", "approve"}}
    ELSE Requests(s)

Found(l, s) == IF l = "comments" THEN FlagUnanswered(s) ELSE Outstanding(s)
Newest(found) == {e \in found : At(e) = LatestOf({At(f) : f \in found})}

\* The newest time and, on GitHub, every comment of it, or the last request.
KeyOf(l, found) ==
    [lane |-> l, at |-> LatestOf({At(e) : e \in found}),
     ids |-> CASE host = "bitbucket" -> {}
               [] host = "github" /\ l = "comments" -> Newest(found)
               [] OTHER -> {LatestOf(found)}]

-----------------------------------------------------------------------------
(* A scan: read the host, then publish *)

ScanReads(l) ==
    /\ scan[l].pc = "idle" /\ (host = "jira" => l = "comments")
    /\ scan' = [scan EXCEPT ![l] = [pc |-> "publish", n |-> Len(talk), gone |-> gone]]
    /\ UNCHANGED <<host, second, talk, gone, laneJobs, owed, laneLeft>>

\* A lane whose data was truncated publishes nothing; nor does one that an exception stops.
ScanGivesUp(l) ==
    /\ scan[l].pc = "publish"
    /\ Pays("giveup")
    /\ scan' = [scan EXCEPT ![l] = NoScan]
    /\ UNCHANGED <<host, second, talk, gone, laneJobs, owed>>

\* skip_if_active, by source; a mention is queued behind the job it finds.
Active(l) == host # "jira" /\ \E j \in laneJobs : j.key.lane = l /\ j.state # "over"

\* What no answer came after, in the order things really happened.
Unheard(l, s) ==
    IF l = "changes" THEN Outstanding(s)
    ELSE {e \in Theirs(s) : \A f \in 1..s.n : f > e => ~(talk[f].what = "commit" \/ (talk[f].who = Agent /\ talk[f].what = "comment"))}

ScanPublishes(l) ==
    LET found == Found(l, scan[l])
        key == KeyOf(l, found)
    IN /\ scan[l].pc = "publish"
       /\ laneJobs' = IF found = {} \/ Active(l) \/ \E j \in laneJobs : j.key = key THEN laneJobs
                      ELSE laneJobs \cup {[key |-> key, state |-> "queued", covers |-> Len(talk)]}
       /\ owed' = IF Active(l) THEN owed ELSE owed \cup ({l} \X Unheard(l, scan[l]))
       /\ scan' = [scan EXCEPT ![l] = NoScan]
       /\ UNCHANGED <<host, second, talk, gone, laneLeft>>

LaneNext ==
    \/ ReviewerSays \/ SomeoneCommits \/ Second \/ ResolveComment
    \/ AgentReads \/ AgentAnswers \/ AgentEnds
    \/ \E l \in Lanes : ScanReads(l) \/ ScanGivesUp(l) \/ ScanPublishes(l)

LaneSpec == LaneInit /\ [][LaneNext]_laneVars

-----------------------------------------------------------------------------
(* Properties *)

Covered(l, e) == \E j \in laneJobs : j.key.lane = l /\ e <= j.covers

\* What a scan of a quiet lane found unanswered is in a job that was published after it was said:
\* neither a tie of the clock nor the key of an earlier job hides it (review_scan.py:118-131, 207-222).
FeedbackQueued == \A w \in owed : Covered(w[1], w[2])

=============================================================================
