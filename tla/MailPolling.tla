---------------------------- MODULE MailPolling ----------------------------
(***************************************************************************)
(* A mailbox that one or more agent_views share, polled by overlapping     *)
(* runs of outlook:publish (modules/outlook/src): the delta cursor, the    *)
(* gate, the routing of a sender to a view and the publication of a job.   *)
(* A mail is its place in the mailbox and a delta link is the place of the *)
(* last mail it covers; Graph is the toolbox's and external.  A run reads  *)
(* the database in one transaction (autocommit is off), so what it routes  *)
(* by is what the database said when it started.                           *)
(***************************************************************************)
EXTENDS Integers, FiniteSets

CONSTANTS
    Pollers,      \* runs of the command, which nothing keeps apart
    Views,        \* agent_view ids, small integers
    Mails,        \* 1..n in the order they arrive
    SenderOf,     \* each mail's sender
    KindOf,       \* "plain", "auto" (auto reply), "unproved" (DMARC is no pass) or "bot" (agent authored)
    StartConfigs, \* the configurations the runs begin under
    MailBudgets   \* bounds on configuration changes, faults, crashes and resynchronisations

VARIABLES
    box,         \* how many mails have arrived
    cursor,      \* outlook_poll_cursor
    jobs,        \* job rows: mail and view
    boxCfg,      \* each view's outlook configuration and the bindings of senders
    poller,      \* the runs
    judged,      \* history: mails a run has rejected or found no view for
    mailLeft

mailVars == <<box, cursor, jobs, boxCfg, poller, judged, mailLeft>>

Senders == {SenderOf[m] : m \in Mails}
NoRun == [pc |-> "off", seen |-> [on |-> {}], from |-> 0, upTo |-> 0, at |-> 0, memo |-> {}, hold |-> FALSE]

\* Who may write to each view, whether the views agree on what activates them, whether mail of bots
\* is answered, and the active bindings of the highest priority.
Configs == [on : SUBSET Views, allow : [Views -> SUBSET Senders], agree : BOOLEAN, bots : BOOLEAN,
            bound : SUBSET (Senders \X Views)]

MailInit ==
    /\ box = 0
    /\ cursor = 0
    /\ jobs = {}
    /\ boxCfg \in StartConfigs
    /\ poller = [p \in Pollers |-> NoRun]
    /\ judged = {}
    /\ mailLeft \in MailBudgets

Spends(k) == mailLeft[k] > 0 /\ mailLeft' = [mailLeft EXCEPT ![k] = @ - 1]
Arrive == box < Cardinality(Mails) /\ box' = box + 1 /\ UNCHANGED <<cursor, jobs, boxCfg, poller, judged, mailLeft>>

\* ingress:bind and ingress:unbind, and the outlook fields of a view.
Bind(s, v) == boxCfg' = [boxCfg EXCEPT !.bound = {b \in @ : b[1] # s} \cup {<<s, v>>}]
Tie(s) == boxCfg' = [boxCfg EXCEPT !.bound = @ \cup ({s} \X Views)]
Unbind(s) == boxCfg' = [boxCfg EXCEPT !.bound = {b \in @ : b[1] # s}]
Configure ==
    \/ \E v \in Views : boxCfg' = [boxCfg EXCEPT !.on = (@ \ {v}) \cup ({v} \ @)]
    \/ \E v \in Views, s \in Senders : boxCfg' = [boxCfg EXCEPT !.allow[v] = (@ \ {s}) \cup ({s} \ @)]
    \/ boxCfg' = [boxCfg EXCEPT !.agree = ~@]
    \/ boxCfg' = [boxCfg EXCEPT !.bots = ~@]

Operate ==
    /\ Spends("operator")
    /\ \/ \E s \in Senders, v \in Views : Bind(s, v)
       \/ \E s \in Senders : Tie(s) \/ Unbind(s)
       \/ Configure
    /\ UNCHANGED <<box, cursor, jobs, poller, judged>>

-----------------------------------------------------------------------------
(* The gate and the routing *)

Routed(seen) == Cardinality(seen.on) > 1
Owner(seen) == CHOOSE v \in seen.on : \A w \in seen.on : v <= w
Union(seen) == IF Routed(seen) THEN UNION {seen.allow[v] : v \in seen.on} ELSE seen.allow[Owner(seen)]

Admits(m, seen) ==
    /\ SenderOf[m] \in Union(seen)
    /\ KindOf[m] \notin {"auto", "unproved"}
    /\ KindOf[m] = "bot" => seen.bots

Candidates(s, seen) == {v \in Views : <<s, v>> \in seen.bound}

\* The view the sender's mail goes to, or none: no binding, a tie, a view that is not of the
\* mailbox, or one whose own list omits the sender.
Route(s, seen) == {v \in Candidates(s, seen) \cap seen.on : Candidates(s, seen) = {v} /\ s \in seen.allow[v]}

-----------------------------------------------------------------------------
(* A run of outlook:publish *)

In(p, pc) == poller[p].pc = pc
RunGoes(p, pc) == poller' = [poller EXCEPT ![p].pc = pc]
RunEnds(p) == poller' = [poller EXCEPT ![p] = NoRun]

\* No view has the mailbox: nothing to do.  Views that disagree stall the group.
StartPoll(p) ==
    /\ In(p, "off") /\ boxCfg.on # {}
    /\ ~Routed(boxCfg) \/ boxCfg.agree
    /\ poller' = [poller EXCEPT ![p] = [NoRun EXCEPT !.pc = "ask", !.seen = boxCfg, !.from = cursor]]
    /\ UNCHANGED <<box, cursor, jobs, boxCfg, judged, mailLeft>>

\* The toolbox pages to the end; a cursor it discards is a base enumeration.
ListDelta(p) ==
    /\ In(p, "ask")
    /\ \/ poller' = [poller EXCEPT ![p].pc = "mail", ![p].at = poller[p].from + 1, ![p].upTo = box]
          /\ UNCHANGED mailLeft
       \/ poller' = [poller EXCEPT ![p].pc = "mail", ![p].at = 1, ![p].upTo = box] /\ Spends("resync")
    /\ UNCHANGED <<box, cursor, jobs, boxCfg, judged>>

NextMail(p) == [poller[p] EXCEPT !.pc = "mail", !.at = @ + 1]
Mail(p) == poller[p].at
HasMail(p) == In(p, "mail") /\ poller[p].at <= poller[p].upTo

\* A verdict that another fetch would not change, as the code sees it: the run moves on.
Drops(p, memo) ==
    /\ judged' = judged \cup {Mail(p)}
    /\ poller' = [poller EXCEPT ![p] = [NextMail(p) EXCEPT !.memo = memo]]

Reject(p) ==
    /\ HasMail(p) /\ ~Admits(Mail(p), poller[p].seen)
    /\ Drops(p, poller[p].memo)
    /\ UNCHANGED <<box, cursor, jobs, boxCfg, mailLeft>>

\* Faulty: a mail that could not be routed or published does not hold the cursor.
HeldNot(p) == NextMail(p)

Held(p) == [NextMail(p) EXCEPT !.hold = TRUE]

\* The route of a sender is looked up once per run, unless the lookup raises.
RouteMail(p) ==
    LET s == SenderOf[Mail(p)]
        seen == poller[p].seen
        known == {e \in poller[p].memo : e[1] = s}
        found == IF known # {} THEN known ELSE {s} \X {Route(s, seen)}
        views == UNION {e[2] : e \in found}
    IN /\ HasMail(p) /\ Admits(Mail(p), seen) /\ Routed(seen)
       /\ \/ /\ views = {} /\ Drops(p, poller[p].memo \cup found)
             /\ UNCHANGED mailLeft
          \/ /\ views # {}
             /\ poller' = [poller EXCEPT ![p].pc = "check", ![p].memo = @ \cup found]
             /\ UNCHANGED <<judged, mailLeft>>
          \/ /\ known = {} /\ Spends("fault")
             /\ poller' = [poller EXCEPT ![p] = Held(p)]
             /\ UNCHANGED judged
    /\ UNCHANGED <<box, cursor, jobs, boxCfg>>

DirectMail(p) ==
    /\ HasMail(p) /\ Admits(Mail(p), poller[p].seen) /\ ~Routed(poller[p].seen)
    /\ RunGoes(p, "check")
    /\ UNCHANGED <<box, cursor, jobs, boxCfg, judged, mailLeft>>

Target(p) ==
    IF Routed(poller[p].seen) THEN CHOOSE v \in UNION {e[2] : e \in {e \in poller[p].memo : e[1] = SenderOf[Mail(p)]}} : TRUE
    ELSE Owner(poller[p].seen)

Published(m) == \E j \in jobs : j.mail = m

\* publish(): the idempotency key is looked up ...
PublishChecks(p) ==
    /\ In(p, "check")
    /\ poller' = [poller EXCEPT ![p] = IF Published(Mail(p)) THEN NextMail(p) ELSE [@ EXCEPT !.pc = "insert"]]
    /\ UNCHANGED <<box, cursor, jobs, boxCfg, judged, mailLeft>>

Taken(m) == Published(m)

\* ... and the row inserted under a unique key: a run that comes second has published nothing.
PublishInserts(p) ==
    /\ In(p, "insert")
    /\ jobs' = IF Taken(Mail(p)) THEN jobs ELSE jobs \cup {[mail |-> Mail(p), view |-> Target(p)]}
    /\ poller' = [poller EXCEPT ![p] = NextMail(p)]
    /\ UNCHANGED <<box, cursor, boxCfg, judged, mailLeft>>

PublishFails(p) ==
    /\ In(p, "check") \/ In(p, "insert")
    /\ Spends("fault")
    /\ poller' = [poller EXCEPT ![p] = Held(p)]
    /\ UNCHANGED <<box, cursor, jobs, boxCfg, judged>>

\* Persist, then advance; the row is overwritten whatever it holds by then.
EndPoll(p) ==
    /\ In(p, "mail") /\ ~HasMail(p)
    /\ cursor' = IF poller[p].hold THEN cursor ELSE poller[p].upTo
    /\ RunEnds(p)
    /\ UNCHANGED <<box, jobs, boxCfg, judged, mailLeft>>

\* A toolbox or Graph error, a mailbox that resolves to another one, or the end of the process.
PollFails(p) ==
    /\ ~In(p, "off")
    /\ Spends("crash")
    /\ RunEnds(p)
    /\ UNCHANGED <<box, cursor, jobs, boxCfg, judged>>

MailNext ==
    \/ Arrive \/ Operate
    \/ \E p \in Pollers : \/ StartPoll(p) \/ ListDelta(p) \/ Reject(p) \/ RouteMail(p) \/ DirectMail(p)
                          \/ PublishChecks(p) \/ PublishInserts(p) \/ PublishFails(p)
                          \/ EndPoll(p) \/ PollFails(p)

MailSpec == MailInit /\ [][MailNext]_mailVars

-----------------------------------------------------------------------------
(* Properties *)

\* The cursor never passes a mail that has neither a job nor a verdict against it: overlapping
\* runs, crashes, faults and a cursor that goes back leave none behind (publish.py:385-389).
NoMailLost == \A m \in 1..cursor : Published(m) \/ m \in judged

=============================================================================
