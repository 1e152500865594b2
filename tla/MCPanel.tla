------------------------------ MODULE MCPanel -------------------------------
(* What comes in from outside: the panel's logins, users and grants,       *)
(* launches, rate limits and capabilities, the mailbox, the lanes of a     *)
(* code host or tracker, and tests of configured credentials.  The parts   *)
(* share no state here: a behaviour is one of them and the others rest.    *)
EXTENDS WebLogin, Access, Miniapps, RateLimit, Capability, MailPolling, ReviewLane, ConfigTests

VARIABLE part

panelVars == <<part, loginVars, accessVars, appVars, limitVars, capVars, mailVars, laneVars, testVars>>

\* Logins: one disturbance of any kind.
Undisturbed == [cancel |-> 0, die |-> 0, stale |-> 0, account |-> 0, day |-> 0]
LoginLimits == {[Undisturbed EXCEPT ![k] = 1] : k \in DOMAIN Undisturbed}

\* Users: many changes beside a sign-in and two launches, or two sign-ins and one.
AccessLimits == {[change |-> 5, signin |-> 1, launch |-> 2], [change |-> 4, signin |-> 2, launch |-> 1]}

\* Mini-apps: four requests beside a publication that fails, or two.
AppLimits == {[publish |-> 1, request |-> 4, fail |-> 1], [publish |-> 2, request |-> 4, fail |-> 0]}

\* Capabilities: of a session and of a launch.
Kinds     == <<"user_session", "miniapp">>
CapLimits == {[token |-> 1, end |-> 1, fault |-> 1]}

\* Mail: two of one sender, the second by a bot, in a mailbox that both views answer.
NoTrouble == [operator |-> 0, fault |-> 0, crash |-> 0, resync |-> 0]
MailLimits == {[NoTrouble EXCEPT ![p[1]] = @ + 1, ![p[2]] = @ + 1] :
                  p \in {<<"operator", "crash">>, <<"operator", "resync">>, <<"fault", "operator">>, <<"fault", "crash">>}}
OneSender == <<"a", "a">>
MailKinds == <<"plain", "bot">>
Answering == {[on |-> Views, allow |-> [v \in Views |-> Senders], agree |-> TRUE, bots |-> TRUE, bound |-> {<<"a", 1>>}]}

\* Lanes: a resolved thread, a commit, or a scan that gives up.
LaneLimits == {[commit |-> 0, resolve |-> 1, giveup |-> 0], [commit |-> 1, resolve |-> 0, giveup |-> 0],
               [commit |-> 0, resolve |-> 0, giveup |-> 1]}

\* Tests: five fields, two of one credential, asked for together, alone and at a view.
FieldList == <<"user", "pass", "key", "pair", "plain">>
Declared ==
    LET declared(test, kind, fault) == [test |-> test, kind |-> kind, fault |-> fault]
    IN  [user |-> declared("login", "toolbox", "none"), pass |-> declared("login", "toolbox", "none"),
         key |-> declared("stray", "builtin", "FOREIGN_PATH"), pair |-> declared("twice", "toolbox", "DUPLICATE_TESTER"),
         plain |-> declared("local", "local", "none")]
Asked == {[path |-> "all", scope |-> "default", id |-> 0], [path |-> "pass", scope |-> "default", id |-> 0],
          [path |-> "pass", scope |-> "agent_view", id |-> 1]}
TestLimits == {[config |-> 1, lost |-> 0], [config |-> 0, lost |-> 1]}

AtRest(S, limits) == limits = CHOOSE x \in S : TRUE

PanelInit ==
    /\ part \in {"login", "access", "apps", "limit", "cap", "mail", "lane", "tests"}
    /\ LoginInit /\ AccessInit /\ AppInit /\ LimitInit /\ CapInit /\ MailInit /\ LaneInit /\ TestInit
    /\ part # "login" => AtRest(LoginBudgets, webLeft)
    /\ part # "access" => AtRest(AccessBudgets, accessLeft)
    /\ part # "apps" => AtRest(AppBudgets, appLeft)
    /\ part # "cap" => AtRest(CapBudgets, capLeft) /\ \A s \in Sources : source[s].until = LastSecond
    /\ part # "mail" => AtRest(MailBudgets, mailLeft)
    /\ part # "lane" => AtRest(LaneBudgets, laneLeft) /\ AtRest(Hosts, host)
    /\ part # "tests" => AtRest(TestBudgets, testsLeft)

PanelNext ==
    \/ part = "login"  /\ LoginNext  /\ UNCHANGED <<part, accessVars, appVars, limitVars, capVars, mailVars, laneVars, testVars>>
    \/ part = "access" /\ AccessNext /\ UNCHANGED <<part, loginVars, appVars, limitVars, capVars, mailVars, laneVars, testVars>>
    \/ part = "apps"   /\ AppNext    /\ UNCHANGED <<part, loginVars, accessVars, limitVars, capVars, mailVars, laneVars, testVars>>
    \/ part = "limit"  /\ LimitNext  /\ UNCHANGED <<part, loginVars, accessVars, appVars, capVars, mailVars, laneVars, testVars>>
    \/ part = "cap"    /\ CapNext    /\ UNCHANGED <<part, loginVars, accessVars, appVars, limitVars, mailVars, laneVars, testVars>>
    \/ part = "mail"   /\ MailNext   /\ UNCHANGED <<part, loginVars, accessVars, appVars, limitVars, capVars, laneVars, testVars>>
    \/ part = "lane"   /\ LaneNext   /\ UNCHANGED <<part, loginVars, accessVars, appVars, limitVars, capVars, mailVars, testVars>>
    \/ part = "tests"  /\ TestNext   /\ UNCHANGED <<part, loginVars, accessVars, appVars, limitVars, capVars, mailVars, laneVars>>

PanelSpec == PanelInit /\ [][PanelNext]_panelVars
=============================================================================
