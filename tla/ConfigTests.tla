---------------------------- MODULE ConfigTests -----------------------------
(* Live tests of configured credentials.  A command (config:test, the      *)
(* panel's button, the admin's key) asks the toolbox, in turn, for the     *)
(* test declared on each of its fields; the toolbox reads the stored       *)
(* configuration, answers what it can decide alone, and otherwise logs in  *)
(* at the remote account, unless the same test ran at the same scope less  *)
(* than a cooldown ago.                                                    *)
EXTENDS Naturals, Sequences, FiniteSetsExt

CONSTANTS
    Fields,      \* the fields of the enabled modules, in order
    Tester,      \* Tester[f]: [test, kind, fault]; test, the normalized declaration, is "none" without one
    Commands,    \* what operators ask for: [path: a field or "all", scope, id]
    Cooldown, MaxEntries,
    LastTick,    \* bound on time
    TestBudgets  \* bounds: unreadable or unset configuration, requests given up

\* module/field names one field.
ASSUME FieldsAssumption ==
    /\ Fields \in Seq(STRING)
    /\ \A i, j \in DOMAIN Fields : Fields[i] = Fields[j] => i = j

\* What can be wrong with a declaration.
ASSUME TesterAssumption ==
    \A i \in DOMAIN Fields :
        Tester[Fields[i]].fault \in {"none", "FOREIGN_PATH", "FOREIGN_TESTER", "DUPLICATE_TESTER", "UNKNOWN_TESTER",
                                    "UNKNOWN_KIND"}

ASSUME CooldownAssumption == Cooldown \in Nat

VARIABLES
    command,     \* command[c]: [todo: places in Fields, waits, answers]
    testing,     \* testing[r], r = <<command, field>>: none, reading, probing or done, in the toolbox
    last,        \* the limiter's map: [key, at, nth: the place of its write among all]
    probes,      \* every probe that started: [of, at]
    evicted,     \* the tests whose entry left the map before it expired
    tick, testsLeft

testVars == <<command, testing, last, probes, evicted, tick, testsLeft>>

Probings == Commands \X {Fields[i] : i \in DOMAIN Fields}

\* One field for each distinct test, the first that has it: the groups of --all.
EnumerateTestGroups ==
    {i \in DOMAIN Fields : /\ Tester[Fields[i]].test # "none"
                          /\ \A j \in 1..(i - 1) : Tester[Fields[j]].test # Tester[Fields[i]].test}

FieldsOf(c) == IF c.path # "all" THEN {i \in DOMAIN Fields : Fields[i] = c.path} ELSE EnumerateTestGroups

Allows(kind)   == testsLeft[kind] > 0 /\ testsLeft' = [testsLeft EXCEPT ![kind] = @ - 1]
Place(c)       == Min(command[c].todo)
Field(c)       == Fields[Place(c)]
Answered(c, f, code) ==
    command' = IF command[c].waits /\ Field(c) = f
               THEN [command EXCEPT ![c] = [todo |-> @.todo \ {Place(c)}, waits |-> FALSE,
                                              answers |-> Append(@.answers, <<f, code>>)]]
               ELSE command

TestInit ==
    /\ command = [c \in Commands |-> [todo |-> FieldsOf(c), waits |-> FALSE, answers |-> <<>>]]
    /\ testing = [r \in Probings |-> "none"]
    /\ last = {} /\ probes = <<>> /\ evicted = {}
    /\ tick = 0
    /\ testsLeft \in TestBudgets
-----------------------------------------------------------------------------
\* The framework: what it answers itself, and what the toolbox must.
AnswerOfFramework(c) ==
    IF Tester[Field(c)].test = "none" THEN "NO_TESTER"
    ELSE IF Tester[Field(c)].kind = "local" THEN "LOCAL"
    ELSE IF c.scope = "workspace" THEN "SCOPE_UNSUPPORTED" ELSE "ask"

RunConfigTest(c) ==
    /\ command[c].todo # {} /\ ~command[c].waits
    /\ AnswerOfFramework(c) # "ask"
    /\ command' = [command EXCEPT ![c].todo = @ \ {Place(c)},
                                    ![c].answers = Append(@, <<Field(c), AnswerOfFramework(c)>>)]
    /\ UNCHANGED <<testing, last, probes, evicted, tick, testsLeft>>

\* The request reaches the toolbox, which refuses a declaration that names another module's
\* fields, or starts to read the stored configuration.
RunToolboxTest(c) ==
    /\ command[c].todo # {} /\ ~command[c].waits
    /\ AnswerOfFramework(c) = "ask"
    /\ \/ Tester[Field(c)].fault = "FOREIGN_PATH"
          /\ command' = [command EXCEPT ![c].todo = @ \ {Place(c)}, ![c].answers = Append(@, <<Field(c), "FOREIGN_PATH">>)]
          /\ UNCHANGED testing
       \/ Tester[Field(c)].fault # "FOREIGN_PATH"
          /\ command' = [command EXCEPT ![c].waits = TRUE]
          /\ testing' = [testing EXCEPT ![<<c, Field(c)>>] = "reading"]
    /\ UNCHANGED <<last, probes, evicted, tick, testsLeft>>

\* The framework stops waiting; the toolbox does not know.
GiveUp(c) ==
    /\ command[c].waits
    /\ Allows("lost")
    /\ Answered(c, Field(c), "TOOLBOX_UNREACHABLE")
    /\ UNCHANGED <<testing, last, probes, evicted, tick>>

Answers(r, code) ==
    /\ Answered(r[1], r[2], code)
    /\ testing' = [testing EXCEPT ![r] = "done"]

KeyByPath(r) == <<r[2], r[1].scope, r[1].id>>

\* One credential at one scope, whichever of its fields was named.
LimiterKey(r) == <<Tester[r[2]].test, r[1].scope, r[1].id>>

Fresh == {e \in last : tick - e.at < Cooldown}
\* What is left to write to: no expired entry, and only the newest, fewer than MaxEntries.
Kept == {e \in Fresh : Cardinality({f \in Fresh : f.nth >= e.nth}) < MaxEntries}
Cooling(k) == \E e \in Fresh : e.key = k

\* The limiter is asked, and its entry stamped, before the probe starts.
Take(r) ==
    /\ ~Cooling(LimiterKey(r))
    /\ last' = Kept \cup {[key |-> LimiterKey(r), at |-> tick, nth |-> Len(probes) + 1]}
    /\ evicted' = evicted \cup {e.key : e \in Fresh \ Kept}

\* The configuration was read.  What can be decided here is, before the limiter is asked.
Resolved(r) ==
    /\ testing[r] = "reading"
    /\ \/ Allows("config")
          /\ \E code \in IF Tester[r[2]].fault = "none" THEN {"CONFIG_UNAVAILABLE", "DECRYPT_FAILED", "NOT_SET"}
                        ELSE {"CONFIG_UNAVAILABLE"} : Answers(r, code)
          /\ UNCHANGED <<last, probes, evicted>>
       \/ /\ Tester[r[2]].fault # "none"
          /\ Answers(r, Tester[r[2]].fault)
          /\ UNCHANGED <<last, probes, evicted, testsLeft>>
       \/ /\ Tester[r[2]].fault = "none" /\ Cooling(LimiterKey(r))
          /\ Answers(r, "COOLDOWN")
          /\ UNCHANGED <<last, probes, evicted, testsLeft>>
       \/ /\ Tester[r[2]].fault = "none"
          /\ Take(r)
          /\ probes' = Append(probes, [of |-> r, at |-> tick])
          /\ testing' = [testing EXCEPT ![r] = "probing"]
          /\ UNCHANGED <<command, testsLeft>>
    /\ UNCHANGED tick

\* The probe answers, crashes, or is aborted when its time is up.
Probed(r) ==
    /\ testing[r] = "probing"
    /\ Answers(r, "PROBED")
    /\ UNCHANGED <<last, probes, evicted, tick, testsLeft>>

Pass ==
    /\ tick < LastTick
    /\ tick' = tick + 1
    /\ UNCHANGED <<command, testing, last, probes, evicted, testsLeft>>

TestNext ==
    \/ \E c \in Commands : RunConfigTest(c) \/ RunToolboxTest(c) \/ GiveUp(c)
    \/ \E r \in Probings : Resolved(r) \/ Probed(r)
    \/ Pass

TestSpec == TestInit /\ [][TestNext]_testVars
-----------------------------------------------------------------------------
Credential(r) == <<Tester[r[2]].test, r[1].scope, r[1].id>>

\* The account is not locked out by its own tests: two logins for one declared test at one
\* scope start a cooldown apart, whichever fields named it, whoever asked and whether or not
\* anyone still waits, unless the cap pushed the entry out; and a command is told to wait only
\* for a login of another one (ProbeLimiter and limiterKey, toolbox/config-tests.js).
ProbesSpaced ==
    /\ \A i, j \in DOMAIN probes :
           i < j /\ Credential(probes[i].of) = Credential(probes[j].of) /\ Credential(probes[i].of) \notin evicted
           => probes[j].at >= probes[i].at + Cooldown
    /\ \A r \in Probings : \A n \in DOMAIN command[r[1]].answers :
           command[r[1]].answers[n] = <<r[2], "COOLDOWN">>
           => \E p \in DOMAIN probes : Credential(probes[p].of) = Credential(r) /\ probes[p].of[1] # r[1]
=============================================================================
