------------------------------ MODULE WebLogin ------------------------------
(***************************************************************************)
(* The sign-in of a credential from the admin panel: the panel inserts a   *)
(* request, a cron worker claims it, starts the provider's login command   *)
(* in a HOME of its own, shows the prompt, carries the user's code to the  *)
(* command and saves what the command logged in with.                      *)
(*                                                                         *)
(* One credential.  Every statement on a request locks the credential row  *)
(* first, so each transaction is one step.  A new worker starts each       *)
(* minute while an older one may still watch its login.                    *)
(***************************************************************************)
EXTENDS Integers, FiniteSets

CONSTANTS
    Logins,         \* ids of requests, numbers in the order they are inserted
    LoginWorkers,   \* processes of credential:web-login that may overlap
    LoginBudgets    \* bounds, a set of records: cancellations, deaths, lost heartbeats,
                    \* days, and changes of the credential

VARIABLES
    request,    \* the credential_login rows
    account,    \* the credential row: enabled, leased, and the login its payload is from
    worker,     \* the processes
    homes,      \* requests that have a directory under TMP_ROOT
    webLeft     \* what is left of the bounds

loginVars == <<request, account, worker, homes, webLeft>>

ActiveStates == {"pending", "starting", "waiting", "verifying"}
Ended  == {"done", "failed", "cancelled"}

\* get_login shows this row.
RequestRow == [status : ActiveStates \cup Ended \cup {"none", "deleted"}, needs : BOOLEAN,
               box : BOOLEAN, expired : BOOLEAN, stale : BOOLEAN]

NewRequest == [status |-> "none", needs |-> FALSE, box |-> FALSE, expired |-> FALSE, stale |-> FALSE]
NoLogin    == [pc |-> "idle", login |-> 0, listed |-> {}, active |-> {}]

LoginInit ==
    /\ request = [l \in Logins |-> NewRequest]
    /\ account = [enabled |-> TRUE, leased |-> FALSE, payload |-> 0]
    /\ worker = [w \in LoginWorkers |-> NoLogin]
    /\ homes = {}
    /\ webLeft \in LoginBudgets

PaysLogin(k) == webLeft[k] > 0 /\ webLeft' = [webLeft EXCEPT ![k] = @ - 1]

IsActive(l) == request[l].status \in ActiveStates

\* _finish, and what cancel and mark_stale write: the code goes with the request.
Closed(row, status) == IF row.status \in ActiveStates THEN [row EXCEPT !.status = status, !.box = FALSE]
                       ELSE row

\* mark_stale: expired requests, and those whose worker stopped beating.
MarkStale == [l \in Logins |->
    LET row == request[l]
    IN  IF row.expired \/ (row.stale /\ row.status # "pending") THEN Closed(row, "failed") ELSE row]

-----------------------------------------------------------------------------
(* The panel *)

\* request_login: stale requests are closed first, also when the answer is "active".
RequestLogin(l) ==
    LET rows == MarkStale
    IN  /\ request[l].status = "none"
        /\ \A k \in Logins : k < l => request[k].status # "none"
        /\ account.enabled
        /\ request' = IF \E k \in Logins : rows[k].status \in ActiveStates
                      THEN rows ELSE [rows EXCEPT ![l].status = "pending"]
        /\ UNCHANGED <<account, worker, homes, webLeft>>

PutCode(l) ==
    /\ request[l].status = "waiting" /\ request[l].needs /\ ~request[l].box
    /\ request' = [request EXCEPT ![l].box = TRUE]
    /\ UNCHANGED <<account, worker, homes, webLeft>>

CancelLogin(l) ==
    /\ IsActive(l)
    /\ PaysLogin("cancel")
    /\ request' = [request EXCEPT ![l] = Closed(@, "cancelled")]
    /\ UNCHANGED <<account, worker, homes>>

-----------------------------------------------------------------------------
(* The worker sweeps, then claims *)

LGoes(w, pc) == worker' = [worker EXCEPT ![w].pc = pc]

\* sweep: the directories are listed before the requests are read.
SweepLists(w) ==
    /\ worker[w].pc = "idle"
    /\ worker' = [worker EXCEPT ![w].pc = "listed", ![w].listed = homes]
    /\ UNCHANGED <<request, account, homes, webLeft>>

\* mark_stale; a day later the requests that ended are deleted too.
SweepMarks(w) ==
    /\ worker[w].pc = "listed"
    /\ \/ request' = MarkStale /\ UNCHANGED webLeft
       \/ /\ PaysLogin("day")
          /\ request' = [l \in Logins |-> IF request[l].status \in Ended
                           THEN [request[l] EXCEPT !.status = "deleted"] ELSE MarkStale[l]]
    /\ LGoes(w, "marked")
    /\ UNCHANGED <<account, homes>>

SweepReads(w) ==
    /\ worker[w].pc = "marked"
    /\ worker' = [worker EXCEPT ![w].pc = "read", ![w].active = {l \in Logins : IsActive(l)}]
    /\ UNCHANGED <<request, account, homes, webLeft>>

\* Faulty: what is there now is removed, not what was there before the requests were read.
SweepRemovesListedLate(w) ==
    /\ worker[w].pc = "read"
    /\ homes' = homes \cap worker[w].active
    /\ worker' = [worker EXCEPT ![w] = [NoLogin EXCEPT !.pc = "ready"]]
    /\ UNCHANGED <<request, account, webLeft>>

SweepRemoves(w) ==
    /\ worker[w].pc = "read"
    /\ homes' = homes \ (worker[w].listed \ worker[w].active)
    /\ worker' = [worker EXCEPT ![w] = [NoLogin EXCEPT !.pc = "ready"]]
    /\ UNCHANGED <<request, account, webLeft>>

\* claim, fenced on pending.
ClaimLogin(w, l) ==
    /\ worker[w].pc = "ready"
    /\ request[l].status = "pending"
    /\ request' = [request EXCEPT ![l].status = "starting", ![l].stale = FALSE]
    /\ worker' = [worker EXCEPT ![w].pc = "claimed", ![w].login = l]
    /\ UNCHANGED <<account, homes, webLeft>>

\* run_worker's deadline.
WorkerStops(w) ==
    /\ worker[w].pc = "ready"
    /\ LGoes(w, "idle")
    /\ UNCHANGED <<request, account, homes, webLeft>>

-----------------------------------------------------------------------------
(* run_login *)

\* The directory; or the scope's authenticator has no web login.
MakeHome(w) ==
    LET l == worker[w].login
    IN  /\ worker[w].pc = "claimed"
        /\ \/ homes' = homes \cup {l} /\ LGoes(w, "prompting") /\ UNCHANGED request
           \/ /\ request' = [request EXCEPT ![l] = Closed(@, "failed")]
              /\ LGoes(w, "ready")
              /\ UNCHANGED homes
        /\ UNCHANGED <<account, webLeft>>

\* The command fails or prompts with no https URL; or its prompt is published, fenced
\* on starting.
Prompt(w) ==
    LET l == worker[w].login
    IN  /\ worker[w].pc = "prompting"
        /\ \/ request' = [request EXCEPT ![l] = Closed(@, "failed")] /\ LGoes(w, "closing")
           \/ /\ request[l].status = "starting"
              /\ \E needs \in BOOLEAN :
                   request' = [request EXCEPT ![l].status = "waiting", ![l].needs = needs,
                                              ![l].stale = FALSE]
              /\ LGoes(w, "watching")
           \/ request[l].status # "starting" /\ LGoes(w, "closing") /\ UNCHANGED request
        /\ UNCHANGED <<account, homes, webLeft>>

\* One turn of _watch up to the code: _heartbeat, and what its answer decides.
Watch(w) ==
    LET l   == worker[w].login
        row == request[l]
        on  == row.status \in {"waiting", "verifying"}
    IN  /\ worker[w].pc = "watching"
        /\ \/ ~on /\ LGoes(w, "closing") /\ UNCHANGED request
           \/ /\ on /\ row.expired
              /\ request' = [request EXCEPT ![l] = Closed(@, "failed")]
              /\ LGoes(w, "closing")
           \/ /\ on /\ ~row.expired
              /\ request' = [request EXCEPT ![l].stale = FALSE]
              /\ LGoes(w, IF row.needs /\ row.box /\ row.status = "waiting" THEN "taking" ELSE "polling")
        /\ UNCHANGED <<account, homes, webLeft>>

\* _take_code empties the box and moves the request on; then the code is written to the
\* command, or cannot be decrypted.
TakeCode(w) ==
    LET l == worker[w].login
    IN  /\ worker[w].pc = "taking"
        /\ \/ /\ request[l].status = "waiting" /\ request[l].box
              /\ \/ /\ request' = [request EXCEPT ![l].status = "verifying", ![l].box = FALSE]
                    /\ LGoes(w, "polling")
                 \/ /\ request' = [request EXCEPT ![l] = Closed(@, "failed")]
                    /\ LGoes(w, "closing")
           \/ /\ ~(request[l].status = "waiting" /\ request[l].box)
              /\ LGoes(w, "closing")
              /\ UNCHANGED request
        /\ UNCHANGED <<account, homes, webLeft>>

\* login.poll: the command goes on, has failed, or has logged in.
Poll(w) ==
    LET l == worker[w].login
    IN  /\ worker[w].pc = "polling"
        /\ \/ LGoes(w, "watching") /\ UNCHANGED request
           \/ request' = [request EXCEPT ![l] = Closed(@, "failed")] /\ LGoes(w, "closing")
           \/ LGoes(w, IF request[l].needs THEN "saving" ELSE "verifying") /\ UNCHANGED request
        /\ UNCHANGED <<account, homes, webLeft>>

\* _save without a code: the request is fenced on waiting.
BeginSave(w) ==
    LET l == worker[w].login
    IN  /\ worker[w].pc = "verifying"
        /\ \/ /\ request[l].status = "waiting"
              /\ request' = [request EXCEPT ![l].status = "verifying"]
              /\ LGoes(w, "saving")
           \/ request[l].status # "waiting" /\ LGoes(w, "closing") /\ UNCHANGED request
        /\ UNCHANGED <<account, homes, webLeft>>

\* _save: the request and the credential in one transaction, which a lease on the
\* credential rolls back.
Save(w) ==
    LET l    == worker[w].login
        fit  == ~request[l].expired /\ account.enabled /\ ~account.leased
    IN  /\ worker[w].pc = "saving"
        /\ \/ /\ request[l].status = "verifying" /\ fit
              /\ request' = [request EXCEPT ![l].status = "done", ![l].box = FALSE]
              /\ account' = [account EXCEPT !.payload = l]
           \/ /\ (request[l].status = "verifying" /\ ~fit) \/ request[l].status = "waiting"
              /\ request' = [request EXCEPT ![l] = Closed(@, "failed")]
              /\ UNCHANGED account
           \/ /\ request[l].status \notin {"verifying", "waiting"}
              /\ UNCHANGED <<request, account>>
        /\ LGoes(w, "closing")
        /\ UNCHANGED <<homes, webLeft>>

\* The finally of run_login.
CloseLogin(w) ==
    /\ worker[w].pc = "closing"
    /\ homes' = homes \ {worker[w].login}
    /\ worker' = [worker EXCEPT ![w] = [NoLogin EXCEPT !.pc = "ready"]]
    /\ UNCHANGED <<request, account, webLeft>>

WorkerDies(w) ==
    /\ worker[w].pc \notin {"idle", "ready"}
    /\ PaysLogin("die")
    /\ worker' = [worker EXCEPT ![w] = NoLogin]
    /\ UNCHANGED <<request, account, homes>>

-----------------------------------------------------------------------------
(* Time, and the credential *)

Expires(l) ==
    /\ IsActive(l) /\ ~request[l].expired
    /\ request' = [request EXCEPT ![l].expired = TRUE]
    /\ UNCHANGED <<account, worker, homes, webLeft>>

\* STALE_S without a heartbeat: the worker is dead, or only slow.
GoesStale(l) ==
    /\ request[l].status \in {"starting", "waiting", "verifying"} /\ ~request[l].stale
    /\ PaysLogin("stale")
    /\ request' = [request EXCEPT ![l].stale = TRUE]
    /\ UNCHANGED <<account, worker, homes>>

\* A run takes or gives back the lease; an operator disables the credential.
AccountChanges ==
    /\ PaysLogin("account")
    /\ account' \in {[account EXCEPT !.leased = ~@], [account EXCEPT !.enabled = ~@]}
    /\ UNCHANGED <<request, worker, homes>>

LoginStep(w) ==
    \/ SweepLists(w) \/ SweepMarks(w) \/ SweepReads(w) \/ SweepRemoves(w)
    \/ \E l \in Logins : ClaimLogin(w, l)
    \/ WorkerStops(w) \/ MakeHome(w) \/ Prompt(w) \/ Watch(w) \/ TakeCode(w) \/ Poll(w)
    \/ BeginSave(w) \/ Save(w) \/ CloseLogin(w)

LoginNext ==
    \/ \E w \in LoginWorkers : LoginStep(w) \/ WorkerDies(w)
    \/ \E l \in Logins : RequestLogin(l) \/ PutCode(l) \/ CancelLogin(l) \/ Expires(l) \/ GoesStale(l)
    \/ AccountChanges

LoginSpec == LoginInit /\ [][LoginNext]_loginVars

-----------------------------------------------------------------------------
(* Properties *)

\* sweep never removes the HOME of a sign-in that goes on, in whatever order it lists,
\* reads and removes beside workers that start one.
HomeKept == \A w \in LoginWorkers :
    /\ worker[w].pc \in {"prompting", "watching", "taking", "polling", "verifying", "saving"}
    /\ IsActive(worker[w].login)
    => worker[w].login \in homes
=============================================================================
