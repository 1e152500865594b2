---------------------------- MODULE Conversation ----------------------------
(***************************************************************************)
(* Conversations and their messages: a message is posted in one            *)
(* transaction, its job published in a second and recorded in a third; a   *)
(* sweep finishes what a dead request left; retention archives idle        *)
(* conversations and deletes archived ones.                                *)
(*                                                                         *)
(* Every write on a conversation takes its row lock first, so a            *)
(* transaction is one step.  A message of a panel conversation is a turn   *)
(* of its own job; one of a channel conversation is a follow-up that the   *)
(* finalizer knows only by the recorded job id.                            *)
(***************************************************************************)
EXTENDS Integers, FiniteSets

CONSTANTS
    Chats,          \* conversations of one user
    Channels,       \* those that a channel owns
    Messages,       \* message ids, numbers in insertion order
    Posts,          \* HTTP requests that post a message
    Targets,        \* the conversation and client_message_id of each: a set of functions
    MaxPinned,      \* MAX_PINNED
    ChatBudgets     \* bounds on faults, pauses, the user's steps and time: a set of records

SWEEP == "sweep"

ASSUME PostsAssumption == SWEEP \notin Posts
ASSUME TargetsAssumption == \A to \in Targets : \A p \in Posts : to[p].chat \in Chats

VARIABLES
    chat,       \* conversation rows
    msg,        \* message rows of the user
    turn,       \* the job of a message, by its idempotency key
    actor,      \* the requests and the sweep
    retain,     \* the retention command: what it listed
    chatLeft    \* what is left of the bounds

chatVars == <<chat, msg, turn, actor, retain, chatLeft>>

Actors    == Posts \cup {SWEEP}
Unsettled == {"pending", "published"}

NoMsg   == [state |-> "none", chat |-> 0, key |-> 0]
NoActor == [pc |-> "idle", msg |-> 0, chat |-> 0, key |-> 0]

\* create_conversation made them.
ChatInit ==
    /\ chat = [c \in Chats |-> [status |-> "active", why |-> "none", pinned |-> FALSE,
                                idle |-> FALSE, old |-> FALSE]]
    /\ msg = [m \in Messages |-> NoMsg]
    /\ turn = [m \in Messages |-> "none"]
    /\ \E to \in Targets :
         actor = [a \in Actors |-> IF a \in Posts
                    THEN [NoActor EXCEPT !.chat = to[a].chat, !.key = to[a].key] ELSE NoActor]
    /\ retain = [pc |-> "idle", ids |-> {}]
    /\ chatLeft \in ChatBudgets

Takes(k) == chatLeft[k] > 0 /\ chatLeft' = [chatLeft EXCEPT ![k] = @ - 1]
ActorGoes(a, pc) == actor' = [actor EXCEPT ![a].pc = pc]

OfChat(c) == {m \in Messages : msg[m].state # "none" /\ msg[m].chat = c}
WithKey(c, k) == {m \in OfChat(c) : msg[m].key = k}
NextMsg(m) == /\ msg[m].state = "none" /\ turn[m] = "none"
              /\ \A k \in Messages : k < m => msg[k].state # "none" \/ turn[k] # "none"

\* _reactivate_locked
Reactivated(row) == IF row.status = "active" THEN row
                    ELSE [row EXCEPT !.status = "active", !.why = "none", !.old = FALSE]

-----------------------------------------------------------------------------
(* submit_message, regenerate *)

\* regenerate reads the earlier message in a transaction of its own: none, and it is a 404;
\* else its text is submitted as a new message.
RegenerateRefused(p) ==
    /\ actor[p].pc = "idle"
    /\ OfChat(actor[p].chat) = {}
    /\ ActorGoes(p, "answered")
    /\ UNCHANGED <<chat, msg, turn, retain, chatLeft>>

\* The conversation is revived and the message inserted, or its key is a duplicate and
\* all of it rolled back; a deleted conversation is a 404.
Submit(p) ==
    LET c == actor[p].chat
    IN  /\ actor[p].pc = "idle"
        /\ \/ /\ chat[c].status # "deleted" /\ WithKey(c, actor[p].key) = {}
              /\ \E m \in Messages :
                   /\ NextMsg(m)
                   /\ msg' = [msg EXCEPT ![m] = [state |-> "pending", chat |-> c, key |-> actor[p].key]]
                   /\ actor' = [actor EXCEPT ![p].pc = "complete", ![p].msg = m]
              /\ chat' = [chat EXCEPT ![c] = [Reactivated(@) EXCEPT !.idle = FALSE]]
           \/ /\ ActorGoes(p, IF chat[c].status # "deleted" THEN "duplicate" ELSE "answered")
              /\ chat[c].status = "deleted" \/ WithKey(c, actor[p].key) # {}
              /\ UNCHANGED <<chat, msg>>
        /\ UNCHANGED <<turn, retain, chatLeft>>

\* The duplicate's own transaction: reactivate, then the message that won.
Duplicate(p) ==
    LET c == actor[p].chat
    IN  /\ actor[p].pc = "duplicate"
        /\ \/ /\ chat[c].status # "deleted"
              /\ chat' = [chat EXCEPT ![c] = Reactivated(@)]
              /\ \E m \in WithKey(c, actor[p].key) :
                   actor' = [actor EXCEPT ![p].pc = "complete", ![p].msg = m]
           \/ /\ chat[c].status = "deleted"
              /\ ActorGoes(p, "answered")
              /\ UNCHANGED chat
        /\ UNCHANGED <<msg, turn, retain, chatLeft>>

\* complete_pending reads the message: gone, or no longer pending, and it is done.
CompleteReads(a) ==
    /\ actor[a].pc = "complete"
    /\ ActorGoes(a, IF msg[actor[a].msg].state = "pending" THEN "publish" ELSE "answered")
    /\ UNCHANGED <<chat, msg, turn, retain, chatLeft>>

\* publish_job, under a key made of the conversation and the message.
CompletePublishes(a) ==
    LET m == actor[a].msg
    IN  /\ actor[a].pc = "publish"
        /\ turn' = IF turn[m] = "none" THEN [turn EXCEPT ![m] = "open"] ELSE turn
        /\ ActorGoes(a, "record")
        /\ UNCHANGED <<chat, msg, retain, chatLeft>>

\* The job is recorded under its row lock: one that is over already closes the message.
CompleteRecords(a) ==
    LET m == actor[a].msg
    IN  /\ actor[a].pc = "record"
        /\ msg' = IF msg[m].state = "pending"
                  THEN [msg EXCEPT ![m].state = IF turn[m] = "over" THEN "terminal" ELSE "published"]
                  ELSE msg
        /\ ActorGoes(a, "answered")
        /\ UNCHANGED <<chat, turn, retain, chatLeft>>

\* The process dies between two transactions.
ActorDies(a) ==
    /\ actor[a].pc \in {"duplicate", "complete", "publish", "record"}
    /\ Takes("die")
    /\ ActorGoes(a, "answered")
    /\ UNCHANGED <<chat, msg, turn, retain>>

\* Faulty: the sweep looks for messages whose job was published.
SweepPendingWithJob(m) ==
    /\ actor[SWEEP].pc \in {"idle", "answered"}
    /\ msg[m].state = "pending" /\ turn[m] # "none"
    /\ actor' = [actor EXCEPT ![SWEEP] = [NoActor EXCEPT !.pc = "complete", !.msg = m]]
    /\ UNCHANGED <<chat, msg, turn, retain, chatLeft>>

\* sweep_pending, one message.
SweepPending(m) ==
    /\ actor[SWEEP].pc \in {"idle", "answered"}
    /\ msg[m].state = "pending"
    /\ actor' = [actor EXCEPT ![SWEEP] = [NoActor EXCEPT !.pc = "complete", !.msg = m]]
    /\ UNCHANGED <<chat, msg, turn, retain, chatLeft>>

\* reconcile_terminal
ReconcileTerminal ==
    LET done == {m \in Messages : msg[m].state = "published" /\ turn[m] = "over"}
    IN  /\ done # {}
        /\ msg' = [m \in Messages |-> IF m \in done THEN [msg[m] EXCEPT !.state = "terminal"] ELSE msg[m]]
        /\ UNCHANGED <<chat, turn, actor, retain, chatLeft>>

-----------------------------------------------------------------------------
(* The job of a message *)

\* link_execution on a channel: the run of a message whose job is recorded belongs to the
\* message's conversation; one of a message that is not, or that is gone, upserts the
\* conversation of the thread, which makes an archived or a deleted one active.
Linked(row, asked) == [row EXCEPT !.status = IF asked THEN @ ELSE "active", !.idle = FALSE]

\* A worker claims the job: its execution is linked and told of.  What is told moves a
\* channel's clock only; a panel's is that of its messages.
TurnStarts(m) ==
    LET c == msg[m].chat IN
    /\ turn[m] = "open"
    /\ turn' = [turn EXCEPT ![m] = "running"]
    /\ chat' = IF c \in Channels
               THEN [chat EXCEPT ![c] = Linked(@, msg[m].state \in {"published", "terminal"})] ELSE chat
    /\ UNCHANGED <<msg, actor, retain, chatLeft>>

\* The finalizer closes a panel message by its reference, a channel's by its job id, and tells
\* of the end.  Nobody does when the process that ended the job had no finalizer.
TurnEnds(m) ==
    LET c == msg[m].chat IN
    /\ turn[m] \in {"open", "running"}
    /\ turn' = [turn EXCEPT ![m] = "over"]
    /\ \/ /\ msg' = IF (msg[m].state = "published"
                         \/ (msg[m].state = "pending" /\ msg[m].chat \notin Channels))
                     THEN [msg EXCEPT ![m].state = "terminal"] ELSE msg
          /\ chat' = IF turn[m] = "running" /\ c \in Channels
                     THEN [chat EXCEPT ![c].idle = FALSE] ELSE chat
          /\ UNCHANGED chatLeft
       \/ Takes("die") /\ UNCHANGED <<chat, msg>>
    /\ UNCHANGED <<actor, retain>>

\* A pause before the run has a session cannot be resumed.
TurnSticks(m) ==
    /\ turn[m] \in {"open", "running"}
    /\ Takes("pause")
    /\ turn' = [turn EXCEPT ![m] = "stuck"]
    /\ UNCHANGED <<chat, msg, actor, retain>>

\* unblock: only a recorded message whose job is stuck.
Unblock(m) ==
    /\ msg[m].state = "published" /\ turn[m] = "stuck"
    /\ msg' = [msg EXCEPT ![m].state = "terminal"]
    /\ UNCHANGED <<chat, turn, actor, retain, chatLeft>>

-----------------------------------------------------------------------------
(* The user's other requests *)

Archive(c) ==
    /\ chat[c].status = "active"
    /\ Takes("user")
    /\ chat' = [chat EXCEPT ![c].status = "archived", ![c].why = "manual", ![c].old = FALSE]
    /\ UNCHANGED <<msg, turn, actor, retain>>

\* update_thread: counted over the active pinned ones, under the user's row lock.
Pin(c) ==
    /\ chat[c].status # "deleted"
    /\ Takes("user")
    /\ \/ chat' = [chat EXCEPT ![c].pinned = FALSE]
       \/ /\ Cardinality({d \in Chats \ {c} : chat[d].status = "active" /\ chat[d].pinned}) < MaxPinned
          /\ chat' = [chat EXCEPT ![c].pinned = TRUE]
    /\ UNCHANGED <<msg, turn, actor, retain>>

Deleted(c, why) ==
    /\ chat' = [chat EXCEPT ![c].status = "deleted", ![c].why = why, ![c].pinned = FALSE]
    /\ msg' = [m \in Messages |-> IF m \in OfChat(c) THEN [NoMsg EXCEPT !.chat = c] ELSE msg[m]]

\* delete_conversation
Delete(c) ==
    /\ chat[c].status # "deleted"
    /\ Takes("user")
    /\ Deleted(c, "deleted")
    /\ UNCHANGED <<turn, actor, retain>>

-----------------------------------------------------------------------------
(* conversation:retention *)

\* _IDLE: a panel conversation waits for its messages, a channel's for its runs.
Idle(c) ==
    /\ chat[c].status = "active" /\ ~chat[c].pinned /\ chat[c].idle
    /\ c \in Channels => \A m \in Messages : msg[m].chat = c => turn[m] # "running"
    /\ c \notin Channels => \A m \in OfChat(c) : msg[m].state = "terminal"

\* auto_archive lists, then delete_archived lists.
RetentionLists ==
    /\ \/ /\ retain.pc = "idle"
          /\ retain' = [pc |-> "archive", ids |-> {c \in Chats : Idle(c)}]
       \/ /\ retain.pc = "archive" /\ retain.ids = {}
          /\ retain' = [pc |-> "delete", ids |-> {c \in Chats : chat[c].status = "archived" /\ chat[c].old}]
       \/ retain.pc = "delete" /\ retain.ids = {} /\ retain' = [retain EXCEPT !.pc = "idle"]
    /\ UNCHANGED <<chat, msg, turn, actor, chatLeft>>

\* auto_archive: still_idle and archive under the row lock.
AutoArchive(c) ==
    /\ retain.pc = "archive" /\ c \in retain.ids
    /\ chat' = IF Idle(c)
               THEN [chat EXCEPT ![c].status = "archived", ![c].why = "idle", ![c].old = FALSE] ELSE chat
    /\ retain' = [retain EXCEPT !.ids = @ \ {c}]
    /\ UNCHANGED <<msg, turn, actor, chatLeft>>

\* Faulty: what was listed is deleted.
DeleteArchivedListed(c) ==
    /\ retain.pc = "delete" /\ c \in retain.ids
    /\ IF chat[c].status # "deleted" THEN Deleted(c, chat[c].why) ELSE UNCHANGED <<chat, msg>>
    /\ retain' = [retain EXCEPT !.ids = @ \ {c}]
    /\ UNCHANGED <<turn, actor, chatLeft>>

\* delete_tree with its condition checked again under the row lock.
DeleteArchived(c) ==
    /\ retain.pc = "delete" /\ c \in retain.ids
    /\ IF chat[c].status = "archived" /\ chat[c].old THEN Deleted(c, chat[c].why) ELSE UNCHANGED <<chat, msg>>
    /\ retain' = [retain EXCEPT !.ids = @ \ {c}]
    /\ UNCHANGED <<turn, actor, chatLeft>>

\* A conversation passes the age of idle_days, or of archived_days.
ChatAges(c) ==
    /\ Takes("time")
    /\ \/ chat[c].status = "active" /\ ~chat[c].idle /\ chat' = [chat EXCEPT ![c].idle = TRUE]
       \/ chat[c].status = "archived" /\ ~chat[c].old /\ chat' = [chat EXCEPT ![c].old = TRUE]
    /\ UNCHANGED <<msg, turn, actor, retain>>

-----------------------------------------------------------------------------

Completes(a) == CompleteReads(a) \/ CompletePublishes(a) \/ CompleteRecords(a)

ChatNext ==
    \/ \E p \in Posts : Submit(p) \/ RegenerateRefused(p) \/ Duplicate(p)
    \/ \E a \in Actors : Completes(a) \/ ActorDies(a)
    \/ \E m \in Messages : SweepPending(m) \/ TurnStarts(m) \/ TurnEnds(m) \/ TurnSticks(m) \/ Unblock(m)
    \/ ReconcileTerminal \/ RetentionLists
    \/ \E c \in Chats : \/ Archive(c) \/ Pin(c) \/ Delete(c) \/ AutoArchive(c) \/ DeleteArchived(c)
                        \/ ChatAges(c)

ChatSpec == ChatInit /\ [][ChatNext]_chatVars

\* The cron runs conversation:sweep again and again, to its end.
ChatFairness ==
    /\ WF_chatVars(Completes(SWEEP))
    /\ \A m \in Messages : WF_chatVars(SweepPending(m))
    /\ WF_chatVars(ReconcileTerminal)

-----------------------------------------------------------------------------
(* Properties *)

\* Retention never deletes a message of a panel conversation whose job is not over, unless
\* the user archived it: a post and a deletion serialize, and the post that wins survives.
PostsSurviveRetention ==
    [][\A m \in Messages :
         (msg[m].state \in Unsettled /\ msg[m].chat \notin Channels /\ msg'[m].state = "none") =>
         chat[msg[m].chat].why = "manual" \/ chat'[msg[m].chat].why = "deleted"]_chatVars

\* Every message is settled: one whose request died is published by the sweep, and one
\* whose job is over is closed, also when the job was over before it was recorded.
MessageSettles ==
    \A m \in Messages : (msg[m].state = "pending" \/ (msg[m].state = "published" /\ turn[m] = "over"))
        ~> \/ msg[m].state \in {"none", "terminal"}
           \/ msg[m].state = "published" /\ turn[m] # "over"

=============================================================================
