---------------------------- MODULE WorkbenchChat ----------------------------
(***************************************************************************)
(* The Workbench page (lai_gateway/static/app.js) talking to the direct    *)
(* conversations of the gateway: module DirectConversation serves every    *)
(* request the page makes.                                                 *)
(*                                                                         *)
(* The page is single threaded, but each click or Enter key starts an      *)
(* asynchronous task that is suspended at every "await requestJson", and   *)
(* nothing disables the buttons meanwhile.  Two tasks share the variables  *)
(* activeDirectConversationId and directConversationPending.  A task and    *)
(* the handler thread that serves its requests have the same name.         *)
(***************************************************************************)
EXTENDS DirectConversation

\* Enough ids that one is left to draw: for each held conversation, the page's
\* and each thread's.
EnoughIds ==
  /\ IsFiniteSet(Ids) /\ IsFiniteSet(Threads)
  /\ Cardinality(Ids) > MaxSessions + 1 + Cardinality(Threads)

VARIABLES
  activeId,    \* activeDirectConversationId
  pending,     \* directConversationPending
  task,        \* what each task of the page waits for
  fresh        \* history: "Nova conversa" was announced and no message sent
               \* since; "amid" if a message was under way at that moment

page == <<activeId, pending, task, fresh>>
chatVars == <<vars, page>>

Waits == {"none", "ensure", "new", "answer"}

\* Clicks beyond the tasks of the model are left out: a bound.
MayStart(t) == task[t] = "none"

Announced(t) ==
  IF \E u \in Threads \ {t} : task[u] = "answer" THEN "amid" ELSE "quiet"

Await(t, what) == task' = [task EXCEPT ![t] = what]

-----------------------------------------------------------------------------

PostChat(t, id) ==
  /\ Request(t, "chat", id)
  /\ pending' = TRUE
  /\ activeId' = id
  /\ fresh' = "no"
  /\ Await(t, "answer")

\* sendWorkbenchDirectChat: the page already has a conversation.
Send(t) ==
  /\ MayStart(t)
  /\ activeId # NoId
  /\ PostChat(t, activeId)

\* sendWorkbenchDirectChat: the page has none and creates it first; with a
\* turn pending createDirectConversation throws and nothing happens.  Until the
\* creation is answered the page is not pending, and "Nova conversa" may start.
SendFirst(t) ==
  /\ MayStart(t)
  /\ activeId = NoId
  /\ ~ pending
  /\ Request(t, "create", NoId)
  /\ Await(t, "ensure")
  /\ UNCHANGED <<activeId, pending, fresh>>

NewConversation(t) ==
  /\ MayStart(t)
  /\ ~ pending
  /\ Request(t, "create", NoId)
  /\ Await(t, "new")
  /\ UNCHANGED <<activeId, pending, fresh>>

\* The reply to the create of SendFirst: the id is adopted and the message is
\* sent with it, in one turn of the page's event loop.
EnsureDone(t) ==
  /\ pc[t] = "replied"
  /\ task[t] = "ensure"
  /\ job[t].reply = "done"
  /\ pc' = [pc EXCEPT ![t] = "chat"]
  /\ turns + Cardinality({q \in Threads : pc[q] = "chat"}) < MaxTurns
  /\ job' = [job EXCEPT ![t] = [NoJob EXCEPT !.id = job[t].id]]
  /\ pending' = TRUE
  /\ activeId' = job[t].id
  /\ fresh' = "no"
  /\ Await(t, "answer")
  /\ UNCHANGED <<store, turns, restarts>>

\* Faulty variant: an id the page already has is not replaced.
NewDoneKeepingOld(t) ==
  /\ task[t] = "new"
  /\ job[t].reply = "done"
  /\ Deliver(t)
  /\ activeId' = IF activeId = NoId THEN job[t].id ELSE activeId
  /\ fresh' = Announced(t)
  /\ Await(t, "none")
  /\ UNCHANGED pending

NewDone(t) ==
  /\ task[t] = "new"
  /\ job[t].reply = "done"
  /\ Deliver(t)
  /\ activeId' = job[t].id
  /\ fresh' = Announced(t)
  /\ Await(t, "none")
  /\ UNCHANGED pending

\* requestJson throws for every status but 2xx: the task ends.
CreateRefused(t) ==
  /\ task[t] \in {"ensure", "new"}
  /\ job[t].reply # "done"
  /\ Deliver(t)
  /\ Await(t, "none")
  /\ UNCHANGED <<activeId, pending, fresh>>

\* The answer, or the error, of a chat request: "finally" clears the flag, and
\* setDirectConversationState adopts the conversation id of an answer.
AnswerDone(t) ==
  /\ task[t] = "answer"
  /\ Deliver(t)
  /\ pending' = FALSE
  /\ activeId' = IF job[t].reply \in {"done", "fallback"} THEN job[t].id ELSE activeId
  /\ Await(t, "none")
  /\ UNCHANGED fresh

\* A create of the bound's last turn has nowhere to go: the page is closed.
PageClosed(t) ==
  /\ pc[t] = "replied"
  /\ task[t] = "ensure"
  /\ job[t].reply = "done"
  /\ turns + Cardinality({q \in Threads : pc[q] = "chat"}) >= MaxTurns
  /\ Deliver(t)
  /\ activeId' = job[t].id
  /\ Await(t, "none")
  /\ UNCHANGED <<pending, fresh>>

\* The connections of a restarted gateway break: the page sees errors.
GatewayRestart ==
  /\ Restart
  /\ task' = [t \in Threads |-> "none"]
  /\ pending' = FALSE
  /\ UNCHANGED <<activeId, fresh>>

-----------------------------------------------------------------------------

ChatInit ==
  /\ Init
  /\ activeId = NoId
  /\ pending = FALSE
  /\ task = [t \in Threads |-> "none"]
  /\ fresh = "no"

Page(t) ==
  \/ EnsureDone(t) \/ NewDone(t) \/ CreateRefused(t) \/ AnswerDone(t) \/ PageClosed(t)

\* An id of 64 random bits is not drawn again while the page or a handler still
\* knows it; which of the other ids is drawn makes no difference.
Drawn ==
  CHOOSE id \in Ids : id \notin Held \cup {activeId} \cup {job[q].id : q \in Threads}

Serve(p) ==
  /\ Handler(p)
  /\ pc[p] = "create" /\ job'[p].reply = "done" => job'[p].id = Drawn
  /\ UNCHANGED page

\* Other pages and clients open conversations of their own, which can evict
\* this page's.
OtherCreates ==
  /\ Insert(Drawn)
  /\ UNCHANGED <<pc, job, turns, restarts, page>>

ChatNext ==
  \/ \E t \in Threads : Send(t) \/ SendFirst(t) \/ NewConversation(t) \/ Page(t)
  \/ \E p \in Threads : Serve(p)
  \/ OtherCreates
  \/ GatewayRestart

ChatSpec == ChatInit /\ [][ChatNext]_chatVars

\* Handler threads are scheduled by the operating system, the store's lock is
\* never held across a blocking call and the model client has a timeout; the
\* page's event loop delivers every reply.
ChatFairSpec ==
  /\ ChatSpec
  /\ \A p \in Threads : WF_chatVars(Serve(p))
  /\ \A t \in Threads : WF_chatVars(Page(t))

-----------------------------------------------------------------------------
(* Properties *)

\* "Creating a new conversation must start without prior conversational
\* history" (pr_133_direct_conversation_session.md:61): after the page announced
\* a new conversation, the conversation the next message goes to is empty.  The
\* answer of a message whose own creation was under way together with that of
\* the new conversation breaks it.
NewStartsEmpty ==
  fresh # "no" /\ activeId \in Held => talk[activeId].messages = << >>

\* The same for a user who waits for the answers before asking for a new
\* conversation, with further creations of the page, other clients, evictions
\* and a restart in between.
QuietNewStartsEmpty ==
  fresh = "quiet" /\ activeId \in Held => talk[activeId].messages = << >>

\* The page is never left refusing new conversations for a turn that is over.
PendingEnds == pending ~> ~ pending

\* Nothing stays waiting, whatever failed on the way: the page for an answer, a
\* conversation for the end of its turn, a request for its reply.
NothingStaysWaiting == PendingEnds /\ BusyEnds /\ RequestsAnswered
=============================================================================
