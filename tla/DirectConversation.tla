------------------------- MODULE DirectConversation -------------------------
(***************************************************************************)
(* The in-memory store of direct conversations                             *)
(* (lai_gateway/direct_conversation.py) and the HTTP handler threads that  *)
(* use it (lai_gateway/server.py).                                         *)
(*                                                                         *)
(* Every method of the store runs under the store's lock and is one        *)
(* action.  A chat handler takes the lock two or three times: begin_turn,  *)
(* then the model call outside the lock, then finish_turn, or abort_turn   *)
(* followed by snapshot.  Other handlers run in between.                   *)
(*                                                                         *)
(* An exchange (user message and answer) is known by the number of its     *)
(* turn and its length.  It also carries what the model saw when it        *)
(* answered, a history variable for the properties.                        *)
(***************************************************************************)
EXTENDS Integers, Sequences, FiniteSets

CONSTANTS
  Threads,          \* HTTP handler threads
  Ids,              \* values of "dc-" + secrets.token_hex(8)
  NoId,
  Operations,       \* bound: the store operations clients ask for
  Lengths,          \* bound: lengths of the exchanges, both texts together
  MaxSessions,      \* DIRECT_CONVERSATION_MAX_SESSIONS
  MaxExchanges,     \* DIRECT_CONVERSATION_MAX_EXCHANGES
  MaxChars,         \* DIRECT_CONVERSATION_MAX_CHARS
  ModelExchanges,   \* half of the 16 messages the model client accepts
  ModelChars,       \* the 24000 characters the model client accepts
  MaxExchange,      \* 12000 characters of prompt and 8000 of answer
  MaxTurns,         \* bound: chat turns
  MaxRestarts       \* bound: restarts of the gateway

ASSUME StoreAssumption ==
  /\ NoId \notin Ids
  /\ Operations \subseteq {"create", "inspect", "reset", "chat"}
  /\ MaxSessions \in Nat \ {0}
  /\ MaxExchanges \in Nat \ {0}
  /\ MaxChars \in Nat \ {0}
  /\ MaxTurns \in Nat
  /\ MaxRestarts \in Nat

\* How the bounds of the store, of the chat endpoint and of the model client
\* relate in the code: 8 exchanges and 16 messages, 24000 and 24000, 20000.
ASSUME BoundsAssumption ==
  /\ ModelExchanges \in Nat /\ MaxExchanges <= ModelExchanges
  /\ ModelChars \in Nat /\ MaxChars <= ModelChars
  /\ MaxExchange \in Nat /\ MaxExchange <= MaxChars
  /\ Lengths \subseteq 2..MaxExchange

VARIABLES
  order,      \* keys of the OrderedDict, least recently used first
  talk,       \* the _Conversation of each id
  pc,         \* control point of each handler thread
  job,        \* what each handler thread holds in its locals
  turns,      \* turns begun, which numbers them
  restarts

vars == <<order, talk, pc, job, turns, restarts>>
store == <<order, talk>>

Exchanges == [turn : Nat, chars : Nat, saw : Seq(Nat)]
Conversations == [messages : Seq(Exchanges), busy : BOOLEAN]
New == [messages |-> << >>, busy |-> FALSE]

Results == {"none", "ready", "fallback", "error"}
Replies == {"none", "done", "fallback", "busy", "notfound", "raised"}
Jobs == [id : Ids \cup {NoId}, turn : Nat, history : Seq(Exchanges),
         chars : Nat, result : Results, reply : Replies]
NoJob == [id |-> NoId, turn |-> 0, history |-> << >>,
          chars |-> 0, result |-> "none", reply |-> "none"]

InTurn == {"model", "finish", "abort"}
Points == {"idle", "create", "inspect", "reset", "chat", "lookback", "replied"} \cup InTurn

-----------------------------------------------------------------------------
(* _get, _trim and the OrderedDict *)

Held == {order[i] : i \in DOMAIN order}

Place(id) == CHOOSE i \in DOMAIN order : order[i] = id

Without(id) == [i \in 1..(Len(order) - 1) |-> order[IF i < Place(id) THEN i ELSE i + 1]]

Latest(id) == Append(Without(id), id)

Turns(h) == [i \in DOMAIN h |-> h[i].turn]

Chars(h) ==
  LET upto[i \in 0..Len(h)] == IF i = 0 THEN 0 ELSE upto[i - 1] + h[i].chars
  IN  upto[Len(h)]

Fits(h) == Len(h) <= MaxExchanges /\ Chars(h) <= MaxChars

Suffix(h, k) == SubSeq(h, k + 1, Len(h))

\* Faulty variant: complete exchanges are discarded at the wrong end.
TrimNewest(h) ==
  SubSeq(h, 1, CHOOSE k \in 0..Len(h) :
                 /\ Fits(SubSeq(h, 1, k))
                 /\ \A j \in (k + 1)..Len(h) : ~ Fits(SubSeq(h, 1, j)))

\* Faulty variant: at most one exchange is discarded.
TrimOnce(h) == IF Fits(h) THEN h ELSE Suffix(h, 1)

\* _trim deletes the oldest exchange until both limits hold.
Trim(h) ==
  Suffix(h, CHOOSE k \in 0..Len(h) :
              /\ Fits(Suffix(h, k))
              /\ \A j \in 0..(k - 1) : ~ Fits(Suffix(h, j)))

HistoryAccepted(h) == Len(h) <= ModelExchanges /\ Chars(h) <= ModelChars

Goto(p, point) == pc' = [pc EXCEPT ![p] = point]

Reply(p, id, answer) ==
  /\ Goto(p, "replied")
  /\ job' = [job EXCEPT ![p].id = id, ![p].reply = answer]

-----------------------------------------------------------------------------
(* The handlers *)

\* The last conjunct only enforces the bound on turns.
Request(p, op, id) ==
  /\ pc[p] = "idle"
  /\ op = "chat" => turns + Cardinality({q \in Threads : pc[q] = "chat"}) < MaxTurns
  /\ Goto(p, op)
  /\ job' = [job EXCEPT ![p].id = id]
  /\ UNCHANGED <<store, turns, restarts>>

Deliver(p) ==
  /\ pc[p] = "replied"
  /\ Goto(p, "idle")
  /\ job' = [job EXCEPT ![p] = NoJob]
  /\ UNCHANGED <<store, turns, restarts>>

Full == Len(order) >= MaxSessions

Removable(i) == i \in DOMAIN order /\ ~ talk[order[i]].busy

\* Faulty variant: the oldest conversation is evicted, busy or not.
VictimAny == order[1]

Victim == order[CHOOSE i \in DOMAIN order :
                  Removable(i) /\ \A j \in 1..(i - 1) : ~ Removable(j)]

CreateBusy(p) ==
  /\ pc[p] = "create"
  /\ Full
  /\ \A i \in DOMAIN order : ~ Removable(i)
  /\ Reply(p, NoId, "busy")
  /\ UNCHANGED <<store, turns, restarts>>

\* The store never holds more than MaxSessions, so one eviction makes room.
Insert(id) ==
  /\ Full => \E i \in DOMAIN order : Removable(i)
  /\ LET kept == IF Full THEN Without(Victim) ELSE order
     IN  /\ \A i \in DOMAIN kept : kept[i] # id
         /\ order' = Append(kept, id)
         /\ talk' = [x \in Ids |->
                       IF x = id \/ (Full /\ x = Victim) THEN New ELSE talk[x]]

Create(p) ==
  /\ pc[p] = "create"
  /\ \E id \in Ids : Insert(id) /\ Reply(p, id, "done")
  /\ UNCHANGED <<turns, restarts>>

NotFound(p) ==
  /\ pc[p] \in {"inspect", "reset", "chat"}
  /\ job[p].id \notin Held
  /\ Reply(p, job[p].id, "notfound")
  /\ UNCHANGED <<store, turns, restarts>>

Inspect(p) ==
  /\ pc[p] = "inspect"
  /\ job[p].id \in Held
  /\ order' = Latest(job[p].id)
  /\ Reply(p, job[p].id, "done")
  /\ UNCHANGED <<talk, turns, restarts>>

Busy(p) ==
  /\ pc[p] \in {"reset", "chat"}
  /\ job[p].id \in Held
  /\ talk[job[p].id].busy
  /\ Reply(p, job[p].id, "busy")
  /\ UNCHANGED <<store, turns, restarts>>

Reset(p) ==
  /\ pc[p] = "reset"
  /\ job[p].id \in Held
  /\ ~ talk[job[p].id].busy
  /\ talk' = [talk EXCEPT ![job[p].id].messages = << >>]
  /\ Reply(p, job[p].id, "done")
  /\ UNCHANGED <<order, turns, restarts>>

\* Faulty variant: two turns of one conversation may overlap.
BeginTurnBusy(p) ==
  /\ pc[p] = "chat"
  /\ job[p].id \in Held
  /\ turns' = turns + 1
  /\ talk' = [talk EXCEPT ![job[p].id].busy = TRUE]
  /\ order' = Latest(job[p].id)
  /\ job' = [job EXCEPT ![p].turn = turns + 1, ![p].history = talk[job[p].id].messages]
  /\ Goto(p, "model")
  /\ UNCHANGED restarts

BeginTurn(p) ==
  /\ pc[p] = "chat"
  /\ job[p].id \in Held
  /\ ~ talk[job[p].id].busy
  /\ turns' = turns + 1
  /\ talk' = [talk EXCEPT ![job[p].id].busy = TRUE]
  /\ order' = Latest(job[p].id)
  /\ job' = [job EXCEPT ![p].turn = turns + 1, ![p].history = talk[job[p].id].messages]
  /\ Goto(p, "model")
  /\ UNCHANGED restarts

\* collect_model_chat, outside the lock: an answer, a fallback text (runtime
\* missing, blocked, unreachable, empty answer, or history refused) or an
\* exception.
ModelAnswers(p) ==
  /\ pc[p] = "model"
  /\ HistoryAccepted(job[p].history)
  /\ \E n \in Lengths : job' = [job EXCEPT ![p].chars = n, ![p].result = "ready"]
  /\ Goto(p, "finish")
  /\ UNCHANGED <<store, turns, restarts>>

ModelFails(p) ==
  /\ pc[p] = "model"
  /\ \E r \in {"fallback", "error"} :
       /\ r = "error" => HistoryAccepted(job[p].history)
       /\ job' = [job EXCEPT ![p].result = r]
  /\ Goto(p, "abort")
  /\ UNCHANGED <<store, turns, restarts>>

Committed(p) ==
  Append(talk[job[p].id].messages,
         [turn |-> job[p].turn, chars |-> job[p].chars, saw |-> Turns(job[p].history)])

\* finish_turn; both texts are stripped and non-empty here (server.py:1787 and
\* model.py:1732), a missing conversation or an inactive turn raises.
FinishTurn(p) ==
  /\ pc[p] = "finish"
  /\ IF job[p].id \in Held /\ talk[job[p].id].busy
     THEN /\ talk' = [talk EXCEPT ![job[p].id] =
                        [messages |-> Trim(Committed(p)), busy |-> FALSE]]
          /\ Reply(p, job[p].id, "done")
     ELSE Reply(p, job[p].id, "raised") /\ UNCHANGED talk
  /\ UNCHANGED <<order, turns, restarts>>

\* Faulty variant: a failed turn leaves its conversation busy.
AbortTurnStuck(p) ==
  /\ pc[p] = "abort"
  /\ IF job[p].result = "error"
     THEN Reply(p, job[p].id, "raised")
     ELSE Goto(p, "lookback") /\ UNCHANGED job
  /\ UNCHANGED <<store, turns, restarts>>

\* abort_turn; the exception is raised again, the fallback goes on to report.
AbortTurn(p) ==
  /\ pc[p] = "abort"
  /\ talk' = IF job[p].id \in Held
             THEN [talk EXCEPT ![job[p].id].busy = FALSE]
             ELSE talk
  /\ IF job[p].result = "error"
     THEN Reply(p, job[p].id, "raised")
     ELSE Goto(p, "lookback") /\ UNCHANGED job
  /\ UNCHANGED <<order, turns, restarts>>

\* The snapshot behind the abort takes the lock again; nobody catches its
\* DirectConversationNotFound.
Lookback(p) ==
  /\ pc[p] = "lookback"
  /\ IF job[p].id \in Held
     THEN order' = Latest(job[p].id) /\ Reply(p, job[p].id, "fallback")
     ELSE Reply(p, job[p].id, "raised") /\ UNCHANGED order
  /\ UNCHANGED <<talk, turns, restarts>>

\* Everything is in memory: a restarted gateway starts empty.
Restart ==
  /\ restarts < MaxRestarts
  /\ restarts' = restarts + 1
  /\ order' = << >>
  /\ talk' = [id \in Ids |-> New]
  /\ pc' = [p \in Threads |-> "idle"]
  /\ job' = [p \in Threads |-> NoJob]
  /\ UNCHANGED turns

-----------------------------------------------------------------------------

Init ==
  /\ order = << >>
  /\ talk = [id \in Ids |-> New]
  /\ pc = [p \in Threads |-> "idle"]
  /\ job = [p \in Threads |-> NoJob]
  /\ turns = 0
  /\ restarts = 0

Store(p) ==
  \/ Create(p) \/ CreateBusy(p) \/ NotFound(p) \/ Inspect(p) \/ Busy(p)
  \/ Reset(p) \/ BeginTurn(p)

Handler(p) ==
  \/ Store(p)
  \/ ModelAnswers(p) \/ ModelFails(p)
  \/ FinishTurn(p) \/ AbortTurn(p) \/ Lookback(p)

Next ==
  \/ \E p \in Threads :
       \/ \E op \in Operations \ {"create"} : \E id \in Ids : Request(p, op, id)
       \/ "create" \in Operations /\ Request(p, "create", NoId)
       \/ Handler(p)
       \/ Deliver(p)
  \/ Restart

Spec == Init /\ [][Next]_vars

-----------------------------------------------------------------------------
(* Properties *)

\* Types with the limits on the data: the bounds of
\* direct_conversation_session.md:40-42 hold in every state, and a history
\* handed to the model is never one that model.py:408-448 refuses as too long,
\* so "conversation history is invalid" never answers a conversation the
\* gateway kept itself.
TypeOK ==
  /\ order \in Seq(Ids)
  /\ \A i, j \in DOMAIN order : order[i] = order[j] => i = j
  /\ Len(order) <= MaxSessions
  /\ talk \in [Ids -> Conversations]
  /\ \A id \in Ids : Fits(talk[id].messages)
  /\ pc \in [Threads -> Points]
  /\ job \in [Threads -> Jobs]
  /\ \A p \in Threads : pc[p] = "model" => HistoryAccepted(job[p].history)
  /\ turns \in Nat
  /\ restarts \in Nat

\* "Only one model turn may be active for the same direct conversation at a
\* time" (docs/product/direct_conversation_session.md:74): a handler between
\* begin_turn and finish_turn or abort_turn is the only one with that
\* conversation, finds it still in the store, and the busy flag is set exactly
\* while there is such a handler.
BusyMeansOneTurn ==
  /\ \A p, q \in Threads :
       pc[p] \in InTurn /\ pc[q] \in InTurn /\ job[p].id = job[q].id => p = q
  /\ \A p \in Threads : pc[p] \in InTurn => job[p].id \in Held
  /\ \A id \in Held :
       talk[id].busy <=> \E p \in Threads : pc[p] \in InTurn /\ job[p].id = id

\* The exchange a turn commits is never the one trimming discards, although
\* _trim may empty a conversation: the next turn always sees its predecessor.
LatestKept ==
  [][\A p \in Threads :
       pc[p] = "finish" /\ pc'[p] = "replied" =>
         LET h == talk'[job[p].id].messages
         IN  h # << >> /\ h[Len(h)].turn = job[p].turn]_vars

\* No conversation is locked out for good by a turn that failed, fell back or
\* raised: the busy flag is always cleared again.
BusyEnds ==
  \A id \in Ids : (id \in Held /\ talk[id].busy) ~> ~ (id \in Held /\ talk[id].busy)

\* Every request is answered: no handler waits for another one.
RequestsAnswered ==
  \A p \in Threads : (pc[p] # "idle") ~> (pc[p] \in {"idle", "replied"})

\* The store with its handlers implements conversations whose turns are atomic:
\* "preserve multi-turn ordering within that session"
\* (pr_133_direct_conversation_session.md:45), every answer was given in full
\* knowledge of all earlier exchanges that are still in the history.
Atomic ==
  INSTANCE ConversationLog WITH
    log <- [id \in Ids |-> [open |-> id \in Held, messages |-> talk[id].messages]]

AbstractSpec == Atomic!Spec
=============================================================================
