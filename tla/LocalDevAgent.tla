---------------------------- MODULE LocalDevAgent ----------------------------
(***************************************************************************)
(* The terminal development agent (lai_gateway/local_dev_agent.py): one    *)
(* LocalDevAgent object whose ask() lets the local model call tools for a  *)
(* bounded number of rounds.  The tool "harness_work" runs module          *)
(* HarnessWork; the others only read the project and are one step.         *)
(*                                                                         *)
(* The model's answers are arbitrary: any list of calls, well formed or    *)
(* not, at any time.  What was asked is known by its number.               *)
(***************************************************************************)
EXTENDS HarnessWork

CONSTANTS
  MaxRounds,       \* _MAX_TOOL_ROUNDS
  MaxPerRound,     \* _MAX_TOOL_CALLS_PER_ROUND
  MaxTotal,        \* _MAX_TOOL_CALLS_TOTAL
  MaxHistory,      \* _MAX_HISTORY_EXCHANGES
  MaxAsks          \* bound: messages of the user

ASSUME AgentAssumption ==
  /\ MaxRounds \in Nat
  /\ MaxPerRound \in Nat \ {0}
  /\ MaxTotal \in Nat
  /\ MaxHistory \in Nat \ {0}
  /\ MaxAsks \in Nat

VARIABLES
  allow,      \* allow_work, fixed when the agent is started
  apc,        \* control point of ask()
  ask,        \* the locals of ask(), and work_attempted
  history,    \* _history: the asks whose exchanges it holds
  result,     \* what the last ask() returned
  askOf,      \* history: the ask that started each work
  answered    \* history: the asks answered since the session began

agent == <<allow, apc, ask, history, result, askOf, answered>>
agentVars == <<workVars, agent>>

CallKinds == {"other", "work", "badwork"}

Asks == [no : Nat, required : BOOLEAN, attempted : BOOLEAN,
         round : Nat, calls : Nat, queue : Seq(CallKinds)]

NoAsk == [no |-> 0, required |-> FALSE, attempted |-> FALSE,
          round |-> 0, calls |-> 0, queue |-> << >>]

Results == [ask : Nat, required : BOOLEAN, attempted : BOOLEAN,
            overall : {"none", "ready", "blocked"}]

NoResult == [ask |-> 0, required |-> FALSE, attempted |-> FALSE, overall |-> "none"]

-----------------------------------------------------------------------------
(* _result, _trim_history *)

WorkReady == outcome = "ready"

Return(overall) ==
  /\ apc' = "idle"
  /\ ask' = [NoAsk EXCEPT !.no = ask.no]
  /\ result' = [ask |-> ask.no, required |-> ask.required, attempted |-> ask.attempted,
                overall |-> IF ask.attempted /\ ~ WorkReady THEN "blocked" ELSE overall]

Blocked == Return("blocked") /\ UNCHANGED <<history, answered>>

\* How much the limit on characters drops depends on the texts, but one
\* exchange (4000 and 8000 characters) always fits its 20000.
Remember ==
  LET longer == Append(history, ask.no)
  IN  /\ \E k \in 1..Len(longer) :
           /\ Len(longer) - k < MaxHistory
           /\ history' = SubSeq(longer, k, Len(longer))
      /\ answered' = Append(answered, ask.no)

-----------------------------------------------------------------------------
(* ask *)

\* required is _looks_like_work_request, which only counts with allow_work.
Ask ==
  /\ apc = "idle"
  /\ ask.no < MaxAsks
  /\ \E required \in {FALSE, allow} :
       ask' = [NoAsk EXCEPT !.no = ask.no + 1, !.required = required]
  /\ apc' = "round"
  /\ UNCHANGED <<workVars, allow, history, result, askOf, answered>>

\* The request failed, the answer is unusable, holds too many calls, comes
\* after the last round, or exceeds the total; or the model is not ready.
ModelUnusable ==
  /\ apc = "round"
  /\ Blocked
  /\ UNCHANGED <<workVars, allow, askOf>>

\* No calls but a text: the final answer, unless work was asked for and not
\* attempted (that case is a ModelUnusable).
ModelFinal ==
  /\ apc = "round"
  /\ ask.required => ask.attempted
  /\ Remember
  /\ Return("ready")
  /\ UNCHANGED <<workVars, allow, askOf>>

\* Faulty variant: the calls of earlier rounds do not count.
ModelCallsPerRound ==
  /\ apc = "round"
  /\ ask.round < MaxRounds
  /\ \E n \in 1..MaxPerRound :
       /\ n <= MaxTotal
       /\ \E queue \in [1..n -> CallKinds] :
            ask' = [ask EXCEPT !.calls = ask.calls + n, !.queue = queue]
  /\ apc' = "tools"
  /\ UNCHANGED <<workVars, allow, history, result, askOf, answered>>

ModelCalls ==
  /\ apc = "round"
  /\ ask.round < MaxRounds
  /\ \E n \in 1..MaxPerRound :
       /\ ask.calls + n <= MaxTotal
       /\ \E queue \in [1..n -> CallKinds] :
            ask' = [ask EXCEPT !.calls = ask.calls + n, !.queue = queue]
  /\ apc' = "tools"
  /\ UNCHANGED <<workVars, allow, history, result, askOf, answered>>

ToolOther ==
  /\ apc = "tools"
  /\ ask.queue # << >>
  /\ Head(ask.queue) = "other"
  /\ ask' = [ask EXCEPT !.queue = Tail(ask.queue)]
  /\ UNCHANGED <<workVars, allow, apc, history, result, askOf, answered>>

NextRound ==
  /\ apc = "tools"
  /\ ask.queue = << >>
  /\ ask' = [ask EXCEPT !.round = ask.round + 1]
  /\ apc' = "round"
  /\ UNCHANGED <<workVars, allow, history, result, askOf, answered>>

MayWork == Head(ask.queue) = "work" /\ allow /\ ~ ask.attempted

\* No opt-in, malformed, or a second submission: a blocked harness_work call
\* ends the ask.
ToolWorkRefused ==
  /\ apc = "tools"
  /\ ask.queue # << >>
  /\ Head(ask.queue) # "other"
  /\ ~ MayWork
  /\ Blocked
  /\ UNCHANGED <<workVars, allow, askOf>>

\* Faulty variant: the attempt is noted when the work is done, not before.
ToolWorkNotedLate ==
  /\ apc = "tools"
  /\ ask.queue # << >>
  /\ MayWork
  /\ StartWork \/ RejectWork
  /\ askOf' = Append(askOf, ask.no)
  /\ apc' = "work"
  /\ UNCHANGED <<allow, ask, history, result, answered>>

ToolWork ==
  /\ apc = "tools"
  /\ ask.queue # << >>
  /\ MayWork
  /\ StartWork \/ RejectWork
  /\ askOf' = Append(askOf, ask.no)
  /\ ask' = [ask EXCEPT !.attempted = TRUE]
  /\ apc' = "work"
  /\ UNCHANGED <<allow, history, result, answered>>

\* Faulty variant: the exchange is kept before the review is judged.
WorkDoneKept ==
  /\ apc = "work"
  /\ wpc = "idle"
  /\ Remember
  /\ Return("ready")
  /\ UNCHANGED <<workVars, allow, askOf>>

WorkDone ==
  /\ apc = "work"
  /\ wpc = "idle"
  /\ IF WorkReady THEN Remember /\ Return("ready") ELSE Blocked
  /\ UNCHANGED <<workVars, allow, askOf>>

-----------------------------------------------------------------------------
(* The terminal *)

\* "/reset", or a new process: the session starts over.
NewSession ==
  /\ apc = "idle"
  /\ history' = << >>
  /\ answered' = << >>
  /\ UNCHANGED <<workVars, allow, apc, ask, result, askOf>>

\* An exception nobody catches, or an interrupt, ends the process inside ask.
AgentDies ==
  /\ apc # "idle"
  /\ IF wpc = "idle" THEN UNCHANGED workVars ELSE Dies
  /\ apc' = "idle"
  /\ ask' = [NoAsk EXCEPT !.no = ask.no]
  /\ result' = NoResult
  /\ history' = << >>
  /\ answered' = << >>
  /\ UNCHANGED <<allow, askOf>>

-----------------------------------------------------------------------------

AgentInit ==
  /\ WorkInit
  /\ allow \in BOOLEAN
  /\ apc = "idle"
  /\ ask = NoAsk
  /\ history = << >>
  /\ result = NoResult
  /\ askOf = << >>
  /\ answered = << >>

AgentStep ==
  \/ ModelUnusable \/ ModelFinal \/ ModelCalls
  \/ ToolOther \/ NextRound \/ ToolWorkRefused \/ ToolWork \/ WorkDone

Outside == (Client \/ Fails \/ Harness \/ Tick) /\ UNCHANGED agent

AgentNext == Ask \/ AgentStep \/ NewSession \/ AgentDies \/ Outside

AgentSpec == AgentInit /\ [][AgentNext]_agentVars

\* ask() runs, the model client has a timeout, and so has every request to
\* the Harness.
AgentFairSpec ==
  /\ AgentSpec
  /\ WF_agentVars(AgentStep)
  /\ WF_agentVars(Client /\ UNCHANGED agent)
  /\ WF_agentVars((Answer \/ Fails) /\ UNCHANGED agent)

-----------------------------------------------------------------------------
(* Properties *)

\* Types; the rounds and the calls of a message stay within their budgets.
AgentTypeOK ==
  /\ allow \in BOOLEAN
  /\ apc \in {"idle", "round", "tools", "work"}
  /\ ask \in Asks
  /\ ask.round <= MaxRounds
  /\ ask.calls <= MaxTotal
  /\ history \in Seq(1..ask.no)
  /\ result \in Results
  /\ askOf \in Seq(1..ask.no) /\ Len(askOf) = work.no
  /\ answered \in Seq(1..ask.no)

\* "One work submission per user turn" (docs/product/
\* pr_137_harness_work_agent.md:83): however often and in whatever order the
\* model calls harness_work, whatever fails, dies or arrives late, one message
\* of the user makes at most one run of the Harness.
OneRunPerAsk ==
  \A i, j \in DOMAIN runs : askOf[runs[i].work] = askOf[runs[j].work] => i = j

\* An explicit request for work is answered with "ready" only if the run of
\* this very message succeeded, was validated and changed something: the model
\* cannot talk its way past the delegation.
WorkIsDoneOrBlocked ==
  result.required /\ result.overall = "ready" =>
    \E r \in DOMAIN runs :
      /\ askOf[runs[r].work] = result.ask
      /\ runs[r].status = "succeeded"
      /\ runs[r].passed
      /\ runs[r].changed

\* The security block of a result says creates_harness_run = FALSE only if the
\* message has no run, not even one whose submission arrives later.
RunsAreReported ==
  \A i \in DOMAIN runs : askOf[runs[i].work] = result.ask => result.attempted

\* What a result tells is true, of the work that was asked for as of the run
\* that was made.
ResultsAreHonest == WorkIsDoneOrBlocked /\ RunsAreReported

\* "keep complete exchanges only" (docs/product/pr_136_local_dev_agent.md:88):
\* the history is the most recent of the messages that were answered, in order,
\* and nothing of a blocked one.
HistoryIsAnswered ==
  /\ \E k \in 0..Len(answered) : history = SubSeq(answered, k + 1, Len(answered))
  /\ answered # << >> => history # << >>
  /\ result.overall = "blocked" => \A i \in DOMAIN history : history[i] # result.ask

\* Every message is answered, or the process dies: no list of calls the model
\* makes and no behaviour of the Harness keeps ask() busy for ever.
AskEnds == (apc # "idle") ~> (apc = "idle")
=============================================================================
