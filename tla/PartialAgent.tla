---------------------------- MODULE PartialAgent ----------------------------
(***************************************************************************)
(* One interrupted rollout, below the Rollouter: the multi-turn tool agents*)
(* of one FullyAsyncAgentLoopWorker (AsyncPartialToolAgentLoop), the LLM   *)
(* server they generate on (vLLMHttpServerForPartial), and the manager that*)
(* cancels and resumes both around a parameter synchronisation.            *)
(*                                                                         *)
(* What the model writes for agent a is a script: turn t has               *)
(* script[a][t].len tokens and, unless from = 0, a tool call that begins   *)
(* with token script[a][t].from and ends with the turn.                    *)
(***************************************************************************)
EXTENDS Integers, Sequences, FiniteSets

CONSTANTS Agents,            \* agent loops, one request id each
          Scripts,           \* what the model may write for the agents, turn by turn
          ToolLength,        \* tokens of a tool response
          ResponseLength,    \* rollout.response_length
          MaxAssistantTurns, MaxUserTurns,   \* 0 for no limit
          MaxSyncs           \* bound on the synchronisations

ASSUME ScriptAssumption == \A w \in Scripts : \A a \in Agents :
  /\ w[a] \in Seq([len : Nat \ {0}, from : Nat]) \ {<<>>}
  /\ w[a][Len(w[a])].from = 0
  /\ \A t \in DOMAIN w[a] : w[a][t].from <= w[a][t].len
ASSUME LimitAssumption ==
  /\ {ToolLength, MaxAssistantTurns, MaxUserTurns, MaxSyncs} \subseteq Nat
  /\ ResponseLength \in Nat \ {0}

VARIABLES script,            \* one of Scripts, never changed
          state,             \* AgentState of each agent
          at,                \* "top" of the state machine, "awaiting" the server,
                             \* "idle" (returned cancelled) or "done"
          tokens,            \* tokens of the current turn in prompt_ids
          segment,           \* len(response_ids), of the last call to the server
          maskLength,        \* len(response_mask)
          assistantTurns, userTurns,
          calls              \* rounds of tool calls executed (ghost)
VARIABLES server,            \* each agent's request: "none", "sent", "active", "answered"
          event,             \* cancel_event: "none", "clear" or "set"
          output,            \* tokens of req_output, then of the answer
          cancelled,         \* is_cancel of the answer
          serverPaused, workersCancelled
VARIABLES manager,           \* "running", "cancelling", "transfer"
          told,              \* whom the manager has told: servers, workers
          syncs

agentVars   == <<state, at, tokens, segment, maskLength, assistantTurns, userTurns, calls>>
requestVars == <<server, event, output, cancelled>>
flagVars    == <<serverPaused, workersCancelled>>
managerVars == <<manager, told, syncs>>
vars == <<script, agentVars, requestVars, flagVars, managerVars>>

Init == /\ script \in Scripts
        /\ state = [a \in Agents |-> "pending"] /\ at = [a \in Agents |-> "top"]
        /\ tokens = [a \in Agents |-> 0] /\ segment = [a \in Agents |-> 0]
        /\ maskLength = [a \in Agents |-> 0]
        /\ assistantTurns = [a \in Agents |-> 0] /\ userTurns = [a \in Agents |-> 0]
        /\ calls = [a \in Agents |-> 0]
        /\ server = [a \in Agents |-> "none"] /\ event = [a \in Agents |-> "none"]
        /\ output = [a \in Agents |-> 0] /\ cancelled = [a \in Agents |-> FALSE]
        /\ serverPaused = FALSE /\ workersCancelled = FALSE
        /\ manager = "running" /\ told = {} /\ syncs = 0

Turn(a)      == script[a][userTurns[a] + 1]
Remaining(a) == Turn(a).len - tokens[a]
-----------------------------------------------------------------------------
(* _run_state_machine looks at the cancellation event before every state.  *)
ReturnsCancelled(a) ==
  /\ at[a] = "top" /\ workersCancelled
  /\ at' = [at EXCEPT ![a] = "idle"]
  /\ UNCHANGED <<state, tokens, segment, maskLength, assistantTurns, userTurns, calls,
                 requestVars, flagVars, managerVars>>

Pending(a) ==
  /\ at[a] = "top" /\ ~workersCancelled /\ state[a] = "pending"
  /\ state' = [state EXCEPT ![a] = "generating"]
  /\ UNCHANGED <<at, tokens, segment, maskLength, assistantTurns, userTurns, calls,
                 requestVars, flagVars, managerVars>>

CallsServer(a) ==
  /\ at[a] = "top" /\ ~workersCancelled /\ state[a] = "generating"
  /\ at' = [at EXCEPT ![a] = "awaiting"]
  /\ server' = [server EXCEPT ![a] = "sent"]
  /\ UNCHANGED <<state, tokens, segment, maskLength, assistantTurns, userTurns, calls,
                 event, output, cancelled, flagVars, managerVars>>

Enters(a, s) == /\ state' = [state EXCEPT ![a] = s]
                /\ at' = [at EXCEPT ![a] = IF s = "terminated" THEN "done" ELSE "top"]

(* The answer is added to prompt_ids and response_mask, whole or not.      *)
Receives(a) ==
  /\ server[a] = "answered"
  /\ server' = [server EXCEPT ![a] = "none"]
  /\ segment' = [segment EXCEPT ![a] = output[a]]
  /\ tokens' = [tokens EXCEPT ![a] = @ + output[a]]
  /\ maskLength' = [maskLength EXCEPT ![a] = @ + output[a]]
  /\ output' = [output EXCEPT ![a] = 0]

InterruptedTurns(a) == assistantTurns[a]

\* _handle_generating_state_partial on an interrupted generation.
Interrupted(a) ==
  /\ at[a] = "awaiting" /\ cancelled[a] /\ Receives(a)
  /\ IF maskLength'[a] >= ResponseLength
       THEN /\ assistantTurns' = [assistantTurns EXCEPT ![a] = @ + 1]
            /\ Enters(a, "terminated")
       ELSE /\ assistantTurns' = [assistantTurns EXCEPT ![a] = InterruptedTurns(a)]
            /\ Enters(a, "generating")
  /\ UNCHANGED <<userTurns, calls, event, cancelled, flagVars, managerVars>>

\* extract_tool_calls, of the last segment only.
HasToolCall(a) == Turn(a).from > 0 /\ Turn(a).from > tokens'[a] - segment'[a]

Reached(limit, n) == limit > 0 /\ n >= limit

\* _handle_generating_state_partial on a finished generation.
Generated(a) ==
  /\ at[a] = "awaiting" /\ ~cancelled[a] /\ Receives(a)
  /\ assistantTurns' = [assistantTurns EXCEPT ![a] = @ + 1]
  /\ Enters(a, IF \/ maskLength'[a] >= ResponseLength
                  \/ Reached(MaxAssistantTurns, assistantTurns'[a])
                  \/ Reached(MaxUserTurns, userTurns[a])
                  \/ ~HasToolCall(a)
               THEN "terminated" ELSE "tools")
  /\ UNCHANGED <<userTurns, calls, event, cancelled, flagVars, managerVars>>

\* _handle_processing_tools_state: a response that does not fit ends the run.
ProcessesTools(a) ==
  /\ at[a] = "top" /\ ~workersCancelled /\ state[a] = "tools"
  /\ calls' = [calls EXCEPT ![a] = @ + 1]
  /\ IF maskLength[a] + ToolLength >= ResponseLength
       THEN /\ Enters(a, "terminated")
            /\ UNCHANGED <<maskLength, userTurns, tokens>>
       ELSE /\ Enters(a, "generating")
            /\ maskLength' = [maskLength EXCEPT ![a] = @ + ToolLength]
            /\ userTurns' = [userTurns EXCEPT ![a] = @ + 1]
            /\ tokens' = [tokens EXCEPT ![a] = 0]
  /\ UNCHANGED <<segment, assistantTurns, requestVars, flagVars, managerVars>>

\* After the synchronisation the Rollouter submits it again: _restore_from_output.
Resubmitted(a) ==
  /\ at[a] = "idle" /\ manager = "running"
  /\ at' = [at EXCEPT ![a] = "top"]
  /\ UNCHANGED <<state, tokens, segment, maskLength, assistantTurns, userTurns, calls,
                 requestVars, flagVars, managerVars>>

Agent(a) == \/ ReturnsCancelled(a) \/ Pending(a) \/ CallsServer(a) \/ Interrupted(a)
            \/ Generated(a) \/ ProcessesTools(a) \/ Resubmitted(a)
-----------------------------------------------------------------------------
\* Mutant: an event the request id has left behind is used again.
NewEvent_Kept(a) == IF event[a] = "none" THEN "clear" ELSE event[a]

NewEvent(a) == "clear"

(* generate_for_partial: a paused server answers at once, empty; else the  *)
(* request gets a fresh event and a generation of its own.                 *)
Arrives(a) ==
  /\ server[a] = "sent"
  /\ \/ /\ serverPaused
        /\ server' = [server EXCEPT ![a] = "answered"]
        /\ cancelled' = [cancelled EXCEPT ![a] = TRUE]
        /\ UNCHANGED event
     \/ /\ ~serverPaused
        /\ server' = [server EXCEPT ![a] = "active"]
        /\ event' = [event EXCEPT ![a] = NewEvent(a)]
        /\ UNCHANGED cancelled
  /\ UNCHANGED <<agentVars, output, flagVars, managerVars>>

\* The vLLM engine yields another token.
Generates(a) ==
  /\ server[a] = "active" /\ output[a] < Remaining(a)
  /\ output' = [output EXCEPT ![a] = @ + 1]
  /\ UNCHANGED <<agentVars, server, event, cancelled, flagVars, managerVars>>

\* Mutant: an interrupted request is not taken out of the dictionaries.
Forgets_IfFinished(a) == output[a] = Remaining(a)

\* An interrupted request without any output returns before the two pops.
Forgets(a) == output[a] > 0

\* Mutant: the answer says cancelled whenever the event was set.
IsCancel_ByEvent(a) == event[a] = "set"

\* generation_handle not in done, when asyncio.wait returned.
IsCancel(a) == output[a] < Remaining(a)

\* The generation or the event is there first: answer with what there is.
Answers(a) ==
  /\ server[a] = "active" /\ (output[a] = Remaining(a) \/ event[a] = "set")
  /\ server' = [server EXCEPT ![a] = "answered"]
  /\ cancelled' = [cancelled EXCEPT ![a] = IsCancel(a)]
  /\ event' = [event EXCEPT ![a] = IF Forgets(a) THEN "none" ELSE @]
  /\ UNCHANGED <<agentVars, output, flagVars, managerVars>>

Server(a) == Arrives(a) \/ Generates(a) \/ Answers(a)
-----------------------------------------------------------------------------
(* FullyAsyncAgentLoopManager.cancel: servers and workers, in any order.   *)
StartSync ==
  /\ manager = "running" /\ syncs < MaxSyncs
  /\ manager' = "cancelling" /\ told' = {} /\ syncs' = syncs + 1
  /\ UNCHANGED <<agentVars, requestVars, flagVars>>

CancelServer ==
  /\ manager = "cancelling" /\ "server" \notin told
  /\ serverPaused' = TRUE
  /\ event' = [a \in Agents |-> IF event[a] = "none" THEN "none" ELSE "set"]
  /\ told' = told \union {"server"}
  /\ UNCHANGED <<agentVars, server, output, cancelled, workersCancelled, manager, syncs>>

CancelWorkers ==
  /\ manager = "cancelling" /\ "workers" \notin told
  /\ workersCancelled' = TRUE
  /\ told' = told \union {"workers"}
  /\ UNCHANGED <<agentVars, requestVars, serverPaused, manager, syncs>>

\* Mutant: pause() does not wait for the answers.
Gathered_NoWait == TRUE

\* pause() gathers the tasks that generate.
Gathered == \A a \in Agents : at[a] \in {"idle", "done"}

Gather ==
  /\ manager = "cancelling" /\ told = {"server", "workers"} /\ Gathered
  /\ manager' = "transfer" /\ told' = {}
  /\ UNCHANGED <<agentVars, requestVars, flagVars, syncs>>

(* resume: servers and workers again; then the Rollouter goes on.          *)
ResumeServer ==
  /\ manager = "transfer" /\ "server" \notin told
  /\ serverPaused' = FALSE /\ told' = told \union {"server"}
  /\ UNCHANGED <<agentVars, requestVars, workersCancelled, manager, syncs>>

ResumeWorkers ==
  /\ manager = "transfer" /\ "workers" \notin told
  /\ workersCancelled' = FALSE /\ told' = told \union {"workers"}
  /\ UNCHANGED <<agentVars, requestVars, serverPaused, manager, syncs>>

EndSync ==
  /\ manager = "transfer" /\ told = {"server", "workers"}
  /\ manager' = "running"
  /\ UNCHANGED <<agentVars, requestVars, flagVars, told, syncs>>

Manager == \/ StartSync \/ CancelServer \/ CancelWorkers \/ Gather
           \/ ResumeServer \/ ResumeWorkers \/ EndSync

AllDone == \A a \in Agents : at[a] = "done"
Over == AllDone /\ manager = "running" /\ UNCHANGED <<agentVars, requestVars, flagVars, managerVars>>

Next == /\ Manager \/ Over \/ \E a \in Agents : Agent(a) \/ Server(a)
        /\ UNCHANGED script

Spec == Init /\ [][Next]_vars

(* Agents, server and manager run while they can; a synchronisation may or *)
(* may not start.                                                          *)
FairSpec == /\ Spec
            /\ WF_vars(Manager /\ ~StartSync /\ UNCHANGED script)
            /\ \A a \in Agents : /\ WF_vars(Agent(a) /\ UNCHANGED script)
                                /\ WF_vars(Server(a) /\ UNCHANGED script)
-----------------------------------------------------------------------------
\* Each field has its type and no turn grows past what the model writes.
TypeOK ==
  /\ state \in [Agents -> {"pending", "generating", "tools", "terminated"}]
  /\ at \in [Agents -> {"top", "awaiting", "idle", "done"}]
  /\ server \in [Agents -> {"none", "sent", "active", "answered"}]
  /\ event \in [Agents -> {"none", "clear", "set"}]
  /\ cancelled \in [Agents -> BOOLEAN]
  /\ \A a \in Agents :
       /\ userTurns[a] \in 0 .. Len(script[a]) - 1
       /\ tokens[a] \in 0 .. Turn(a).len /\ output[a] \in 0 .. Remaining(a)
       /\ segment[a] \in Nat /\ maskLength[a] \in Nat
       /\ {assistantTurns[a], calls[a]} \subseteq 0 .. Len(script[a])
  /\ {serverPaused, workersCancelled} \subseteq BOOLEAN
  /\ manager \in {"running", "cancelling", "transfer"}
  /\ told \subseteq {"server", "workers"} /\ syncs \in 0 .. MaxSyncs

\* What an uninterrupted run of the script comes to: len(response_mask) after
\* the t-th generation, what ends the run there, and the turn it ends with.
MaskAfter(a, t) ==
  LET mask[u \in DOMAIN script[a]] ==
        script[a][u].len + (IF u = 1 THEN 0 ELSE mask[u - 1] + ToolLength)
  IN  mask[t]
EndsGenerating(a, t) == \/ MaskAfter(a, t) >= ResponseLength
                        \/ Reached(MaxAssistantTurns, t)
                        \/ Reached(MaxUserTurns, t - 1)
                        \/ script[a][t].from = 0
EndsInTools(a, t) == MaskAfter(a, t) + ToolLength >= ResponseLength
LastTurn(a) == CHOOSE t \in DOMAIN script[a] :
  /\ EndsGenerating(a, t) \/ EndsInTools(a, t)
  /\ \A u \in 1 .. t - 1 : ~EndsGenerating(a, u) /\ ~EndsInTools(a, u)

\* "Resuming execution from the saved state ... rather than starting over"
\* (README.md): an agent that was interrupted, any number of times and at any
\* token, ends with the turns, tool calls and response of one that was not.
SameAsUninterrupted == \A a \in Agents : at[a] = "done" =>
  LET t == LastTurn(a) IN
  /\ assistantTurns[a] = t
  /\ calls[a] = IF EndsGenerating(a, t) THEN t - 1 ELSE t
  /\ \/ maskLength[a] = MaskAfter(a, t)
     \/ maskLength[a] >= ResponseLength /\ MaskAfter(a, t) >= ResponseLength

\* While the weights are replaced no request is generating and none is on its way.
TransferQuiet == manager = "transfer" => \A a \in Agents : server[a] = "none"

\* What an interrupted request leaves in the server's dictionaries is taken up
\* by the next request of the same id: nothing is left when all agents are done.
NothingLeft == AllDone => \A a \in Agents : event[a] = "none"

\* The state has its type, and the server is clean at the end.
Consistent == TypeOK /\ NothingLeft

\* However often they are interrupted, the agents come to an end.
AllTerminate == <>[]AllDone
=============================================================================
