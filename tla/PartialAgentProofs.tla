-------------------------- MODULE PartialAgentProofs --------------------------
(***************************************************************************)
(* Proofs about PartialAgent, for every set of agents, every script, limit *)
(* and length, and any number of interruptions at any token.               *)
(***************************************************************************)
EXTENDS PartialAgent, SequenceTheorems, WellFoundedInduction, TLAPS

\* Types, and what the state of an agent says of its request.
Typed ==
  /\ script \in Scripts
  /\ state \in [Agents -> {"pending", "generating", "tools", "terminated"}]
  /\ at \in [Agents -> {"top", "awaiting", "idle", "done"}]
  /\ server \in [Agents -> {"none", "sent", "active", "answered"}]
  /\ event \in [Agents -> {"none", "clear", "set"}]
  /\ cancelled \in [Agents -> BOOLEAN]
  /\ userTurns \in [Agents -> Nat] /\ tokens \in [Agents -> Nat] /\ output \in [Agents -> Nat]
  /\ segment \in [Agents -> Nat] /\ maskLength \in [Agents -> Nat]
  /\ assistantTurns \in [Agents -> Nat] /\ calls \in [Agents -> Nat]
  /\ serverPaused \in BOOLEAN /\ workersCancelled \in BOOLEAN
  /\ manager \in {"running", "cancelling", "transfer"}
  /\ told \subseteq {"server", "workers"} /\ syncs \in 0 .. MaxSyncs

\* An agent awaits the server exactly while the server has its request, and is
\* done exactly when its state machine has terminated.
InStep(a) ==
  /\ at[a] = "awaiting" <=> server[a] /= "none"
  /\ at[a] = "awaiting" => state[a] = "generating"
  /\ at[a] = "done" <=> state[a] = "terminated"

\* The turn an agent is in, and how far: at its end when the tools are next,
\* before it when there is something to generate or to wait for.
InTurn(a) ==
  /\ userTurns[a] + 1 \in DOMAIN script[a]
  /\ tokens[a] + output[a] <= Turn(a).len
  /\ state[a] \in {"pending", "generating"} => tokens[a] < Turn(a).len
  /\ state[a] = "tools" => Turn(a).from > 0
  /\ server[a] \in {"none", "sent"} => output[a] = 0
  /\ server[a] = "answered" => (cancelled[a] <=> tokens[a] + output[a] < Turn(a).len)
  /\ state[a] /= "terminated" => maskLength[a] < ResponseLength

\* The turns that are counted.
Counted(a) ==
  /\ state[a] \in {"pending", "generating"} => assistantTurns[a] = userTurns[a]
  /\ state[a] \in {"tools", "terminated"}   => assistantTurns[a] = userTurns[a] + 1
  /\ state[a] /= "terminated" => calls[a] = userTurns[a]
  /\ calls[a] \in {userTurns[a], userTurns[a] + 1}

\* An event outlives its request only behind an answer without a token.
Forgotten(a) ==
  /\ state[a] \in {"tools", "terminated"} => event[a] = "none"
  /\ server[a] = "answered" /\ output[a] > 0 => event[a] = "none"

Quiet == manager = "transfer" => \A a \in Agents : at[a] \in {"idle", "done"}

InOrder(a) == InStep(a) /\ InTurn(a) /\ Counted(a) /\ Forgotten(a)

AgentInv == Typed /\ Quiet /\ \A a \in Agents : InOrder(a)
-----------------------------------------------------------------------------
(* Small facts.                                                            *)

LEMMA Limits ==
  /\ ToolLength \in Nat /\ MaxAssistantTurns \in Nat /\ MaxUserTurns \in Nat /\ MaxSyncs \in Nat
  /\ ResponseLength \in Nat /\ ResponseLength > 0
BY LimitAssumption DEF LimitAssumption

LEMMA ScriptFacts ==
  ASSUME Typed, NEW a \in Agents
  PROVE  /\ Len(script[a]) \in Nat /\ DOMAIN script[a] = 1 .. Len(script[a])
         /\ \A t \in DOMAIN script[a] :
              /\ script[a][t].len \in Nat /\ script[a][t].len > 0
              /\ script[a][t].from \in Nat /\ script[a][t].from <= script[a][t].len
              /\ script[a][t].from > 0 => t + 1 \in DOMAIN script[a]
<1> DEFINE Turns == [len : Nat \ {0}, from : Nat]
<1>1. script \in Scripts  BY DEF Typed
<1>2. /\ script[a] \in Seq(Turns) /\ script[a][Len(script[a])].from = 0
      /\ \A t \in DOMAIN script[a] : script[a][t].from <= script[a][t].len
  BY <1>1, ScriptAssumption DEF ScriptAssumption
<1>3. /\ Len(script[a]) \in Nat /\ DOMAIN script[a] = 1 .. Len(script[a])
      /\ \A t \in DOMAIN script[a] : script[a][t] \in Turns
  <2> HIDE DEF Turns
  <2> QED  BY <1>2, LenProperties, ElementOfSeq
<1>4. \A t \in DOMAIN script[a] : script[a][t].from > 0 => t + 1 \in DOMAIN script[a]
  <2> SUFFICES ASSUME NEW t \in DOMAIN script[a], script[a][t].from > 0 PROVE t + 1 \in DOMAIN script[a]
    OBVIOUS
  <2>1. t /= Len(script[a])  BY <1>2
  <2> QED  BY <1>3, <2>1
<1> QED  BY <1>2, <1>3, <1>4

\* An agent nothing happens to stays in order.
LEMMA OtherAgent ==
  ASSUME NEW a \in Agents, InOrder(a), UNCHANGED script,
         state'[a] = state[a], at'[a] = at[a], tokens'[a] = tokens[a], output'[a] = output[a],
         maskLength'[a] = maskLength[a], assistantTurns'[a] = assistantTurns[a],
         userTurns'[a] = userTurns[a], calls'[a] = calls[a], server'[a] = server[a],
         cancelled'[a] = cancelled[a], event'[a] = event[a]
  PROVE  InOrder(a)'
<1>1. Turn(a)' = Turn(a)  BY DEF Turn
<1>2. InStep(a)'  BY DEF InOrder, InStep
<1>3. InTurn(a)'  BY <1>1 DEF InOrder, InTurn
<1>4. Counted(a)'  BY DEF InOrder, Counted
<1>5. Forgotten(a)'  BY DEF InOrder, Forgotten
<1> QED  BY <1>2, <1>3, <1>4, <1>5 DEF InOrder

\* What is known of an agent.
LEMMA AgentFacts ==
  ASSUME AgentInv, NEW a \in Agents
  PROVE  /\ state[a] \in {"pending", "generating", "tools", "terminated"}
         /\ at[a] \in {"top", "awaiting", "idle", "done"}
         /\ server[a] \in {"none", "sent", "active", "answered"}
         /\ event[a] \in {"none", "clear", "set"} /\ cancelled[a] \in BOOLEAN
         /\ userTurns[a] \in Nat /\ tokens[a] \in Nat /\ output[a] \in Nat
         /\ maskLength[a] \in Nat /\ assistantTurns[a] \in Nat /\ calls[a] \in Nat
         /\ InStep(a) /\ InTurn(a) /\ Counted(a) /\ Forgotten(a)
         /\ Turn(a).len \in Nat /\ Turn(a).len > 0 /\ Turn(a).from \in Nat
<1>1. Typed /\ InOrder(a)  BY DEF AgentInv
<1>2. userTurns[a] + 1 \in DOMAIN script[a]  BY <1>1 DEF InOrder, InTurn
<1>3. Turn(a).len \in Nat /\ Turn(a).len > 0 /\ Turn(a).from \in Nat
  BY <1>1, <1>2, ScriptFacts DEF Turn
<1> QED  BY <1>1, <1>3 DEF Typed, InOrder
-----------------------------------------------------------------------------
(* The agents.                                                             *)

LEMMA ReturnsCancelledKeeps ==
  ASSUME AgentInv, NEW a \in Agents, ReturnsCancelled(a), UNCHANGED script
  PROVE  AgentInv'
<1>1. Typed'  BY AgentFacts DEF AgentInv, Typed, ReturnsCancelled, requestVars, flagVars, managerVars
<1>2. Quiet'  BY DEF AgentInv, Typed, Quiet, InOrder, InStep, ReturnsCancelled, requestVars, flagVars, managerVars
<1>3. ASSUME NEW b \in Agents PROVE InOrder(b)'
  <2>1. CASE b /= a
    <3>1. InOrder(b)  BY DEF AgentInv
    <3> QED  BY <2>1, <3>1, OtherAgent DEF AgentInv, Typed, ReturnsCancelled, requestVars, flagVars, managerVars
  <2>2. CASE b = a
    <3>1. Turn(a)' = script[a][userTurns'[a] + 1]  BY DEF Turn
    <3>2. InStep(a)'  BY AgentFacts DEF AgentInv, Typed, InStep, ReturnsCancelled, requestVars, flagVars, managerVars
    <3>3. InTurn(a)'  BY AgentFacts, Limits DEF AgentInv, Typed, InStep, InTurn, Turn, ReturnsCancelled, requestVars, flagVars, managerVars
    <3>4. Counted(a)'  BY AgentFacts DEF AgentInv, Typed, InStep, Counted, ReturnsCancelled, requestVars, flagVars, managerVars
    <3>5. Forgotten(a)'  BY AgentFacts, Limits DEF AgentInv, Typed, InStep, InTurn, Turn, Forgotten, ReturnsCancelled, requestVars, flagVars, managerVars
    <3> QED  BY <2>2, <3>2, <3>3, <3>4, <3>5 DEF InOrder
  <2> QED  BY <2>1, <2>2
<1> QED  BY <1>1, <1>2, <1>3 DEF AgentInv

LEMMA PendingKeeps ==
  ASSUME AgentInv, NEW a \in Agents, Pending(a), UNCHANGED script
  PROVE  AgentInv'
<1>1. Typed'  BY AgentFacts DEF AgentInv, Typed, Pending, requestVars, flagVars, managerVars
<1>2. Quiet'  BY DEF AgentInv, Typed, Quiet, InOrder, InStep, Pending, requestVars, flagVars, managerVars
<1>3. ASSUME NEW b \in Agents PROVE InOrder(b)'
  <2>1. CASE b /= a
    <3>1. InOrder(b)  BY DEF AgentInv
    <3> QED  BY <2>1, <3>1, OtherAgent DEF AgentInv, Typed, Pending, requestVars, flagVars, managerVars
  <2>2. CASE b = a
    <3>1. Turn(a)' = script[a][userTurns'[a] + 1]  BY DEF Turn
    <3>2. InStep(a)'  BY AgentFacts DEF AgentInv, Typed, InStep, Pending, requestVars, flagVars, managerVars
    <3>3. InTurn(a)'  BY AgentFacts, Limits DEF AgentInv, Typed, InStep, InTurn, Turn, Pending, requestVars, flagVars, managerVars
    <3>4. Counted(a)'  BY AgentFacts DEF AgentInv, Typed, InStep, Counted, Pending, requestVars, flagVars, managerVars
    <3>5. Forgotten(a)'  BY AgentFacts, Limits DEF AgentInv, Typed, InStep, InTurn, Turn, Forgotten, Pending, requestVars, flagVars, managerVars
    <3> QED  BY <2>2, <3>2, <3>3, <3>4, <3>5 DEF InOrder
  <2> QED  BY <2>1, <2>2
<1> QED  BY <1>1, <1>2, <1>3 DEF AgentInv

LEMMA CallsServerKeeps ==
  ASSUME AgentInv, NEW a \in Agents, CallsServer(a), UNCHANGED script
  PROVE  AgentInv'
<1>1. Typed'  BY AgentFacts DEF AgentInv, Typed, CallsServer, flagVars, managerVars
<1>2. Quiet'  BY DEF AgentInv, Typed, Quiet, InOrder, InStep, CallsServer, flagVars, managerVars
<1>3. ASSUME NEW b \in Agents PROVE InOrder(b)'
  <2>1. CASE b /= a
    <3>1. InOrder(b)  BY DEF AgentInv
    <3> QED  BY <2>1, <3>1, OtherAgent DEF AgentInv, Typed, CallsServer, flagVars, managerVars
  <2>2. CASE b = a
    <3>1. Turn(a)' = script[a][userTurns'[a] + 1]  BY DEF Turn
    <3>2. InStep(a)'  BY AgentFacts DEF AgentInv, Typed, InStep, CallsServer, flagVars, managerVars
    <3>3. InTurn(a)'  BY AgentFacts, Limits DEF AgentInv, Typed, InStep, InTurn, Turn, CallsServer, flagVars, managerVars
    <3>4. Counted(a)'  BY AgentFacts DEF AgentInv, Typed, InStep, Counted, CallsServer, flagVars, managerVars
    <3>5. Forgotten(a)'  BY AgentFacts, Limits DEF AgentInv, Typed, InStep, InTurn, Turn, Forgotten, CallsServer, flagVars, managerVars
    <3> QED  BY <2>2, <3>2, <3>3, <3>4, <3>5 DEF InOrder
  <2> QED  BY <2>1, <2>2
<1> QED  BY <1>1, <1>2, <1>3 DEF AgentInv

LEMMA InterruptedKeeps ==
  ASSUME AgentInv, NEW a \in Agents, Interrupted(a), UNCHANGED script
  PROVE  AgentInv'
<1>1. Typed'  BY AgentFacts DEF AgentInv, Typed, Interrupted, Receives, Enters, InterruptedTurns, flagVars, managerVars
<1>2. Quiet'  BY DEF AgentInv, Typed, Quiet, InOrder, InStep, Interrupted, Receives, Enters, InterruptedTurns, flagVars, managerVars
<1>3. ASSUME NEW b \in Agents PROVE InOrder(b)'
  <2>1. CASE b /= a
    <3>1. InOrder(b)  BY DEF AgentInv
    <3> QED  BY <2>1, <3>1, OtherAgent DEF AgentInv, Typed, Interrupted, Receives, Enters, InterruptedTurns, flagVars, managerVars
  <2>2. CASE b = a
    <3>1. Turn(a)' = script[a][userTurns'[a] + 1]  BY DEF Turn
    <3>2. InStep(a)'  BY AgentFacts DEF AgentInv, Typed, InStep, Interrupted, Receives, Enters, InterruptedTurns, flagVars, managerVars
    <3>3. InTurn(a)'  BY AgentFacts, Limits DEF AgentInv, Typed, InStep, InTurn, Turn, Interrupted, Receives, Enters, InterruptedTurns, flagVars, managerVars
    <3>4. Counted(a)'  BY AgentFacts DEF AgentInv, Typed, InStep, Counted, Interrupted, Receives, Enters, InterruptedTurns, flagVars, managerVars
    <3>5. Forgotten(a)'  BY AgentFacts, Limits DEF AgentInv, Typed, InStep, InTurn, Turn, Forgotten, Interrupted, Receives, Enters, InterruptedTurns, flagVars, managerVars
    <3> QED  BY <2>2, <3>2, <3>3, <3>4, <3>5 DEF InOrder
  <2> QED  BY <2>1, <2>2
<1> QED  BY <1>1, <1>2, <1>3 DEF AgentInv

LEMMA GeneratedKeeps ==
  ASSUME AgentInv, NEW a \in Agents, Generated(a), UNCHANGED script
  PROVE  AgentInv'
<1>1. Typed'  BY AgentFacts DEF AgentInv, Typed, Generated, Receives, Enters, HasToolCall, flagVars, managerVars
<1>2. Quiet'  BY DEF AgentInv, Typed, Quiet, InOrder, InStep, Generated, Receives, Enters, HasToolCall, flagVars, managerVars
<1>3. ASSUME NEW b \in Agents PROVE InOrder(b)'
  <2>1. CASE b /= a
    <3>1. InOrder(b)  BY DEF AgentInv
    <3> QED  BY <2>1, <3>1, OtherAgent DEF AgentInv, Typed, Generated, Receives, Enters, HasToolCall, flagVars, managerVars
  <2>2. CASE b = a
    <3>1. Turn(a)' = script[a][userTurns'[a] + 1]  BY DEF Turn
    <3>2. InStep(a)'  BY AgentFacts DEF AgentInv, Typed, InStep, Generated, Receives, Enters, HasToolCall, flagVars, managerVars
    <3>3. InTurn(a)'  BY AgentFacts, Limits DEF AgentInv, Typed, InStep, InTurn, Turn, Generated, Receives, Enters, HasToolCall, flagVars, managerVars
    <3>4. Counted(a)'  BY AgentFacts DEF AgentInv, Typed, InStep, Counted, Generated, Receives, Enters, HasToolCall, flagVars, managerVars
    <3>5. Forgotten(a)'  BY AgentFacts, Limits DEF AgentInv, Typed, InStep, InTurn, Turn, Forgotten, Generated, Receives, Enters, HasToolCall, flagVars, managerVars
    <3> QED  BY <2>2, <3>2, <3>3, <3>4, <3>5 DEF InOrder
  <2> QED  BY <2>1, <2>2
<1> QED  BY <1>1, <1>2, <1>3 DEF AgentInv

LEMMA ProcessesToolsKeeps ==
  ASSUME AgentInv, NEW a \in Agents, ProcessesTools(a), UNCHANGED script
  PROVE  AgentInv'
<1>1. Typed'  BY AgentFacts, Limits, SMTT(60) DEF AgentInv, Typed, ProcessesTools, Enters, requestVars, flagVars, managerVars
<1>2. Quiet'  BY DEF AgentInv, Typed, Quiet, InOrder, InStep, ProcessesTools, Enters, requestVars, flagVars, managerVars
<1>3. ASSUME NEW b \in Agents PROVE InOrder(b)'
  <2>1. CASE b /= a
    <3>1. InOrder(b)  BY DEF AgentInv
    <3> QED  BY <2>1, <3>1, OtherAgent DEF AgentInv, Typed, ProcessesTools, Enters, requestVars, flagVars, managerVars
  <2>2. CASE b = a
    <3>1. Turn(a)' = script[a][userTurns'[a] + 1]  BY DEF Turn
    <3>2. InStep(a)'  BY AgentFacts DEF AgentInv, Typed, InStep, ProcessesTools, Enters, requestVars, flagVars, managerVars
    <3>3. InTurn(a)'
      <4>1. /\ state[a] = "tools" /\ server[a] = "none" /\ output[a] = 0 /\ Turn(a).from > 0
            /\ tokens[a] + output[a] <= Turn(a).len /\ maskLength[a] < ResponseLength
        BY AgentFacts DEF ProcessesTools, InStep, InTurn
      <4>2. CASE maskLength[a] + ToolLength >= ResponseLength
        <5>1. state'[a] = "terminated" /\ UNCHANGED <<maskLength, userTurns, tokens, server, output, cancelled>>
          BY <4>2 DEF ProcessesTools, Enters, requestVars, AgentInv, Typed
        <5> QED  BY AgentFacts, <4>1, <5>1 DEF InTurn, Turn
      <4>3. CASE ~(maskLength[a] + ToolLength >= ResponseLength)
        <5>1. /\ state'[a] = "generating" /\ maskLength'[a] = maskLength[a] + ToolLength
              /\ userTurns'[a] = userTurns[a] + 1 /\ tokens'[a] = 0
              /\ UNCHANGED <<server, output, cancelled>>
          BY <4>3 DEF ProcessesTools, Enters, requestVars, AgentInv, Typed
        <5>2. userTurns[a] + 1 \in DOMAIN script[a] /\ Typed  BY AgentFacts DEF InTurn, AgentInv
        <5>3. userTurns[a] + 1 + 1 \in DOMAIN script[a]  BY <4>1, <5>2, ScriptFacts DEF Turn
        <5>4. script[a][userTurns[a] + 1 + 1].len \in Nat /\ script[a][userTurns[a] + 1 + 1].len > 0
          BY <5>2, <5>3, ScriptFacts
        <5> QED  BY AgentFacts, Limits, <4>1, <4>3, <5>1, <5>3, <5>4 DEF InTurn, Turn
      <4> QED  BY <4>2, <4>3
    <3>4. Counted(a)'  BY AgentFacts DEF AgentInv, Typed, InStep, Counted, ProcessesTools, Enters, requestVars, flagVars, managerVars
    <3>5. Forgotten(a)'  BY AgentFacts, Limits DEF AgentInv, Typed, InStep, InTurn, Turn, Forgotten, ProcessesTools, Enters, requestVars, flagVars, managerVars
    <3> QED  BY <2>2, <3>2, <3>3, <3>4, <3>5 DEF InOrder
  <2> QED  BY <2>1, <2>2
<1> QED  BY <1>1, <1>2, <1>3 DEF AgentInv

LEMMA ResubmittedKeeps ==
  ASSUME AgentInv, NEW a \in Agents, Resubmitted(a), UNCHANGED script
  PROVE  AgentInv'
<1>1. Typed'  BY AgentFacts DEF AgentInv, Typed, Resubmitted, requestVars, flagVars, managerVars
<1>2. Quiet'  BY DEF AgentInv, Typed, Quiet, InOrder, InStep, Resubmitted, requestVars, flagVars, managerVars
<1>3. ASSUME NEW b \in Agents PROVE InOrder(b)'
  <2>1. CASE b /= a
    <3>1. InOrder(b)  BY DEF AgentInv
    <3> QED  BY <2>1, <3>1, OtherAgent DEF AgentInv, Typed, Resubmitted, requestVars, flagVars, managerVars
  <2>2. CASE b = a
    <3>1. Turn(a)' = script[a][userTurns'[a] + 1]  BY DEF Turn
    <3>2. InStep(a)'  BY AgentFacts DEF AgentInv, Typed, InStep, Resubmitted, requestVars, flagVars, managerVars
    <3>3. InTurn(a)'  BY AgentFacts, Limits DEF AgentInv, Typed, InStep, InTurn, Turn, Resubmitted, requestVars, flagVars, managerVars
    <3>4. Counted(a)'  BY AgentFacts DEF AgentInv, Typed, InStep, Counted, Resubmitted, requestVars, flagVars, managerVars
    <3>5. Forgotten(a)'  BY AgentFacts, Limits DEF AgentInv, Typed, InStep, InTurn, Turn, Forgotten, Resubmitted, requestVars, flagVars, managerVars
    <3> QED  BY <2>2, <3>2, <3>3, <3>4, <3>5 DEF InOrder
  <2> QED  BY <2>1, <2>2
<1> QED  BY <1>1, <1>2, <1>3 DEF AgentInv
-----------------------------------------------------------------------------
(* The server.                                                             *)

LEMMA ArrivesKeeps ==
  ASSUME AgentInv, NEW a \in Agents, Arrives(a), UNCHANGED script
  PROVE  AgentInv'
<1>1. Typed'  BY AgentFacts DEF AgentInv, Typed, Arrives, NewEvent, agentVars, flagVars, managerVars
<1>2. Quiet'  BY DEF AgentInv, Typed, Quiet, InOrder, InStep, Arrives, NewEvent, agentVars, flagVars, managerVars
<1>3. ASSUME NEW b \in Agents PROVE InOrder(b)'
  <2>1. CASE b /= a
    <3>1. InOrder(b)  BY DEF AgentInv
    <3> QED  BY <2>1, <3>1, OtherAgent DEF AgentInv, Typed, Arrives, NewEvent, agentVars, flagVars, managerVars
  <2>2. CASE b = a
    <3>1. Turn(a)' = script[a][userTurns'[a] + 1]  BY DEF Turn
    <3>2. InStep(a)'  BY AgentFacts DEF AgentInv, Typed, InStep, Arrives, NewEvent, agentVars, flagVars, managerVars
    <3>3. InTurn(a)'  BY AgentFacts, Limits DEF AgentInv, Typed, InStep, InTurn, Turn, Arrives, NewEvent, agentVars, flagVars, managerVars
    <3>4. Counted(a)'  BY AgentFacts DEF AgentInv, Typed, InStep, Counted, Arrives, NewEvent, agentVars, flagVars, managerVars
    <3>5. Forgotten(a)'  BY AgentFacts, Limits DEF AgentInv, Typed, InStep, InTurn, Turn, Forgotten, Arrives, NewEvent, agentVars, flagVars, managerVars
    <3> QED  BY <2>2, <3>2, <3>3, <3>4, <3>5 DEF InOrder
  <2> QED  BY <2>1, <2>2
<1> QED  BY <1>1, <1>2, <1>3 DEF AgentInv

LEMMA GeneratesKeeps ==
  ASSUME AgentInv, NEW a \in Agents, Generates(a), UNCHANGED script
  PROVE  AgentInv'
<1>1. Typed'  BY AgentFacts DEF AgentInv, Typed, Generates, Remaining, agentVars, flagVars, managerVars
<1>2. Quiet'  BY DEF AgentInv, Typed, Quiet, InOrder, InStep, Generates, Remaining, agentVars, flagVars, managerVars
<1>3. ASSUME NEW b \in Agents PROVE InOrder(b)'
  <2>1. CASE b /= a
    <3>1. InOrder(b)  BY DEF AgentInv
    <3> QED  BY <2>1, <3>1, OtherAgent DEF AgentInv, Typed, Generates, Remaining, agentVars, flagVars, managerVars
  <2>2. CASE b = a
    <3>1. Turn(a)' = script[a][userTurns'[a] + 1]  BY DEF Turn
    <3>2. InStep(a)'  BY AgentFacts DEF AgentInv, Typed, InStep, Generates, Remaining, agentVars, flagVars, managerVars
    <3>3. InTurn(a)'  BY AgentFacts, Limits DEF AgentInv, Typed, InStep, InTurn, Turn, Generates, Remaining, agentVars, flagVars, managerVars
    <3>4. Counted(a)'  BY AgentFacts DEF AgentInv, Typed, InStep, Counted, Generates, Remaining, agentVars, flagVars, managerVars
    <3>5. Forgotten(a)'  BY AgentFacts, Limits DEF AgentInv, Typed, InStep, InTurn, Turn, Forgotten, Generates, Remaining, agentVars, flagVars, managerVars
    <3> QED  BY <2>2, <3>2, <3>3, <3>4, <3>5 DEF InOrder
  <2> QED  BY <2>1, <2>2
<1> QED  BY <1>1, <1>2, <1>3 DEF AgentInv

LEMMA AnswersKeeps ==
  ASSUME AgentInv, NEW a \in Agents, Answers(a), UNCHANGED script
  PROVE  AgentInv'
<1>1. Typed'  BY AgentFacts DEF AgentInv, Typed, Answers, IsCancel, Forgets, Remaining, agentVars, flagVars, managerVars
<1>2. Quiet'  BY DEF AgentInv, Typed, Quiet, InOrder, InStep, Answers, IsCancel, Forgets, Remaining, agentVars, flagVars, managerVars
<1>3. ASSUME NEW b \in Agents PROVE InOrder(b)'
  <2>1. CASE b /= a
    <3>1. InOrder(b)  BY DEF AgentInv
    <3> QED  BY <2>1, <3>1, OtherAgent DEF AgentInv, Typed, Answers, IsCancel, Forgets, Remaining, agentVars, flagVars, managerVars
  <2>2. CASE b = a
    <3>1. Turn(a)' = script[a][userTurns'[a] + 1]  BY DEF Turn
    <3>2. InStep(a)'  BY AgentFacts DEF AgentInv, Typed, InStep, Answers, IsCancel, Forgets, Remaining, agentVars, flagVars, managerVars
    <3>3. InTurn(a)'
      <4>1. /\ server'[a] = "answered" /\ (cancelled'[a] <=> output[a] < Turn(a).len - tokens[a])
            /\ UNCHANGED <<state, tokens, maskLength, userTurns, output>>
        BY DEF Answers, IsCancel, Remaining, agentVars, AgentInv, Typed
      <4>2. output[a] < Turn(a).len - tokens[a] <=> tokens[a] + output[a] < Turn(a).len  BY AgentFacts
      <4>3. cancelled'[a] <=> tokens'[a] + output'[a] < Turn(a)'.len  BY <4>1, <4>2 DEF Turn
      <4> QED  BY AgentFacts, <4>1, <4>3 DEF InTurn, Turn
    <3>4. Counted(a)'  BY AgentFacts DEF AgentInv, Typed, InStep, Counted, Answers, IsCancel, Forgets, Remaining, agentVars, flagVars, managerVars
    <3>5. Forgotten(a)'  BY AgentFacts, Limits DEF AgentInv, Typed, InStep, InTurn, Turn, Forgotten, Answers, IsCancel, Forgets, Remaining, agentVars, flagVars, managerVars
    <3> QED  BY <2>2, <3>2, <3>3, <3>4, <3>5 DEF InOrder
  <2> QED  BY <2>1, <2>2
<1> QED  BY <1>1, <1>2, <1>3 DEF AgentInv
-----------------------------------------------------------------------------
(* The manager: it touches no agent but through the events and the flags.  *)

LEMMA ManagerKeeps ==
  ASSUME AgentInv, Manager, UNCHANGED script
  PROVE  AgentInv'
<1>1. UNCHANGED <<agentVars, server, output, cancelled>>
  BY DEF Manager, StartSync, CancelServer, CancelWorkers, Gather, ResumeServer, ResumeWorkers, EndSync,
         requestVars
<1>2. /\ event' \in [Agents -> {"none", "clear", "set"}]
      /\ \A a \in Agents : event[a] = "none" <=> event'[a] = "none"
  <2>1. CASE CancelServer  BY <2>1 DEF CancelServer, AgentInv, Typed
  <2>2. CASE ~CancelServer
    <3>1. UNCHANGED event
      BY <2>2 DEF Manager, StartSync, CancelWorkers, Gather, ResumeServer, ResumeWorkers, EndSync, requestVars
    <3> QED  BY <3>1 DEF AgentInv, Typed
  <2> QED  BY <2>1, <2>2
<1>3. /\ serverPaused' \in BOOLEAN /\ workersCancelled' \in BOOLEAN
      /\ manager' \in {"running", "cancelling", "transfer"}
      /\ told' \subseteq {"server", "workers"} /\ syncs' \in 0 .. MaxSyncs
  <2> USE DEF AgentInv, Typed
  <2>1. CASE StartSync  BY <2>1, Limits DEF StartSync, flagVars
  <2>2. CASE CancelServer \/ CancelWorkers  BY <2>2 DEF CancelServer, CancelWorkers
  <2>3. CASE Gather \/ EndSync  BY <2>3 DEF Gather, EndSync, flagVars
  <2>4. CASE ResumeServer \/ ResumeWorkers  BY <2>4 DEF ResumeServer, ResumeWorkers
  <2> QED  BY <2>1, <2>2, <2>3, <2>4 DEF Manager
<1>4. Typed'  BY <1>1, <1>2, <1>3 DEF AgentInv, Typed, agentVars
<1>5. Quiet'
  <2>1. CASE Gather  BY <1>1, <2>1 DEF Gather, Gathered, Quiet, agentVars
  <2>2. CASE ~Gather
    <3>1. manager' = "transfer" => manager = "transfer"
      BY <2>2 DEF Manager, StartSync, CancelServer, CancelWorkers, ResumeServer, ResumeWorkers, EndSync
    <3> QED  BY <1>1, <3>1 DEF AgentInv, Quiet, agentVars
  <2> QED  BY <2>1, <2>2
<1>6. ASSUME NEW a \in Agents PROVE InOrder(a)'
  <2>1. Turn(a)' = Turn(a)  BY <1>1 DEF Turn, agentVars
  <2>2. InOrder(a)  BY DEF AgentInv
  <2>3. InStep(a)' /\ Counted(a)'  BY <1>1, <2>2 DEF InOrder, InStep, Counted, agentVars
  <2>4. InTurn(a)'  BY <1>1, <2>1, <2>2 DEF InOrder, InTurn, agentVars
  <2>5. Forgotten(a)'  BY <1>1, <1>2, <2>2 DEF InOrder, Forgotten, agentVars
  <2> QED  BY <2>3, <2>4, <2>5 DEF InOrder
<1> QED  BY <1>4, <1>5, <1>6 DEF AgentInv

LEMMA NothingKeeps ==
  ASSUME AgentInv, UNCHANGED vars
  PROVE  AgentInv'
<1> USE DEF vars, agentVars, requestVars, flagVars, managerVars
<1>1. Typed' /\ Quiet'  BY DEF AgentInv, Typed, Quiet
<1>2. ASSUME NEW a \in Agents PROVE InOrder(a)'
  <2>1. InOrder(a)  BY DEF AgentInv
  <2> QED  BY <2>1, OtherAgent
<1> QED  BY <1>1, <1>2 DEF AgentInv
-----------------------------------------------------------------------------
(* The theorems of the agents, the server and the manager.                 *)

LEMMA AgentInit == Init => AgentInv
<1> SUFFICES ASSUME Init PROVE AgentInv
  OBVIOUS
<1> USE DEF Init
<1>1. Typed
  <2>1. syncs \in 0 .. MaxSyncs /\ told \subseteq {"server", "workers"}  BY Limits
  <2>2. serverPaused \in BOOLEAN /\ workersCancelled \in BOOLEAN /\ cancelled \in [Agents -> BOOLEAN]
    OBVIOUS
  <2> QED  BY <2>1, <2>2 DEF Typed
<1>2. Quiet  BY DEF Quiet
<1>3. ASSUME NEW a \in Agents PROVE InOrder(a)
  <2>1. 1 \in DOMAIN script[a]
    <3>1. script[a] \in Seq([len : Nat \ {0}, from : Nat]) /\ script[a] /= <<>>
      BY ScriptAssumption DEF ScriptAssumption
    <3>2. Len(script[a]) /= 0  BY <3>1, EmptySeq
    <3>3. DOMAIN script[a] = 1 .. Len(script[a]) /\ Len(script[a]) \in Nat  BY <1>1, ScriptFacts
    <3> QED  BY <3>2, <3>3
  <2>2. Turn(a) = script[a][1]  BY DEF Turn
  <2>3. Turn(a).len \in Nat /\ Turn(a).len > 0  BY <1>1, <2>1, <2>2, ScriptFacts
  <2>4. InStep(a) /\ Counted(a) /\ Forgotten(a)  BY DEF InStep, Counted, Forgotten
  <2>5. InTurn(a)  BY <2>1, <2>3, Limits DEF InTurn
  <2> QED  BY <2>4, <2>5 DEF InOrder
<1> QED  BY <1>1, <1>2, <1>3 DEF AgentInv

LEMMA AgentNext == AgentInv /\ [Next]_vars => AgentInv'
<1> SUFFICES ASSUME AgentInv, [Next]_vars PROVE AgentInv'
  OBVIOUS
<1>1. CASE UNCHANGED vars  BY <1>1, NothingKeeps
<1>2. ASSUME Manager, UNCHANGED script PROVE AgentInv'  BY <1>2, ManagerKeeps
<1>3. ASSUME Over, UNCHANGED script PROVE AgentInv'  BY <1>3, NothingKeeps DEF Over, vars
<1>4. ASSUME NEW a \in Agents, Agent(a), UNCHANGED script PROVE AgentInv'
  BY <1>4, ReturnsCancelledKeeps, PendingKeeps, CallsServerKeeps, InterruptedKeeps, GeneratedKeeps,
     ProcessesToolsKeeps, ResubmittedKeeps DEF Agent
<1>5. ASSUME NEW a \in Agents, Server(a), UNCHANGED script PROVE AgentInv'
  BY <1>5, ArrivesKeeps, GeneratesKeeps, AnswersKeeps DEF Server
<1> QED  BY <1>1, <1>2, <1>3, <1>4, <1>5 DEF Next

THEOREM AgentInvHolds == Spec => []AgentInv
BY AgentInit, AgentNext, PTL DEF Spec

(* While the weights of a server are replaced, no request of an agent is   *)
(* generating, on its way to the server or on its way back.                *)
THEOREM TransferQuietHolds == Spec => []TransferQuiet
<1>1. AgentInv => TransferQuiet
  <2> SUFFICES ASSUME AgentInv, manager = "transfer", NEW a \in Agents PROVE server[a] = "none"
    BY DEF TransferQuiet
  <2>1. at[a] \in {"idle", "done"}  BY DEF AgentInv, Quiet
  <2> QED  BY <2>1, AgentFacts DEF InStep
<1> QED  BY <1>1, AgentInvHolds, PTL

(* The state of the agents and of their requests has its type, and when all*)
(* agents are done no request has left an event behind in the server.      *)
THEOREM ConsistentHolds == Spec => []Consistent
<1>1. AgentInv => TypeOK
  <2> SUFFICES ASSUME AgentInv PROVE TypeOK
    OBVIOUS
  <2>1. ASSUME NEW a \in Agents
        PROVE  /\ userTurns[a] \in 0 .. Len(script[a]) - 1
               /\ tokens[a] \in 0 .. Turn(a).len /\ output[a] \in 0 .. Remaining(a)
               /\ segment[a] \in Nat /\ maskLength[a] \in Nat
               /\ {assistantTurns[a], calls[a]} \subseteq 0 .. Len(script[a])
    <3>1. Len(script[a]) \in Nat /\ userTurns[a] + 1 \in 1 .. Len(script[a])
      BY AgentFacts, ScriptFacts DEF AgentInv, InTurn
    <3>2. tokens[a] + output[a] <= Turn(a).len  BY AgentFacts DEF InTurn
    <3>3. assistantTurns[a] \in {userTurns[a], userTurns[a] + 1} /\ calls[a] \in {userTurns[a], userTurns[a] + 1}
      BY AgentFacts DEF Counted
    <3>4. segment[a] \in Nat  BY DEF AgentInv, Typed
    <3> QED  BY <3>1, <3>2, <3>3, <3>4, AgentFacts, SMTT(60) DEF Remaining
  <2> QED  BY <2>1 DEF AgentInv, Typed, TypeOK
<1>2. AgentInv => NothingLeft
  <2> SUFFICES ASSUME AgentInv, AllDone, NEW a \in Agents PROVE event[a] = "none"
    BY DEF NothingLeft
  <2>1. at[a] = "done"  BY DEF AllDone
  <2> QED  BY <2>1, AgentFacts DEF InStep, Forgotten
<1> QED  BY <1>1, <1>2, AgentInvHolds, PTL DEF Consistent
-----------------------------------------------------------------------------
(* Induction over numbers, as the least counterexample.                    *)

\* The order of the numbers as a relation.
LEMMA NatOrder == \E R : IsWellFoundedOn(R, Nat) /\ \A x, y \in Nat : y < x => <<y, x>> \in R
<1>1. IsWellFoundedOn(OpToRel(<, Nat), Nat)  BY NatLessThanWellFounded
<1>2. \A x, y \in Nat : y < x => <<y, x>> \in OpToRel(<, Nat)  BY DEF OpToRel
<1> QED  BY <1>1, <1>2, Zenon

\* A set of numbers has a least one.
LEMMA LeastNumber ==
  ASSUME NEW S \in SUBSET Nat, S /= {}
  PROVE  \E x \in S : \A y \in S : x <= y
<1>1. PICK R : IsWellFoundedOn(R, Nat) /\ \A x, y \in Nat : y < x => <<y, x>> \in R
  BY NatOrder
<1>2. PICK x \in S : \A y \in S : ~(<<y, x>> \in R)  BY <1>1, WFMin
<1>3. \A y \in S : ~(y < x)  BY <1>1, <1>2
<1>4. \A y \in S : x <= y  BY <1>3
<1> QED  BY <1>4

\* What holds at 0, and at a number when it does at the one before, holds throughout.
LEMMA Throughout ==
  ASSUME NEW n \in Nat, NEW S, 0 \in S, \A i \in 1..n : i - 1 \in S => i \in S
  PROVE  \A i \in 0..n : i \in S
<1> DEFINE bad == {i \in 0..n : i \notin S}
<1>1. ASSUME bad /= {} PROVE FALSE
  <2>1. bad \in SUBSET Nat  OBVIOUS
  <2>2. PICK m \in bad : \A y \in bad : m <= y
    <3> HIDE DEF bad
    <3> QED  BY <1>1, <2>1, LeastNumber
  <2>3. m \in 1..n /\ m \notin S  BY <2>2
  <2>4. m - 1 \in 0..n /\ ~(m <= m - 1)  BY <2>3
  <2>5. m - 1 \in S  BY <2>2, <2>4
  <2> QED  BY <2>3, <2>5
<1> QED  BY <1>1

\* A step on values, taken n times, has its course.
LEMMA Course ==
  ASSUME NEW V, NEW v0 \in V, NEW n \in Nat, NEW g \in [1..n -> [V -> V]]
  PROVE  \E f \in [0..n -> V] : f[0] = v0 /\ \A i \in 1..n : f[i] = g[i][f[i - 1]]
<1> DEFINE Runs(m) == \E f \in [0..m -> V] : f[0] = v0 /\ \A i \in 1..m : f[i] = g[i][f[i - 1]]
           S       == {m \in 0..n : Runs(m)}
<1>1. Runs(0)
  <2> DEFINE f == [i \in 0..0 |-> v0]
  <2>1. f \in [0..0 -> V] /\ f[0] = v0  OBVIOUS
  <2>2. \A i \in 1..0 : f[i] = g[i][f[i - 1]]  OBVIOUS
  <2> QED  BY <2>1, <2>2
<1>2. ASSUME NEW m \in 1..n, Runs(m - 1) PROVE Runs(m)
  <2>1. PICK f \in [0..(m - 1) -> V] : f[0] = v0 /\ \A i \in 1..(m - 1) : f[i] = g[i][f[i - 1]]
    BY <1>2
  <2> DEFINE h == [i \in 0..m |-> IF i = m THEN g[m][f[m - 1]] ELSE f[i]]
  <2>2. f[m - 1] \in V /\ g[m] \in [V -> V] /\ g[m][f[m - 1]] \in V  BY <2>1
  <2>3. h \in [0..m -> V]  BY <2>1, <2>2
  <2>4. h[0] = v0 /\ \A i \in 1..m : h[i] = g[i][h[i - 1]]  BY <2>1
  <2> QED  BY <2>3, <2>4
<1>3. 0 \in S
  <2> HIDE DEF Runs
  <2> QED  BY <1>1
<1>4. \A i \in 1..n : i - 1 \in S => i \in S
  <2> HIDE DEF Runs
  <2> QED  BY <1>2
<1>5. \A i \in 0..n : i \in S
  <2> HIDE DEF S
  <2> QED  BY <1>3, <1>4, Throughout
<1> QED  BY <1>5

Lengths == Int

LEMMA LengthCourse ==
  ASSUME NEW v \in Lengths, NEW m \in Nat, NEW h \in [1 .. m -> [Lengths -> Lengths]]
  PROVE  \E f \in [0 .. m -> Lengths] : f[0] = v /\ \A i \in 1 .. m : f[i] = h[i][f[i - 1]]
BY Course
-----------------------------------------------------------------------------
(* The uninterrupted run.                                                  *)

\* No turn before the one an agent is in ends an uninterrupted run, and what
\* the agent has so far is what that run has.
Ends(a, t) == EndsGenerating(a, t) \/ EndsInTools(a, t)
Before(a) == IF userTurns[a] = 0 THEN 0 ELSE MaskAfter(a, userTurns[a]) + ToolLength
AsUninterrupted(a) ==
  LET t == userTurns[a] + 1
  IN /\ \A v \in 1 .. userTurns[a] : ~Ends(a, v)
     /\ state[a] /= "terminated" => maskLength[a] = Before(a) + tokens[a]
     /\ state[a] \in {"pending", "generating"} /\ Turn(a).from > 0 => tokens[a] < Turn(a).from
     /\ state[a] = "tools" => tokens[a] = Turn(a).len /\ ~EndsGenerating(a, t)
     /\ state[a] = "terminated" =>
          /\ Ends(a, t)
          /\ calls[a] = IF EndsGenerating(a, t) THEN t - 1 ELSE t
          /\ \/ maskLength[a] = MaskAfter(a, t)
             \/ maskLength[a] >= ResponseLength /\ MaskAfter(a, t) >= ResponseLength
Same == \A a \in Agents : AsUninterrupted(a)

\* The mask after a turn is that before it and the turn.
LEMMA MaskStep ==
  ASSUME Typed, NEW a \in Agents, NEW t \in DOMAIN script[a]
  PROVE  /\ MaskAfter(a, t) \in Nat
         /\ MaskAfter(a, t) = script[a][t].len + (IF t = 1 THEN 0 ELSE MaskAfter(a, t - 1) + ToolLength)
<1> DEFINE D       == DOMAIN script[a]
           n       == Len(script[a])
           Mask(h) == h = [u \in D |-> script[a][u].len + (IF u = 1 THEN 0 ELSE h[u - 1] + ToolLength)]
           mask    == CHOOSE h : Mask(h)
<1>1. n \in Nat /\ D = 1 .. n /\ \A u \in D : script[a][u].len \in Nat  BY ScriptFacts
<1>2. PICK f \in [0 .. n -> Int] :
        f[0] = -ToolLength /\ \A i \in 1 .. n : f[i] = f[i - 1] + ToolLength + script[a][i].len
  <2> DEFINE g == [i \in 1 .. n |-> [v \in Int |-> v + ToolLength + script[a][i].len]]
             v0 == -ToolLength
  <2>1. g \in [1 .. n -> [Lengths -> Lengths]] /\ v0 \in Lengths  BY <1>1, Limits DEF Lengths
  <2>2. PICK f \in [0 .. n -> Lengths] : f[0] = v0 /\ \A i \in 1 .. n : f[i] = g[i][f[i - 1]]
    <3> HIDE DEF g, n, v0
    <3> QED  BY <1>1, <2>1, LengthCourse, ZenonT(60)
  <2>3. ASSUME NEW i \in 1 .. n PROVE f[i] = f[i - 1] + ToolLength + script[a][i].len
    <3>1. i - 1 \in 0 .. n  BY <1>1
    <3>2. f[i - 1] \in Int  BY <2>2, <3>1, Zenon DEF Lengths
    <3>3. g[i] = [v \in Int |-> v + ToolLength + script[a][i].len]  OBVIOUS
    <3> QED  BY <2>2, <3>2, <3>3
  <2> QED  BY <2>2, <2>3 DEF Lengths
<1>3. Mask(mask)
  <2> DEFINE h == [u \in D |-> f[u]]
  <2>1. ASSUME NEW u \in D
        PROVE  h[u] = script[a][u].len + (IF u = 1 THEN 0 ELSE h[u - 1] + ToolLength)
    <3>1. u \in 1 .. n /\ f[u] = f[u - 1] + ToolLength + script[a][u].len  BY <1>1, <1>2
    <3>2. script[a][u].len \in Nat /\ ToolLength \in Nat  BY <1>1, Limits
    <3>3. CASE u = 1
      <4>1. f[u - 1] = -ToolLength  BY <1>2, <3>3
      <4> QED  BY <3>1, <3>2, <3>3, <4>1
    <3>4. CASE u /= 1
      <4>1. u - 1 \in D /\ h[u - 1] = f[u - 1]  BY <1>1, <3>1, <3>4
      <4>2. f[u - 1] \in Int
        <5>1. u - 1 \in 0 .. n  BY <1>1, <3>1
        <5> QED  BY <1>2, <5>1, Zenon
      <4> QED  BY <3>1, <3>2, <3>4, <4>1, <4>2
    <3> QED  BY <3>3, <3>4
  <2>2. Mask(h)  BY <2>1
  <2> HIDE DEF Mask, h
  <2> QED  BY <2>2
<1>4. \A u \in D : MaskAfter(a, u) = mask[u]  BY DEF MaskAfter
<1>5. \A u \in D : mask[u] = script[a][u].len + (IF u = 1 THEN 0 ELSE mask[u - 1] + ToolLength)
  <2> HIDE DEF mask
  <2> QED  BY <1>3
<1> HIDE DEF mask, Mask
<1>6. \A i \in 0 .. n : i \in D => mask[i] \in Nat
  <2> DEFINE S == {i \in 0 .. n : i \in D => mask[i] \in Nat}
  <2>1. 0 \in S  BY <1>1
  <2>2. ASSUME NEW i \in 1 .. n, i - 1 \in S PROVE i \in S
    <3>1. i \in D /\ script[a][i].len \in Nat  BY <1>1
    <3>2. mask[i] = script[a][i].len + (IF i = 1 THEN 0 ELSE mask[i - 1] + ToolLength)  BY <1>5, <3>1
    <3>3. i /= 1 => mask[i - 1] \in Nat  BY <1>1, <2>2
    <3>4. mask[i] \in Nat  BY <3>1, <3>2, <3>3, Limits
    <3> QED  BY <1>1, <3>4
  <2>3. \A i \in 0 .. n : i \in S
    <3> HIDE DEF S, n
    <3> QED  BY <1>1, <2>1, <2>2, Throughout
  <2> QED  BY <2>3
<1>7. t \in D /\ t \in 0 .. n  BY <1>1
<1>8. t /= 1 => t - 1 \in D  BY <1>1, <1>7
<1> QED  BY <1>4, <1>5, <1>6, <1>7, <1>8
\* The script says the same in both states of a step.
LEMMA SameScript ==
  ASSUME UNCHANGED script, NEW a, NEW t
  PROVE  /\ MaskAfter(a, t)' = MaskAfter(a, t)
         /\ EndsGenerating(a, t)' <=> EndsGenerating(a, t)
         /\ EndsInTools(a, t)' <=> EndsInTools(a, t)
         /\ Ends(a, t)' <=> Ends(a, t)
<1>1. MaskAfter(a, t)' = MaskAfter(a, t)  BY DEF MaskAfter
<1>2. EndsGenerating(a, t)' <=> EndsGenerating(a, t)  BY <1>1 DEF EndsGenerating, Reached
<1>3. EndsInTools(a, t)' <=> EndsInTools(a, t)  BY <1>1 DEF EndsInTools
<1> QED  BY <1>1, <1>2, <1>3 DEF Ends

\* What an agent that goes on has, at the end of its turn.
LEMMA TurnFacts ==
  ASSUME AgentInv, NEW a \in Agents
  PROVE  /\ MaskAfter(a, userTurns[a] + 1) \in Nat /\ Before(a) \in Nat
         /\ MaskAfter(a, userTurns[a] + 1) = Before(a) + Turn(a).len
<1>1. Typed /\ userTurns[a] \in Nat /\ userTurns[a] + 1 \in DOMAIN script[a]
  BY AgentFacts DEF AgentInv, InTurn
<1>2. Turn(a) = script[a][userTurns[a] + 1] /\ Turn(a).len \in Nat  BY AgentFacts DEF Turn
<1>3. userTurns[a] /= 0 => MaskAfter(a, userTurns[a]) \in Nat
  <2>1. DOMAIN script[a] = 1 .. Len(script[a]) /\ Len(script[a]) \in Nat  BY <1>1, ScriptFacts
  <2>2. userTurns[a] /= 0 => userTurns[a] \in DOMAIN script[a]  BY <1>1, <2>1
  <2> QED  BY <1>1, <2>2, MaskStep
<1>4. Before(a) \in Nat  BY <1>3, Limits DEF Before
<1>5. /\ MaskAfter(a, userTurns[a] + 1) \in Nat
      /\ MaskAfter(a, userTurns[a] + 1) =
           script[a][userTurns[a] + 1].len
             + (IF userTurns[a] + 1 = 1 THEN 0 ELSE MaskAfter(a, userTurns[a] + 1 - 1) + ToolLength)
  BY <1>1, MaskStep
<1>6. userTurns[a] + 1 - 1 = userTurns[a] /\ (userTurns[a] + 1 = 1 <=> userTurns[a] = 0)  BY <1>1
<1> QED  BY <1>2, <1>4, <1>5, <1>6 DEF Before

LEMMA OtherTurn ==
  ASSUME NEW a \in Agents, AsUninterrupted(a), UNCHANGED script, state'[a] = state[a],
         tokens'[a] = tokens[a], maskLength'[a] = maskLength[a], userTurns'[a] = userTurns[a],
         calls'[a] = calls[a]
  PROVE  AsUninterrupted(a)'
<1>1. Turn(a)' = Turn(a)  BY DEF Turn
<1>2. Before(a)' = Before(a)  BY SameScript DEF Before
<1> QED  BY <1>1, <1>2, SameScript DEF AsUninterrupted

\* No interruption is inside a tool call.  (One that is loses the call: extract_tool_calls
\* reads the last segment only.)
NoCallCut ==
  \A a \in Agents : Interrupted(a) /\ state'[a] = "generating" /\ Turn(a).from > 0
                       => tokens'[a] < Turn(a).from

\* An interruption adds to the turn, or finds it too long for the response.
LEMMA InterruptedSame ==
  ASSUME AgentInv, NEW a \in Agents, AsUninterrupted(a), Interrupted(a), NoCallCut, UNCHANGED script
  PROVE  AsUninterrupted(a)'
<1> DEFINE t == userTurns[a] + 1
<1>1. /\ state[a] = "generating" /\ server[a] = "answered" /\ cancelled[a]
      /\ tokens[a] + output[a] < Turn(a).len
  BY AgentFacts DEF Interrupted, Receives, InStep, InTurn
<1>2. /\ tokens'[a] = tokens[a] + output[a] /\ maskLength'[a] = maskLength[a] + output[a]
      /\ UNCHANGED <<userTurns, calls>>
      /\ state'[a] = IF maskLength'[a] >= ResponseLength THEN "terminated" ELSE "generating"
  BY DEF Interrupted, Receives, Enters, AgentInv, Typed
<1>3. /\ maskLength[a] = Before(a) + tokens[a] /\ calls[a] = userTurns[a]
      /\ \A v \in 1 .. userTurns[a] : ~Ends(a, v)
  BY <1>1, AgentFacts DEF AsUninterrupted, Counted
<1>4. maskLength'[a] = Before(a) + tokens'[a] /\ maskLength'[a] <= MaskAfter(a, t)
  BY <1>1, <1>2, <1>3, AgentFacts, TurnFacts
<1>5. maskLength'[a] >= ResponseLength => MaskAfter(a, t) >= ResponseLength
  BY <1>2, <1>4, AgentFacts, TurnFacts, Limits
<1>6. maskLength'[a] >= ResponseLength => EndsGenerating(a, t) /\ Ends(a, t)
  BY <1>5 DEF EndsGenerating, Ends
<1>7. calls[a] = t - 1  BY <1>3, AgentFacts
<1>8. Before(a)' = Before(a) /\ Turn(a)' = Turn(a)  BY <1>2, SameScript DEF Before, Turn
<1> HIDE DEF t
<1>9. CASE maskLength'[a] >= ResponseLength
  <2>1. state'[a] = "terminated"  BY <1>2, <1>9
  <2> QED  BY <1>2, <1>3, <1>5, <1>6, <1>7, <1>9, <2>1, SameScript DEF AsUninterrupted, t
<1>10. CASE ~(maskLength'[a] >= ResponseLength)
  <2>1. state'[a] = "generating" /\ (Turn(a).from > 0 => tokens'[a] < Turn(a).from)
    BY <1>2, <1>10 DEF NoCallCut
  <2> QED  BY <1>2, <1>3, <1>4, <1>8, <2>1, SameScript DEF AsUninterrupted
<1> QED  BY <1>9, <1>10

\* A finished turn ends the run exactly when the uninterrupted one ends there:
\* the call, if there is one, begins in the last segment.
LEMMA GeneratedSame ==
  ASSUME AgentInv, NEW a \in Agents, AsUninterrupted(a), Generated(a), UNCHANGED script
  PROVE  AsUninterrupted(a)'
<1> DEFINE t == userTurns[a] + 1
<1>1. /\ state[a] = "generating" /\ server[a] = "answered" /\ ~cancelled[a]
      /\ tokens[a] + output[a] = Turn(a).len /\ tokens[a] < Turn(a).len /\ t \in DOMAIN script[a]
  <2>1. state[a] = "generating" /\ server[a] = "answered" /\ ~cancelled[a]
    BY AgentFacts DEF Generated, Receives, InStep
  <2>2. /\ tokens[a] + output[a] <= Turn(a).len /\ tokens[a] < Turn(a).len
        /\ ~(tokens[a] + output[a] < Turn(a).len) /\ t \in DOMAIN script[a]
    BY <2>1, AgentFacts DEF InTurn
  <2> QED  BY <2>1, <2>2, AgentFacts
<1>2. /\ tokens'[a] = tokens[a] + output[a] /\ maskLength'[a] = maskLength[a] + output[a]
      /\ segment'[a] = output[a] /\ assistantTurns'[a] = assistantTurns[a] + 1
      /\ UNCHANGED <<userTurns, calls>>
  BY DEF Generated, Receives, AgentInv, Typed
<1>3. /\ maskLength[a] = Before(a) + tokens[a] /\ calls[a] = userTurns[a]
      /\ assistantTurns[a] = userTurns[a] /\ \A v \in 1 .. userTurns[a] : ~Ends(a, v)
  BY <1>1, AgentFacts DEF AsUninterrupted, Counted
<1>4. maskLength'[a] = MaskAfter(a, t) /\ tokens'[a] = Turn(a).len
  BY <1>1, <1>2, <1>3, AgentFacts, TurnFacts
<1>5. HasToolCall(a) <=> Turn(a).from /= 0
  <2>1. Turn(a).from > 0 => tokens[a] < Turn(a).from  BY <1>1 DEF AsUninterrupted
  <2>2. tokens'[a] - segment'[a] = tokens[a]  BY <1>2, AgentFacts
  <2> QED  BY <1>1, <2>1, <2>2, AgentFacts DEF HasToolCall
<1>6. state'[a] = IF EndsGenerating(a, t) THEN "terminated" ELSE "tools"
  <2>1. assistantTurns'[a] = t /\ t - 1 = userTurns[a]  BY <1>2, <1>3, AgentFacts
  <2>2. state'[a] = IF \/ maskLength'[a] >= ResponseLength
                       \/ Reached(MaxAssistantTurns, assistantTurns'[a])
                       \/ Reached(MaxUserTurns, userTurns[a])
                       \/ ~HasToolCall(a)
                    THEN "terminated" ELSE "tools"
    BY DEF Generated, Enters, AgentInv, Typed
  <2>3. Turn(a) = script[a][t]  BY DEF Turn
  <2> QED  BY <1>4, <1>5, <2>1, <2>2, <2>3 DEF EndsGenerating
<1>7. calls[a] = t - 1  BY <1>3, AgentFacts
<1>8. Turn(a)' = Turn(a) /\ Before(a)' = Before(a)  BY <1>2, SameScript DEF Turn, Before
<1>9. maskLength'[a] = Before(a) + tokens'[a]  BY <1>1, <1>2, <1>3, AgentFacts, TurnFacts
<1> HIDE DEF t
<1>10. CASE EndsGenerating(a, t)
  <2>1. state'[a] = "terminated" /\ Ends(a, t)  BY <1>6, <1>10 DEF Ends
  <2> QED  BY <1>2, <1>3, <1>4, <1>7, <1>10, <2>1, SameScript DEF AsUninterrupted, t
<1>11. CASE ~EndsGenerating(a, t)
  <2>1. state'[a] = "tools"  BY <1>6, <1>11
  <2> QED  BY <1>2, <1>3, <1>4, <1>8, <1>9, <1>11, <2>1, SameScript DEF AsUninterrupted, t
<1> QED  BY <1>10, <1>11

LEMMA ToolsSame ==
  ASSUME AgentInv, NEW a \in Agents, AsUninterrupted(a), ProcessesTools(a), UNCHANGED script
  PROVE  AsUninterrupted(a)'
<1> DEFINE t == userTurns[a] + 1
<1>1. /\ state[a] = "tools" /\ tokens[a] = Turn(a).len /\ ~EndsGenerating(a, t)
      /\ maskLength[a] = Before(a) + tokens[a] /\ calls[a] = userTurns[a]
      /\ \A v \in 1 .. userTurns[a] : ~Ends(a, v)
  BY AgentFacts DEF ProcessesTools, AsUninterrupted, Counted
<1>2. maskLength[a] = MaskAfter(a, t)  BY <1>1, TurnFacts
<1>3. calls'[a] = t  BY <1>1 DEF ProcessesTools, AgentInv, Typed
<1>4. CASE maskLength[a] + ToolLength >= ResponseLength
  <2>1. EndsInTools(a, t) /\ Ends(a, t)  BY <1>2, <1>4 DEF EndsInTools, Ends
  <2>2. state'[a] = "terminated" /\ UNCHANGED <<maskLength, userTurns, tokens>>
    BY <1>4 DEF ProcessesTools, Enters, AgentInv, Typed
  <2> HIDE DEF t
  <2> QED  BY <1>1, <1>2, <1>3, <2>1, <2>2, SameScript DEF AsUninterrupted, t
<1>5. CASE ~(maskLength[a] + ToolLength >= ResponseLength)
  <2>1. ~Ends(a, t)  BY <1>1, <1>2, <1>5 DEF EndsInTools, Ends
  <2>2. /\ state'[a] = "generating" /\ maskLength'[a] = maskLength[a] + ToolLength
        /\ userTurns'[a] = t /\ tokens'[a] = 0
    BY <1>5 DEF ProcessesTools, Enters, AgentInv, Typed
  <2>3. userTurns[a] \in Nat /\ t \in Nat /\ t /= 0  BY AgentFacts
  <2>4. \A v \in 1 .. t : ~Ends(a, v)
    <3>1. \A v \in 1 .. t : v \in 1 .. userTurns[a] \/ v = t  BY <2>3
    <3> QED  BY <1>1, <2>1, <3>1
  <2>5. Before(a)' = MaskAfter(a, t) + ToolLength
    <3>1. Before(a)' = IF userTurns'[a] = 0 THEN 0 ELSE MaskAfter(a, t) + ToolLength
      <4>1. MaskAfter(a, userTurns[a])' = MaskAfter(a, t)
        <5>1. MaskAfter(a, userTurns[a])' = LET mask[u \in DOMAIN script[a]] == script[a][u].len
                + (IF u = 1 THEN 0 ELSE mask[u - 1] + ToolLength) IN mask[t]
          BY <2>2 DEF MaskAfter
        <5> QED  BY <5>1 DEF MaskAfter
      <4> QED  BY <4>1 DEF Before
    <3> QED  BY <2>2, <2>3, <3>1
  <2>6. maskLength'[a] = Before(a)' + tokens'[a]  BY <1>2, <2>2, <2>5, TurnFacts, Limits
  <2>7. Turn(a)'.from > 0 => tokens'[a] < Turn(a)'.from
    <3>1. t \in DOMAIN script[a] /\ Typed /\ Turn(a).from > 0
      BY <1>1, AgentFacts DEF InTurn, AgentInv
    <3>2. t + 1 \in DOMAIN script[a]  BY <3>1, ScriptFacts DEF Turn
    <3>3. script[a][t + 1].from \in Nat  BY <3>1, <3>2, ScriptFacts
    <3>4. Turn(a)' = script[a][t + 1]  BY <2>2 DEF Turn
    <3> QED  BY <2>2, <3>3, <3>4
  <2> HIDE DEF t
  <2> QED  BY <2>2, <2>4, <2>6, <2>7, SameScript DEF AsUninterrupted
<1> QED  BY <1>4, <1>5
\* A first generation is the beginning of the first turn.
LEMMA PendingSame ==
  ASSUME AgentInv, NEW a \in Agents, AsUninterrupted(a), Pending(a), UNCHANGED script
  PROVE  AsUninterrupted(a)'
<1>1. state[a] = "pending" /\ state'[a] = "generating"  BY DEF Pending, AgentInv, Typed
<1>2. UNCHANGED <<tokens, maskLength, userTurns, calls>>  BY DEF Pending
<1>3. Turn(a)' = Turn(a) /\ Before(a)' = Before(a)  BY <1>2, SameScript DEF Turn, Before
<1> QED  BY <1>1, <1>2, <1>3, SameScript DEF AsUninterrupted

LEMMA SameInit == Init => Same
<1> SUFFICES ASSUME Init, NEW a \in Agents PROVE AsUninterrupted(a)
  BY DEF Same
<1>1. AgentInv  BY AgentInit
<1>2. Turn(a).from \in Nat  BY <1>1, AgentFacts
<1>3. state[a] = "pending" /\ tokens[a] = 0 /\ maskLength[a] = 0 /\ userTurns[a] = 0  BY DEF Init
<1>4. Before(a) = 0 /\ maskLength[a] = Before(a) + tokens[a]  BY <1>3 DEF Before
<1>5. Turn(a).from > 0 => tokens[a] < Turn(a).from  BY <1>2, <1>3
<1>6. \A v \in 1 .. userTurns[a] : ~Ends(a, v)  BY <1>3
<1> QED  BY <1>3, <1>4, <1>5, <1>6 DEF AsUninterrupted

\* The agents, the server and the manager never touch the turns of another agent.
LEMMA OthersSame ==
  ASSUME AgentInv, Same, NEW a \in Agents, Agent(a), UNCHANGED script, NEW b \in Agents, b /= a
  PROVE  AsUninterrupted(b)'
<1>1. AsUninterrupted(b)  BY DEF Same
<1>2. /\ state'[b] = state[b] /\ tokens'[b] = tokens[b] /\ maskLength'[b] = maskLength[b]
      /\ userTurns'[b] = userTurns[b] /\ calls'[b] = calls[b]
  <2> USE DEF AgentInv, Typed
  <2>1. CASE ReturnsCancelled(a)  BY <2>1 DEF ReturnsCancelled
  <2>2. CASE Pending(a)  BY <2>2 DEF Pending
  <2>3. CASE CallsServer(a)  BY <2>3 DEF CallsServer
  <2>4. CASE Interrupted(a)  BY <2>4 DEF Interrupted, Receives, Enters
  <2>5. CASE Generated(a)  BY <2>5 DEF Generated, Receives, Enters
  <2>6. CASE ProcessesTools(a)  BY <2>6 DEF ProcessesTools, Enters
  <2>7. CASE Resubmitted(a)  BY <2>7 DEF Resubmitted
  <2> QED  BY <2>1, <2>2, <2>3, <2>4, <2>5, <2>6, <2>7 DEF Agent
<1> QED  BY <1>1, <1>2, OtherTurn

LEMMA SameNext == AgentInv /\ Same /\ [Next]_vars /\ [NoCallCut]_vars => Same'
<1> SUFFICES ASSUME AgentInv, Same, [Next]_vars, [NoCallCut]_vars PROVE Same'
  OBVIOUS
<1>1. ASSUME UNCHANGED <<script, state, tokens, maskLength, userTurns, calls>> PROVE Same'
  BY <1>1, OtherTurn DEF Same
<1>2. CASE UNCHANGED vars  BY <1>1, <1>2 DEF vars, agentVars
<1>3. ASSUME Manager \/ Over, UNCHANGED script PROVE Same'
  <2> USE DEF agentVars
  <2>1. CASE Manager
    BY <1>1, <1>3, <2>1 DEF Manager, StartSync, CancelServer, CancelWorkers, Gather, ResumeServer,
       ResumeWorkers, EndSync
  <2>2. CASE Over  BY <1>1, <1>3, <2>2 DEF Over
  <2> QED  BY <1>3, <2>1, <2>2
<1>4. ASSUME NEW a \in Agents, Server(a), UNCHANGED script PROVE Same'
  BY <1>1, <1>4 DEF Server, Arrives, Generates, Answers, agentVars
<1>5. ASSUME NEW a \in Agents, Agent(a), UNCHANGED script, NoCallCut PROVE Same'
  <2>1. ASSUME NEW b \in Agents, b /= a PROVE AsUninterrupted(b)'  BY <1>5, <2>1, OthersSame
  <2>2. AsUninterrupted(a)  BY DEF Same
  <2>3. AsUninterrupted(a)'
    <3>1. CASE ReturnsCancelled(a) \/ CallsServer(a) \/ Resubmitted(a)
      BY <1>5, <2>2, <3>1, OtherTurn DEF ReturnsCancelled, CallsServer, Resubmitted
    <3>2. CASE Pending(a)  BY <1>5, <2>2, <3>2, PendingSame
    <3>3. CASE Interrupted(a)  BY <1>5, <2>2, <3>3, InterruptedSame
    <3>4. CASE Generated(a)  BY <1>5, <2>2, <3>4, GeneratedSame
    <3>5. CASE ProcessesTools(a)  BY <1>5, <2>2, <3>5, ToolsSame
    <3> QED  BY <1>5, <3>1, <3>2, <3>3, <3>4, <3>5 DEF Agent
  <2> QED  BY <2>1, <2>3 DEF Same
<1>6. CASE Next /\ NoCallCut  BY <1>3, <1>4, <1>5, <1>6 DEF Next
<1> QED  BY <1>2, <1>6

\* The turn an agent is done with is the first that ends an uninterrupted run.
LEMMA DoneSame == AgentInv /\ Same => SameAsUninterrupted
<1> SUFFICES ASSUME AgentInv, Same, NEW a \in Agents, at[a] = "done"
             PROVE  /\ assistantTurns[a] = LastTurn(a)
                    /\ calls[a] = IF EndsGenerating(a, LastTurn(a)) THEN LastTurn(a) - 1 ELSE LastTurn(a)
                    /\ \/ maskLength[a] = MaskAfter(a, LastTurn(a))
                       \/ maskLength[a] >= ResponseLength /\ MaskAfter(a, LastTurn(a)) >= ResponseLength
  BY DEF SameAsUninterrupted
<1> DEFINE t == userTurns[a] + 1
           First(n) == /\ EndsGenerating(a, n) \/ EndsInTools(a, n)
                       /\ \A u \in 1 .. n - 1 : ~EndsGenerating(a, u) /\ ~EndsInTools(a, u)
<1>1. state[a] = "terminated" /\ AsUninterrupted(a)  BY AgentFacts DEF InStep, Same
<1>2. t \in DOMAIN script[a] /\ assistantTurns[a] = t /\ DOMAIN script[a] \subseteq Nat \ {0}
  BY <1>1, AgentFacts, ScriptFacts DEF InTurn, Counted, AgentInv
<1>3. First(t)
  <2>1. t - 1 = userTurns[a]  BY AgentFacts
  <2>2. Ends(a, t) /\ \A v \in 1 .. userTurns[a] : ~Ends(a, v)  BY <1>1 DEF AsUninterrupted
  <2> QED  BY <2>1, <2>2 DEF Ends
<1>4. ASSUME NEW n \in DOMAIN script[a], First(n) PROVE n = t
  <2>1. ~(n < t) /\ ~(t < n)
    <3>1. n \in Nat \ {0} /\ t \in Nat \ {0}  BY <1>2
    <3>2. n < t => n \in 1 .. t - 1  BY <3>1
    <3>3. t < n => t \in 1 .. n - 1  BY <3>1
    <3> HIDE DEF t
    <3> QED  BY <1>3, <1>4, <3>2, <3>3
  <2> QED  BY <1>2, <2>1
<1>5. LastTurn(a) = t
  <2>1. LastTurn(a) = CHOOSE n \in DOMAIN script[a] : First(n)  BY DEF LastTurn
  <2> HIDE DEF t, First
  <2> QED  BY <1>2, <1>3, <1>4, <2>1
<1>6. /\ calls[a] = IF EndsGenerating(a, t) THEN t - 1 ELSE t
      /\ \/ maskLength[a] = MaskAfter(a, t)
         \/ maskLength[a] >= ResponseLength /\ MaskAfter(a, t) >= ResponseLength
  BY <1>1 DEF AsUninterrupted
<1> QED  BY <1>2, <1>5, <1>6

(* An agent that is interrupted any number of times, at tokens outside its *)
(* tool calls, ends with the turns, the tool calls and the response of one *)
(* that never was.                                                         *)
THEOREM SameHolds == Spec /\ [][NoCallCut]_vars => []SameAsUninterrupted
BY SameInit, SameNext, DoneSame, AgentInvHolds, PTL DEF Spec

\* The scripts of the run: a tool call is one token, the last of its turn.
WholeCalls == \A w \in Scripts : \A a \in Agents :
                \A t \in DOMAIN w[a] : w[a][t].from \in {0, w[a][t].len}

(* No interruption is inside a call of one token: with such scripts agents *)
(* end as if they had never been interrupted, whatever happens.            *)
THEOREM WholeCallsSameHolds ==
  ASSUME WholeCalls PROVE Spec => []SameAsUninterrupted
<1>1. AgentInv /\ [Next]_vars => [NoCallCut]_vars
  <2> SUFFICES ASSUME AgentInv, NEW a \in Agents, Interrupted(a), Turn(a).from > 0
               PROVE  tokens'[a] < Turn(a).from
    BY DEF NoCallCut
  <2>1. tokens'[a] = tokens[a] + output[a] /\ server[a] = "answered" /\ cancelled[a]
    BY DEF Interrupted, Receives, AgentInv, Typed
  <2>2. tokens'[a] < Turn(a).len  BY <2>1, AgentFacts DEF InTurn
  <2>3. Turn(a).from = Turn(a).len
    <3>1. script \in Scripts /\ userTurns[a] + 1 \in DOMAIN script[a]
      BY AgentFacts DEF AgentInv, Typed, InTurn
    <3>2. Turn(a).from \in {0, Turn(a).len}  BY <3>1, WholeCalls DEF WholeCalls, Turn
    <3> QED  BY <3>2
  <2> QED  BY <2>2, <2>3
<1> QED  BY <1>1, SameHolds, AgentInvHolds, PTL DEF Spec
=============================================================================
