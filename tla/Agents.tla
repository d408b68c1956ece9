--------------------------------- MODULE Agents ---------------------------------
(***************************************************************************)
(* The agent orchestrator (core/agent_orchestrator.py with api/v1/ai.py):  *)
(* agents, their executions and conversations, as one session sees them.   *)
(***************************************************************************)
EXTENDS TenantRows

CONSTANTS
    AgentTypes,         \* AGENT_REGISTRY, "seo" and "support" among them
    HistoryLimit,       \* the most that a query of the history may ask for
    MaxExecutions, MaxConversations     \* bounds

ASSUME AgentsAssumption ==
    /\ {"seo", "support"} \subseteq AgentTypes
    /\ {HistoryLimit, MaxExecutions, MaxConversations} \subseteq Nat

VARIABLES
    agents,         \* rows of ai_agents, made when a tenant first uses a type
    executions,     \* rows of ai_agent_executions
    conversations   \* rows of conversations, each with its messages by role

agentVars == <<agents, executions, conversations>>

AIAgent == [tenant : Tenants, type : AgentTypes, total : 0 .. MaxExecutions]
AIAgentExecution == [tenant : Tenants, agent : Nat \ {0}, status : {"completed", "failed"}]
Conversation == [tenant : Tenants, agent : Nat,     \* 0: none
    count : Nat, user : Nat, assistant : Nat]

AgentsTypeOK ==
    /\ agents \in Seq(AIAgent)
    /\ executions \in Seq(AIAgentExecution)
    /\ conversations \in Seq(Conversation)
    /\ \A e \in DOMAIN executions : executions[e].agent \in DOMAIN agents
    /\ \A c \in DOMAIN conversations : conversations[c].agent \in {0} \cup DOMAIN agents

AgentsInit == agents = <<>> /\ executions = <<>> /\ conversations = <<>>

-----------------------------------------------------------------------------
\* _resolve_agent_record: the tenant's agent of a type, made if there is none.
AgentRecord(t, type) == {a \in OfTenant(agents, t) : agents[a].type = type}
ResolveAgentRecord(t, type) == IF AgentRecord(t, type) # {} THEN agents
    ELSE Inserted(agents, [tenant |-> t, type |-> type, total |-> 0])
Resolved(t, type) == IF AgentRecord(t, type) # {}
    THEN CHOOSE a \in AgentRecord(t, type) : TRUE ELSE Len(agents) + 1

\* _call_llm: an answer, an empty one, or an error (a provider's own errors are
\* answered by a simulation; a key without an address is an error).
CallLLM == {"answer", "empty", "error"}

\* Mutant: an execution without an answer is not recorded.
RecordAnswers(t, a, outcome) == executions' = IF outcome # "answer" THEN executions
    ELSE Inserted(executions, [tenant |-> t, agent |-> a, status |-> "completed"])

\* Mutant: the status of an execution is what the model returned.
RecordOutcome(t, a, outcome) == executions' = Inserted(executions,
    [tenant |-> t, agent |-> a, status |-> outcome])

\* What became of an execution is recorded in any case.
RecordExecution(t, a, outcome) == executions' = Inserted(executions,
    [tenant |-> t, agent |-> a, status |-> IF outcome = "error" THEN "failed" ELSE "completed"])

\* _append_to_conversation adds the answer alone and counts it.
AppendToConversation(rows, c, outcome) == IF c = 0 \/ outcome # "answer" THEN rows
    ELSE [rows EXCEPT ![c].assistant = @ + 1, ![c].count = @ + 1]

\* execute_agent, within a conversation or none.
Execute(t, type, rows, c) == \E outcome \in CallLLM :
    /\ Len(executions) < MaxExecutions
    /\ agents' = [ResolveAgentRecord(t, type) EXCEPT ![Resolved(t, type)].total = @ + 1]
    /\ RecordExecution(t, Resolved(t, type), outcome)
    /\ conversations' = AppendToConversation(rows, c, outcome)

ExecuteAgent(t, type) == \E c \in {0} \cup DOMAIN conversations :
    Execute(t, type, conversations, c)

\* The analysis of a text is an execution of the "seo" agent.
AnalyzeContent(t) == Execute(t, "seo", conversations, 0)

CreateConversation(t) == \E type \in AgentTypes \cup {"none"} :
    /\ Len(conversations) < MaxConversations
    /\ agents' = IF type = "none" THEN agents ELSE ResolveAgentRecord(t, type)
    /\ conversations' = Inserted(conversations, [tenant |-> t,
        agent |-> IF type = "none" THEN 0 ELSE Resolved(t, type),
        count |-> 0, user |-> 0, assistant |-> 0])
    /\ UNCHANGED executions

\* run_conversation adds the user's message, which nothing counts, and executes
\* the conversation's agent, or "support".
RunConversation(t, c) ==
    LET type == IF conversations[c].agent = 0 THEN "support"
                ELSE agents[conversations[c].agent].type
    IN  Execute(t, type, [conversations EXCEPT ![c].user = @ + 1], c)

SendMessage(t, c) == c \in DOMAIN conversations /\ RunConversation(t, c)

\* The reads: no conversation is ever archived.  The response with the messages of
\* one takes their field metadata for a dictionary, which it is not, and is refused
\* once there are any.
ConversationsOf(t) == OfTenant(conversations, t)
ListConversations(t, page, limit) == Page(ConversationsOf(t), page, limit)
MessagesShown(c) == conversations[c].user + conversations[c].assistant
GetConversation(c) == c \in DOMAIN conversations /\ MessagesShown(c) = 0
GetExecutionHistory(t, type, limit) ==
    Page({e \in OfTenant(executions, t) : executions[e].agent \in AgentRecord(t, type)}, 1, limit)

-----------------------------------------------------------------------------
AgentsNext == \E t \in Tenants :
    \/ \E type \in AgentTypes : ExecuteAgent(t, type)
    \/ AnalyzeContent(t) \/ CreateConversation(t)
    \/ \E c \in 1 .. MaxConversations : SendMessage(t, c)

AgentsSpec == AgentsInit /\ [][AgentsNext]_agentVars

-----------------------------------------------------------------------------
\* An agent's total is what a query of its type's history finds, or more than the
\* query's limit, which it fills then: an execution that ends without an answer is
\* counted and shown too, and a tenant has one agent of a type, however it came
\* into being.
HistoryIsTotal == \A a \in DOMAIN agents : LET t == agents[a].tenant type == agents[a].type IN
    /\ AgentRecord(t, type) = {a}
    /\ \A limit \in 1 .. HistoryLimit : Cardinality(GetExecutionHistory(t, type, limit))
        = IF agents[a].total < limit THEN agents[a].total ELSE limit

\* What is shown: an agent's total is its history, the list of conversations is
\* complete and counts the answers of each, and who can open a conversation sees
\* that it is as empty as the list says.
AgentViewsAgree ==
    /\ HistoryIsTotal
    /\ \A t \in Tenants : ConversationsOf(t)
        = Walk(LAMBDA p, l : ListConversations(t, p, l), MaxConversations)
    /\ \A c \in DOMAIN conversations :
        /\ conversations[c].count = conversations[c].assistant
        /\ GetConversation(c) => conversations[c].count = 0
=============================================================================
