----------------------------- MODULE AgentRecords -----------------------------
(***************************************************************************)
(* Agents, their memory records and their tokens, in the Postgres          *)
(* repositories: get returns a copy of a row, update writes the copy back  *)
(* in a transaction of its own, and the handlers of AgentService,          *)
(* MemoryService and AgentTokenService do one after the other on the       *)
(* threads of the API and of the task worker.  The API's memory routes let *)
(* a request in first, by the administrator's key or by a token of the     *)
(* agent; the tools a model calls are bound to their agent instead.        *)
(***************************************************************************)
EXTENDS Optional, FiniteSets

CONSTANTS AgentId, MemId, TokenId, Caller, Permission

ASSUME PermissionAssumption == {"read:memory", "write:memory"} \subseteq Permission
ASSUME IdAssumption == AgentId \cap TokenId = {}

States == {"created", "idle", "running", "paused", "error", "terminated"}

\* Mutant of Transitions: a terminated agent can be brought back.
TransitionsWithReturn ==
  [created |-> {"idle", "error", "terminated"},
   idle |-> {"running", "paused", "terminated", "error"},
   running |-> {"idle", "paused", "error", "terminated"},
   paused |-> {"running", "idle", "terminated", "error"},
   error |-> {"idle", "terminated"}, terminated |-> {"idle"}]

\* ALLOWED_TRANSITIONS
Transitions ==
  [created |-> {"idle", "error", "terminated"},
   idle |-> {"running", "paused", "terminated", "error"},
   running |-> {"idle", "paused", "error", "terminated"},
   paused |-> {"running", "idle", "terminated", "error"},
   error |-> {"idle", "terminated"}, terminated |-> {}]

VARIABLES
  agentRow,     \* agents
  memRow,       \* memory_records: the agent a record belongs to
  tokenRow,     \* agent_tokens
  entered,      \* the agent and the permission a memory request was let in with
  call,         \* what a thread has read and means to write
  ended         \* history: rows ended while no other call held a copy of them

recordVars == <<agentRow, memRow, tokenRow, entered, call, ended>>

AgentRow == [state : States, permissions : SUBSET Permission, refs : SUBSET MemId]
TokenRow == [agent : AgentId, scopes : SUBSET Permission, revoked : BOOLEAN]
Needs == {"read:memory", "write:memory"}
Entry == [agent : AgentId, need : Needs]
Call == [op : {"state", "store", "forget"}, id : AgentId, row : AgentRow, need : {None}]
        \cup [op : {"revoke"}, id : TokenId, row : TokenRow, need : {None}]
        \cup [op : {"authenticate"}, id : TokenId, row : TokenRow, need : Needs]
ASSUME NoRowAssumption == None \notin AgentRow \cup TokenRow \cup Entry \cup Call

RecordsTypeOK ==
  /\ agentRow \in [AgentId -> Maybe(AgentRow)] /\ memRow \in [MemId -> Maybe(AgentId)]
  /\ tokenRow \in [TokenId -> Maybe(TokenRow)] /\ call \in [Caller -> Maybe(Call)]
  /\ entered \in [Caller -> Maybe(Entry)] /\ ended \subseteq AgentId \cup TokenId

RecordsInit ==
  /\ agentRow = [a \in AgentId |-> None] /\ memRow = [m \in MemId |-> None]
  /\ tokenRow = [k \in TokenId |-> None] /\ call = [x \in Caller |-> None]
  /\ entered = [x \in Caller |-> None] /\ ended = {}

\* register_agent
RegisterAgent(a, P) ==
  /\ agentRow[a] = None
  /\ agentRow' = [agentRow EXCEPT ![a] = [state |-> "created", permissions |-> P, refs |-> {}]]
  /\ UNCHANGED <<memRow, tokenRow, entered, call, ended>>

Free(x) == call[x] = None /\ entered[x] = None
Holds(x, op, id, row, p) == call' = [call EXCEPT ![x] = [op |-> op, id |-> id, row |-> row, need |-> p]]

\* change_state: get and transition_to
ReadForState(x, a, target) ==
  /\ Free(x) /\ agentRow[a] # None
  /\ target \in Transitions[agentRow[a].state]
  /\ Holds(x, "state", a, [agentRow[a] EXCEPT !.state = target], None)
  /\ UNCHANGED <<agentRow, memRow, tokenRow, entered, ended>>

------------------------------------------------------------------------------
(* Memory *)

\* The administrator's key lets any request in.
EnterWithKey(x, a, p) ==
  /\ Free(x)
  /\ entered' = [entered EXCEPT ![x] = [agent |-> a, need |-> p]]
  /\ UNCHANGED <<agentRow, memRow, tokenRow, call, ended>>

\* _require_permission
Permits(a, p) == agentRow[a] # None /\ p \in agentRow[a].permissions

\* PostgresMemoryRepository.add and delete, each committed at once
AddRecord(m, a) == memRow[m] = None /\ memRow' = [memRow EXCEPT ![m] = a]
DeleteRecord(m) == memRow[m] # None /\ memRow' = [memRow EXCEPT ![m] = None]

\* store: the record is committed before the agent
StoreFor(x, a, m) ==
  /\ Permits(a, "write:memory")
  /\ AddRecord(m, a)
  /\ Holds(x, "store", a, [agentRow[a] EXCEPT !.refs = @ \cup {m}], None)
  /\ UNCHANGED <<agentRow, tokenRow, ended>>

In(x, a, p) == entered[x] = [agent |-> a, need |-> p]
LetGo(x) == entered' = [entered EXCEPT ![x] = None]

\* The route, and the tool of a model at work for the agent
StoreRecord(x, a, m) == In(x, a, "write:memory") /\ LetGo(x) /\ StoreFor(x, a, m)
ToolStores(x, a, m) == Free(x) /\ UNCHANGED entered /\ StoreFor(x, a, m)

\* forget: the record is deleted whoever it belongs to
ForgetRecord(x, a, m) ==
  /\ In(x, a, "write:memory") /\ LetGo(x)
  /\ Permits(a, "write:memory")
  /\ DeleteRecord(m)
  /\ Holds(x, "forget", a, [agentRow[a] EXCEPT !.refs = @ \ {m}], None)
  /\ UNCHANGED <<agentRow, tokenRow, ended>>

\* list_for_agent and search change nothing, nor does a request that is refused.
AnswerRequest(x) ==
  /\ entered[x] # None
  /\ LetGo(x)
  /\ UNCHANGED <<agentRow, memRow, tokenRow, call, ended>>

\* Nobody else is between the read and the write of this row
Alone(x, id) == \A y \in Caller \ {x} : call[y] # None => call[y].id # id

\* update of the agent: the whole row
UpdateAgent(x) ==
  /\ call[x] # None
  /\ call[x].op \in {"state", "store", "forget"}
  /\ agentRow' = [agentRow EXCEPT ![call[x].id] = call[x].row]
  /\ call' = [call EXCEPT ![x] = None]
  /\ ended' = IF call[x].op = "state" /\ call[x].row.state = "terminated" /\ Alone(x, call[x].id)
              THEN ended \cup {call[x].id} ELSE ended
  /\ UNCHANGED <<memRow, tokenRow, entered>>

------------------------------------------------------------------------------
(* Tokens *)

\* issue_token: within the permissions the agent has
IssueToken(k, a, S) ==
  /\ tokenRow[k] = None /\ agentRow[a] # None
  /\ S \subseteq agentRow[a].permissions
  /\ tokenRow' = [tokenRow EXCEPT ![k] = [agent |-> a, scopes |-> S, revoked |-> FALSE]]
  /\ UNCHANGED <<agentRow, memRow, entered, call, ended>>

\* revoke_token, up to the update; a token that is revoked raises
ReadForRevoke(x, k) ==
  /\ Free(x) /\ tokenRow[k] # None
  /\ ~tokenRow[k].revoked
  /\ Holds(x, "revoke", k, [tokenRow[k] EXCEPT !.revoked = TRUE], None)
  /\ UNCHANGED <<agentRow, memRow, tokenRow, entered, ended>>

\* authenticate, up to the update that keeps last_used_at
Authenticate(x, k, p) ==
  /\ Free(x) /\ tokenRow[k] # None
  /\ ~tokenRow[k].revoked
  /\ Holds(x, "authenticate", k, tokenRow[k], p)
  /\ UNCHANGED <<agentRow, memRow, tokenRow, entered, ended>>

\* get_effective_scopes
EffectiveScopes(k) == tokenRow[k].scopes \cap agentRow[tokenRow[k].agent].permissions

\* update of the token: revoked is written back with last_used_at
WriteToken(x) ==
  /\ tokenRow' = [tokenRow EXCEPT ![call[x].id].revoked = call[x].row.revoked]
  /\ call' = [call EXCEPT ![x] = None]
  /\ UNCHANGED <<agentRow, memRow>>

\* The rest of revoke_token
FinishRevoke(x) ==
  /\ call[x] # None
  /\ call[x].op = "revoke"
  /\ WriteToken(x)
  /\ ended' = IF Alone(x, call[x].id) THEN ended \cup {call[x].id} ELSE ended
  /\ UNCHANGED entered

\* The rest of authenticate and of require_agent_scope: the request is let in if the
\* token, within what its agent may do now, covers it.
EnterWithToken(x) ==
  /\ call[x] # None
  /\ call[x].op = "authenticate"
  /\ WriteToken(x)
  /\ entered' = IF call[x].need \in EffectiveScopes(call[x].id)
                THEN [entered EXCEPT ![x] = [agent |-> call[x].row.agent, need |-> call[x].need]]
                ELSE entered
  /\ UNCHANGED ended

RecordsNext ==
  \/ \E a \in AgentId, P \in SUBSET Permission :
        RegisterAgent(a, P) \/ \E k \in TokenId : IssueToken(k, a, P)
  \/ \E x \in Caller :
        \/ \E a \in AgentId : \/ \E s \in States : ReadForState(x, a, s)
                              \/ \E p \in Needs : EnterWithKey(x, a, p)
                              \/ \E m \in MemId : \/ StoreRecord(x, a, m) \/ ToolStores(x, a, m)
                                                  \/ ForgetRecord(x, a, m)
        \/ \E k \in TokenId : ReadForRevoke(x, k) \/ \E p \in Needs : Authenticate(x, k, p)
        \/ AnswerRequest(x) \/ UpdateAgent(x) \/ FinishRevoke(x) \/ EnterWithToken(x)

RecordsSpec == RecordsInit /\ [][RecordsNext]_recordVars

------------------------------------------------------------------------------
\* A termination or a revocation written while no other call holds a copy of the row
\* is final: no later transition, memory operation or authentication takes it back
\* (transition_to and authenticate look at the row they are about to write back).
EndedAloneIsFinal ==
  /\ \A a \in ended \cap AgentId : agentRow[a].state = "terminated"
  /\ \A k \in ended \cap TokenId : tokenRow[k].revoked
===============================================================================
