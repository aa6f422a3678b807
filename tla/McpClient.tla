------------------------------ MODULE McpClient ------------------------------
(***************************************************************************)
(* The client of MCP servers: the manager (manager.rs) with its three      *)
(* transports, a child's stdin and stdout, an event stream with POSTs, and *)
(* one POST per request; and the names under which the servers' tools go   *)
(* into the tool registry (tool_proxy.rs, bootstrap.rs, pre_message.rs).   *)
(*                                                                         *)
(* The requests of a server are numbered: 1 is initialize, 2 tools/list,   *)
(* those after are tools/call.  The engine makes one call at a time, and a *)
(* cancelled turn drops the call it waits for.                             *)
(***************************************************************************)
EXTENDS Naturals, Sequences, FiniteSets, SequencesExt, Functions

CONSTANTS
    Servers,        \* the names of servers
    Offers,         \* the sets of tools a server may have
    MaxCalls,       \* bound on the calls of a session
    MaxNotices      \* bound on the messages servers send unasked

Builtin   == {"Read"}           \* in the registry before the servers' tools
EngineOwn == {"Skill"}          \* in the registry after them
Sound(tool) == tool # "bad"     \* has_valid_property_keys
Notice    == 0                  \* a message that answers no request

VARIABLES
    kind, offers,   \* the transport and the tools of each server
    late,           \* those the host adds before its first message
    link,           \* "off", "init", "list", "up", "gone"
    owed, line,     \* requests the server has and will answer; what it has sent
    pending,        \* event stream: the request in the map under the one id
                    \* that all calls have, or 0
    waiting, asked, \* the request that is waited for, or 0; the last number
    running,        \* the child runs, the event stream is open
    astray,         \* a request was left while its answer could still come
    notices,        \* messages sent unasked
    answers,        \* what requests were given: <<server, request, answer>>
    registry,       \* <<name, server>> of each tool
    stage           \* "connecting", "adding", "talking", "over"

mcpVars == <<kind, offers, late, link, owed, line, pending, waiting, asked, running, astray,
             notices, answers, registry, stage>>
SumOf(count) == FoldFunctionOnSet(+, 0, count, Servers)
channel == <<owed, line, pending, waiting, asked, running, astray, notices, answers>>

McpInit ==
    /\ kind \in [Servers -> {"stdio", "sse", "http"}] /\ offers \in [Servers -> Offers]
    /\ late \in SUBSET Servers
    /\ link = [s \in Servers |-> "off"]
    /\ owed = [s \in Servers |-> {}] /\ line = [s \in Servers |-> <<>>]
    /\ pending = [s \in Servers |-> 0] /\ waiting = [s \in Servers |-> 0]
    /\ asked = [s \in Servers |-> 0] /\ notices = [s \in Servers |-> 0]
    /\ running = [s \in Servers |-> TRUE] /\ astray = [s \in Servers |-> FALSE]
    /\ answers = {} /\ stage = "connecting"
    /\ registry = {<<<<b>>, "engine">> : b \in Builtin}
-------------------------------------------------------------------------------
(* A request, on each of the transports.                                   *)

\* Mutant of Registered: the sender is not in the map when the answer comes.
Registered_Late(s, n) == pending

\* The response channel is set up before the POST.
Registered(s, n) == IF kind[s] = "sse" THEN [pending EXCEPT ![s] = n] ELSE pending

\* rest: what the server still sends for earlier requests.
Asks(s, rest) ==
    LET n == asked[s] + 1
    IN  /\ asked' = [asked EXCEPT ![s] = n] /\ waiting' = [waiting EXCEPT ![s] = n]
        /\ owed' = [owed EXCEPT ![s] = IF running[s] THEN @ \cup {n} ELSE @]
        /\ pending' = Registered(s, n) /\ line' = [line EXCEPT ![s] = rest]

\* The server answers what it was asked in the order it likes; a POST that was
\* left has no reader.
Respond(s, n) ==
    /\ n \in owed[s] /\ owed' = [owed EXCEPT ![s] = @ \ {n}]
    /\ line' = IF kind[s] = "http" /\ n # waiting[s] THEN line
               ELSE [line EXCEPT ![s] = Append(@, n)]
    /\ UNCHANGED <<kind, offers, late, link, pending, waiting, asked, running, astray, notices,
                   answers, registry, stage>>

\* A notification of the server; over HTTP an event ahead of the answer.
Notify(s) ==
    /\ running[s] /\ SumOf(notices) < MaxNotices /\ link[s] \in {"init", "list", "up"}
    /\ kind[s] = "http" => waiting[s] \in owed[s]
    /\ notices' = [notices EXCEPT ![s] = @ + 1] /\ line' = [line EXCEPT ![s] = Append(@, Notice)]
    /\ UNCHANGED <<kind, offers, late, link, owed, pending, waiting, asked, running, astray,
                   answers, registry, stage>>

\* The child ends; the server closes the event stream.
Leave(s) ==
    /\ running[s] /\ kind[s] # "http" /\ link[s] \in {"init", "list", "up"}
    /\ running' = [running EXCEPT ![s] = FALSE] /\ owed' = [owed EXCEPT ![s] = {}]
    /\ UNCHANGED <<kind, offers, late, link, line, pending, waiting, asked, astray, notices, answers,
                   registry, stage>>

\* What comes next: a line, an event, or the end of the child's output.
Incoming(s) == IF line[s] # <<>> THEN {Head(line[s])}
            ELSE IF kind[s] = "stdio" /\ ~running[s] THEN {Notice} ELSE {}

Rest(s) == IF line[s] = <<>> \/ kind[s] = "http" THEN <<>> ELSE Tail(line[s])

\* Who is given it: over the event stream the request that is in the map, and
\* nobody what has no id; else the one that reads, whatever the id.
Taker(s, message) ==
    IF kind[s] # "sse" THEN waiting[s]
    ELSE IF message = Notice THEN 0 ELSE pending[s]

\* The waiting request is given a message.
Given(s, message) ==
    /\ message \in Incoming(s) /\ waiting[s] # 0 /\ Taker(s, message) = waiting[s]
    /\ answers' = answers \cup {<<s, waiting[s], message>>}

Settled(s) == /\ waiting' = [waiting EXCEPT ![s] = 0] /\ line' = [line EXCEPT ![s] = Rest(s)]
              /\ pending' = [pending EXCEPT ![s] = 0] /\ UNCHANGED <<owed, asked>>

\* The listener of the event stream has no sender, or one nobody waits at.
Dropped(s) ==
    /\ kind[s] = "sse" /\ link[s] \in {"init", "list", "up"}
    /\ \E message \in Incoming(s) :
          /\ Taker(s, message) # waiting[s] \/ waiting[s] = 0
          /\ pending' = IF message = Notice THEN pending ELSE [pending EXCEPT ![s] = 0]
    /\ line' = [line EXCEPT ![s] = Rest(s)]
    /\ UNCHANGED <<kind, offers, late, link, owed, waiting, asked, running, astray, notices, answers,
                   registry, stage>>
-------------------------------------------------------------------------------
(* Connecting: connect_all, connect_server.                                *)

Connect(s) ==
    /\ link[s] = "off" /\ stage = (IF s \in late THEN "adding" ELSE "connecting")
    /\ link' = [link EXCEPT ![s] = "init"] /\ Asks(s, <<>>)
    /\ UNCHANGED <<kind, offers, late, running, astray, notices, answers, registry, stage>>

\* The answer to initialize; initialized is sent, and tools/list.
Initialized(s) ==
    /\ link[s] = "init" /\ \E message \in 1..asked[s] : Given(s, message)
    /\ link' = [link EXCEPT ![s] = "list"] /\ Asks(s, Rest(s))
    /\ UNCHANGED <<kind, offers, late, running, astray, notices, registry, stage>>

\* collision_display_name, under its condition.
Named(s, tool, taken, shared) ==
    IF <<tool>> \in taken \/ shared THEN <<"mcp", s, tool>> ELSE <<tool>>

Names == {entry[1] : entry \in registry}

\* Mutant of Shared: two servers' tools of one name are not told apart.
Shared_Never(s, tool) == FALSE

\* tool_name_count, of the servers of one manager: one added late has its own.
Shared(s, tool) ==
    /\ s \notin late
    /\ \E other \in Servers \ (late \cup {s}) : link[other] = "up" /\ tool \in offers[other]

Proxies(s) ==
    {<<Named(s, tool, Names, Shared(s, tool)), s>> : tool \in {t \in offers[s] : Sound(t)}}

\* The answer to tools/list; a server added late is registered at once.
Listed(s) ==
    /\ link[s] = "list" /\ \E message \in 1..asked[s] : Given(s, message)
    /\ link' = [link EXCEPT ![s] = "up"] /\ Settled(s)
    /\ registry' = IF s \in late THEN registry \cup Proxies(s) ELSE registry
    /\ UNCHANGED <<kind, offers, late, running, astray, notices, stage>>

\* An answer without a result, or the end of the output: the others go on.
Refused(s) ==
    /\ link[s] \in {"init", "list"} /\ Given(s, Notice)
    /\ link' = [link EXCEPT ![s] = "gone"]
    /\ waiting' = [waiting EXCEPT ![s] = 0] /\ line' = [line EXCEPT ![s] = <<>>]
    /\ pending' = [pending EXCEPT ![s] = 0] /\ owed' = [owed EXCEPT ![s] = {}] /\ UNCHANGED asked
    /\ UNCHANGED <<kind, offers, late, running, astray, notices, registry, stage>>

\* Mutant of TimedOut: a server that was slow is kept.
TimedOut_Kept(s) == link' = [link EXCEPT ![s] = "up"] /\ UNCHANGED <<owed, line, pending>>

\* The transport is dropped with the attempt.
TimedOut(s) ==
    /\ link' = [link EXCEPT ![s] = "gone"] /\ line' = [line EXCEPT ![s] = <<>>]
    /\ pending' = [pending EXCEPT ![s] = 0] /\ owed' = [owed EXCEPT ![s] = {}]

\* startup_timeout.
StartupTimeout(s) ==
    /\ link[s] \in {"init", "list"} /\ TimedOut(s) /\ waiting' = [waiting EXCEPT ![s] = 0]
    /\ UNCHANGED <<kind, offers, late, asked, running, astray, notices, answers, registry, stage>>

\* register_mcp_tools, by the built-in names of before;
\* the engine's own tools are registered after them.
Bootstrapped ==
    /\ stage = "connecting" /\ \A s \in Servers \ late : link[s] \in {"up", "gone"}
    /\ registry' = registry \cup (UNION {Proxies(s) : s \in {t \in Servers \ late : link[t] = "up"}})
                   \cup {<<<<e>>, "engine">> : e \in EngineOwn}
    /\ stage' = "adding" /\ UNCHANGED <<kind, offers, late, link>> /\ UNCHANGED channel

\* Any other command ends the phase in which servers are added.
FirstMessage ==
    /\ stage = "adding" /\ \A s \in late : link[s] \notin {"init", "list"}
    /\ stage' = "talking" /\ UNCHANGED <<kind, offers, late, link, registry>> /\ UNCHANGED channel
-------------------------------------------------------------------------------
(* Calls: call_tool.                                                       *)

Call(s) ==
    /\ stage = "talking" /\ link[s] = "up" /\ SumOf([other \in Servers |-> IF link[other] = "up" THEN asked[other] - 2 ELSE 0]) < MaxCalls
    /\ \A other \in Servers : waiting[other] = 0
    /\ \E entry \in registry : entry[2] = s
    /\ Asks(s, line[s])
    /\ UNCHANGED <<kind, offers, late, link, running, astray, notices, answers, registry, stage>>

Returned(s) ==
    /\ link[s] = "up" /\ (\E message \in 0..asked[s] : Given(s, message)) /\ Settled(s)
    /\ UNCHANGED <<kind, offers, late, link, running, astray, notices, registry, stage>>

\* The POST is refused, and the sender taken out of the map; or it breaks, when
\* the server may have the request, and the sender stays.
PostFails(s, broken) ==
    /\ link[s] = "up" /\ kind[s] # "stdio" /\ waiting[s] \in owed[s]
    /\ waiting' = [waiting EXCEPT ![s] = 0] /\ answers' = answers \cup {<<s, waiting[s], Notice>>}
    /\ owed' = IF broken /\ kind[s] = "sse" THEN owed ELSE [owed EXCEPT ![s] = @ \ {waiting[s]}]
    /\ pending' = IF broken THEN pending ELSE [pending EXCEPT ![s] = 0]
    /\ astray' = [astray EXCEPT ![s] = @ \/ (broken /\ kind[s] = "sse")]
    /\ line' = IF kind[s] = "http" THEN [line EXCEPT ![s] = <<>>] ELSE line
    /\ UNCHANGED <<kind, offers, late, link, asked, running, notices, registry, stage>>

\* The turn is cancelled and its call dropped.
Cancel(s) ==
    /\ link[s] = "up" /\ waiting[s] # 0 /\ waiting' = [waiting EXCEPT ![s] = 0]
    /\ astray' = [astray EXCEPT ![s] = kind[s] # "http"]
    /\ owed' = IF kind[s] = "http" THEN [owed EXCEPT ![s] = {}] ELSE owed
    /\ line' = IF kind[s] = "http" THEN [line EXCEPT ![s] = <<>>] ELSE line
    /\ UNCHANGED <<kind, offers, late, link, pending, asked, running, notices, answers, registry, stage>>

\* shutdown; the transports that are dropped stop their children as well.
Shutdown ==
    /\ stage \in {"adding", "talking"} /\ \A s \in Servers : waiting[s] = 0
    /\ stage' = "over" /\ link' = [s \in Servers |-> "gone"]
    /\ UNCHANGED <<kind, offers, late, registry>> /\ UNCHANGED channel

McpNext ==
    \/ \E s \in Servers :
          \/ \E n \in 1..MaxCalls + 2 : Respond(s, n)
          \/ Notify(s) \/ Leave(s) \/ Dropped(s)
          \/ Connect(s) \/ Initialized(s) \/ Listed(s) \/ Refused(s) \/ StartupTimeout(s)
          \/ Call(s) \/ Returned(s) \/ Cancel(s) \/ \E broken \in BOOLEAN : PostFails(s, broken)
    \/ Bootstrapped \/ FirstMessage \/ Shutdown

McpSpec == McpInit /\ [][McpNext]_mcpVars
-------------------------------------------------------------------------------
McpTypeOK ==
    /\ link \in [Servers -> {"off", "init", "list", "up", "gone"}]
    /\ \A s \in Servers : /\ owed[s] \subseteq 1..asked[s] /\ waiting[s] \in 0..asked[s]
                          /\ pending[s] \in 0..asked[s] /\ \A i \in DOMAIN line[s] : line[s][i] \in 0..asked[s]
    /\ stage \in {"connecting", "adding", "talking", "over"}

\* A request is given its own answer or fails, unless its transport matches
\* answers by nothing (stdio) or by an id all calls share (the event stream) and
\* an earlier call was left before its answer came, or, on stdio, the server
\* had sent a line that answers nothing (manager.rs 266, stdio.rs 118).
AnswersAreOwn ==
    \A a \in answers : \/ a[3] \in {a[2], Notice} \/ astray[a[1]]
                       \/ kind[a[1]] = "stdio" /\ notices[a[1]] > 0

\* A request that waits has something to wait for: the server has it, its answer
\* is on its way, or the end of the child's output will be read.  Only the end
\* of an event stream leaves it waiting for nothing (sse.rs 193).
WaitsForSomething ==
    \A s \in Servers :
        waiting[s] # 0 /\ (kind[s] = "sse" => running[s]) =>
            \/ waiting[s] \in owed[s] \/ \E i \in DOMAIN line[s] : kind[s] # "sse" \/ line[s][i] # Notice
            \/ kind[s] = "stdio" /\ (owed[s] # {} \/ ~running[s])

\* No two tools have one name, whatever the servers and the order they come in,
\* except where a server has a tool named like one that the engine registers
\* after the servers' (tool_proxy.rs 223, bootstrap.rs 209).
NamesTellApart ==
    \A one, other \in registry :
        one # other /\ one[1] = other[1] => one[1] \in {<<e>> : e \in EngineOwn}
===============================================================================
