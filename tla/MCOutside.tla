------------------------------ MODULE MCOutside ------------------------------
(***************************************************************************)
(* One instance for TLC of what a run shares with others: the sessions on  *)
(* the disk, and the MCP servers.  They share no state with each other, so *)
(* a behaviour is one of a single component, chosen at the start, the      *)
(* variables of the other stay Unused, and the state space is the sum of   *)
(* theirs.                                                                 *)
(***************************************************************************)
EXTENDS SessionStore, McpClient, TLC

VARIABLE which          \* the component that runs

Unused == "unused"

Symmetry == Permutations(Ids) \cup Permutations(Tasks) \cup Permutations(Processes)

\* One server offers a tool named like a builtin one, the other one like the
\* engine's own and one that cannot be declared.
OffersOf == {{"lookup", "Read"}, {"lookup", "Skill", "bad"}}
-------------------------------------------------------------------------------
NoSessions ==
    /\ home = Unused /\ windows = Unused /\ state = Unused /\ tmp = Unused /\ nested = Unused
    /\ legacy = Unused /\ step = Unused /\ on = Unused /\ draft = Unused /\ purpose = Unused
    /\ held = Unused /\ doomed = Unused /\ clock = Unused /\ saved = Unused
    /\ removed = Unused /\ contested = Unused /\ deaths = Unused

NoClient ==
    /\ kind = Unused /\ offers = Unused /\ late = Unused /\ link = Unused /\ owed = Unused
    /\ line = Unused /\ pending = Unused /\ waiting = Unused /\ asked = Unused
    /\ running = Unused /\ astray = Unused /\ notices = Unused /\ answers = Unused
    /\ registry = Unused /\ stage = Unused

OutsideInit ==
    \/ which = "sessions" /\ Init /\ NoClient
    \/ which = "client" /\ McpInit /\ NoSessions

OutsideNext ==
    \/ which = "sessions" /\ Next /\ UNCHANGED <<which, mcpVars>>
    \/ which = "client" /\ McpNext /\ UNCHANGED <<which, vars>>

OutsideSpec == OutsideInit /\ [][OutsideNext]_<<which, vars, mcpVars>>
-------------------------------------------------------------------------------
\* A process at work on a session of its own finds what it saved last, whatever
\* other processes do with theirs and wherever one dies (session.rs 475-488).
SessionsLast == which = "sessions" => TypeOK /\ SavedIsFound

\* Of the tasks of one process one makes a session of an id, and none does where
\* an older layout has one (session.rs 96-101, 186-191).
SessionsMadeOnce == which = "sessions" => CreatedOnce

\* A request to an MCP server is given its own answer or fails, whatever timed
\* out before it, as far as its transport matches answers at all; and no two
\* tools have one name, whatever the servers offer and in whatever order they
\* come in, but for those named like the engine's (manager.rs, tool_proxy.rs).
AnswersMatch == which = "client" => McpTypeOK /\ AnswersAreOwn /\ NamesTellApart

\* A request that waits has something to wait for, unless an event stream has
\* ended under it (stdio.rs 89-113, sse.rs 155-204).
WaitsAnswered == which = "client" => WaitsForSomething
===============================================================================
