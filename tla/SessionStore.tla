----------------------------- MODULE SessionStore -----------------------------
(***************************************************************************)
(* The sessions on disk (agent/session.rs): one directory per session with *)
(* a state.json, written beside and renamed into place, and two older      *)
(* layouts that are read and brought over when a session is opened.        *)
(*                                                                         *)
(* Tasks of several processes share the directory; a lock for each session *)
(* is shared by the tasks of one process only.  A step changes one file or *)
(* looks through the layouts, and a process may die between any two.       *)
(***************************************************************************)
EXTENDS Naturals, FiniteSets

CONSTANTS
    Ids, Tasks, Processes,
    None, Torn,         \* no file; a file cut short
    MaxSessions,        \* max_sessions of the configuration
    MaxCreated,         \* bound on the sessions made
    MaxVersion,         \* bound on the saves of a session
    MaxDeaths           \* bound on the processes that die

\* A session: when it was made (0: before) and how far its conversation is.
Sessions == [made : 0..MaxCreated, version : 0..MaxVersion]
Files    == Sessions \cup {None, Torn}

\* None and Torn are values of their own.
ASSUME SessionsAssumption ==
    /\ None # Torn /\ {None, Torn} \cap (Ids \cup Sessions) = {}
    /\ None \notin [id : Ids, session : Sessions]
    /\ {MaxSessions, MaxCreated, MaxVersion, MaxDeaths} \subseteq Nat

VARIABLES
    home,               \* the process of a task
    windows,            \* whether a file is removed before its name is reused
    state, tmp,         \* <id>/state.json, <id>/state.json.tmp
    nested, legacy,     \* sessions/<id>/state.json, <name>.json
    step, on,           \* where a task is; the session it has locked
    draft, purpose,     \* what it writes, and what for
    held,               \* the session it has in memory, with its id
    doomed,             \* what its cleanup is to remove
    clock,              \* sessions made
    saved,              \* history: what was last written for an id
    removed, contested, \* ids touched by a cleanup since; by two processes
    deaths              \* processes that died

files == <<state, tmp, nested, legacy>>
past == <<saved, removed, contested, deaths>>
vars == <<home, windows, files, step, on, draft, purpose, held, doomed, clock, past>>
-------------------------------------------------------------------------------
Init ==
    /\ home \in [Tasks -> Processes] /\ windows \in BOOLEAN
    /\ state = [i \in Ids |-> None] /\ tmp = state
    /\ \E i \in Ids, old \in [made : {0}, version : {0}] :
          /\ nested \in {state, [state EXCEPT ![i] = old]}
          /\ legacy \in {state, [state EXCEPT ![i] = old]}
    /\ step = [t \in Tasks |-> "idle"] /\ on = [t \in Tasks |-> None] /\ draft = on
    /\ purpose = on /\ held = on /\ doomed = [t \in Tasks |-> {}]
    /\ clock = 0 /\ saved = state /\ removed = {} /\ contested = {} /\ deaths = 0

\* load_current, load_legacy: where a session is looked for, in this order.
Current(i) == IF state[i] # None THEN state[i] ELSE nested[i]
Found(i)   == IF Current(i) # None THEN Current(i) ELSE legacy[i]

\* Mutant of Exists: a session in an older layout is not seen.
Exists_Current(i) == state[i] # None

Exists(i) == state[i] # None \/ nested[i] # None \/ legacy[i] # None

\* with_session_lock: no other task of this process is at work on the session.
Free(t, i) == \A u \in Tasks \ {t} : home[u] = home[t] => on[u] # i

\* Two processes on one session, which no lock prevents.
Contests(t, i) == \E u \in Tasks : /\ home[u] # home[t]
                                   /\ on[u] = i \/ (held[u] # None /\ held[u].id = i)

\* Task t begins to work on i, under its lock.
Takes(t, i, where) ==
    /\ Free(t, i)
    /\ on' = [on EXCEPT ![t] = i] /\ step' = [step EXCEPT ![t] = where]
    /\ contested' = IF Contests(t, i) THEN contested \cup {i} ELSE contested

\* It goes on to another step; it is done with its session.
Goes(t, where) ==
    step' = [step EXCEPT ![t] = where] /\ UNCHANGED <<on, draft, purpose, held>>
Leaves(t, where) ==
    /\ on' = [on EXCEPT ![t] = None] /\ step' = [step EXCEPT ![t] = where]
    /\ draft' = [draft EXCEPT ![t] = None] /\ purpose' = [purpose EXCEPT ![t] = None]
Fails(t) == Leaves(t, "idle") /\ UNCHANGED <<home, windows, files, held, doomed, clock, past>>
-------------------------------------------------------------------------------
(* Operations begin. *)

Create(t, i) ==
    /\ step[t] = "idle" /\ held[t] = None /\ clock < MaxCreated
    /\ Takes(t, i, "check") /\ clock' = clock + 1
    /\ draft' = [draft EXCEPT ![t] = [made |-> clock + 1, version |-> 0]]
    /\ purpose' = [purpose EXCEPT ![t] = "create"]
    /\ UNCHANGED <<home, windows, files, held, doomed, saved, removed, deaths>>

Load(t, i, why) ==
    /\ step[t] = "idle" /\ held[t] = None /\ Takes(t, i, "read")
    /\ purpose' = [purpose EXCEPT ![t] = why]
    /\ UNCHANGED <<home, windows, files, draft, held, doomed, clock, saved, removed, deaths>>

\* save, after a turn.
Save(t) ==
    /\ step[t] = "idle" /\ held[t] # None /\ held[t].session.version < MaxVersion
    /\ Takes(t, held[t].id, "truncate")
    /\ draft' = [draft EXCEPT ![t] = [held[t].session EXCEPT !.version = @ + 1]]
    /\ held' = [held EXCEPT ![t].session.version = @ + 1]
    /\ purpose' = [purpose EXCEPT ![t] = "save"]
    /\ UNCHANGED <<home, windows, files, doomed, clock, saved, removed, deaths>>

\* The engine is done with its session.
Forget(t) == /\ step[t] = "idle" /\ held[t] # None /\ held' = [held EXCEPT ![t] = None]
             /\ UNCHANGED <<home, windows, files, step, on, draft, purpose, doomed, clock, past>>
-------------------------------------------------------------------------------
(* Loading.  What was read from an older layout is written anew. *)

\* The load of s is over: the session is resumed, or copied for a fork.
Loaded(t, s) ==
    IF purpose[t] = "resume"
    THEN /\ Leaves(t, "idle")
         /\ held' = [held EXCEPT ![t] = [id |-> on[t], session |-> s]]
    ELSE /\ step' = [step EXCEPT ![t] = "copy"] /\ on' = [on EXCEPT ![t] = None]
         /\ draft' = [draft EXCEPT ![t] = s] /\ UNCHANGED <<purpose, held>>

Read(t) ==
    /\ step[t] = "read"
    /\ LET s == Found(on[t])
       IN  CASE s \in {None, Torn} -> Fails(t)
             [] s \in Sessions /\ state[on[t]] # None ->
                   Loaded(t, s) /\ UNCHANGED <<home, windows, files, doomed, clock, past>>
             [] OTHER ->
                   /\ step' = [step EXCEPT ![t] = "truncate"] /\ draft' = [draft EXCEPT ![t] = s]
                   /\ UNCHANGED <<home, windows, files, on, purpose, held, doomed, clock, past>>

\* fork_from: a copy under another id.
Copy(t, i) ==
    /\ step[t] = "copy" /\ clock < MaxCreated /\ Takes(t, i, "check") /\ clock' = clock + 1
    /\ draft' = [draft EXCEPT ![t].made = clock + 1]
    /\ purpose' = [purpose EXCEPT ![t] = "create"]
    /\ UNCHANGED <<home, windows, files, held, doomed, saved, removed, deaths>>

\* The turn to fork at is not in the history.
NoAnchor(t) == step[t] = "copy" /\ Fails(t)

\* session_exists, under the lock of the new session.
Check(t) ==
    /\ step[t] = "check"
    /\ IF Exists(on[t]) THEN Fails(t)
       ELSE Goes(t, "truncate") /\ UNCHANGED <<home, windows, files, doomed, clock, past>>
-------------------------------------------------------------------------------
(* save_unlocked, write_atomic.  The directory is made and the file opened *)
(* in one step: a cleanup between the two fails the write, as one after    *)
(* them does.                                                              *)

\* Mutant of Truncate: the file is written in its place.
Truncate_InPlace(t) ==
    /\ step[t] = "truncate" /\ Goes(t, "fill") /\ tmp' = [tmp EXCEPT ![on[t]] = Torn]
    /\ state' = [state EXCEPT ![on[t]] = Torn]
    /\ UNCHANGED <<home, windows, nested, legacy, doomed, clock, past>>

Truncate(t) ==
    /\ step[t] = "truncate" /\ Goes(t, "fill") /\ tmp' = [tmp EXCEPT ![on[t]] = Torn]
    /\ UNCHANGED <<home, windows, state, nested, legacy, doomed, clock, past>>

\* A file without a name any more is written all the same.
Fill(t) ==
    /\ step[t] = "fill" /\ Goes(t, IF windows THEN "unlink" ELSE "rename")
    /\ tmp' = IF tmp[on[t]] = None THEN tmp ELSE [tmp EXCEPT ![on[t]] = draft[t]]
    /\ UNCHANGED <<home, windows, state, nested, legacy, doomed, clock, past>>

Unlink(t) ==
    /\ step[t] = "unlink" /\ Goes(t, "rename") /\ state' = [state EXCEPT ![on[t]] = None]
    /\ UNCHANGED <<home, windows, tmp, nested, legacy, doomed, clock, past>>

\* What a write is for, once it is done.
Written(t) ==
    CASE purpose[t] = "save" -> Leaves(t, "idle") /\ UNCHANGED held
      [] purpose[t] = "create" ->
            /\ Leaves(t, "list")
            /\ held' = [held EXCEPT ![t] = [id |-> on[t], session |-> draft[t]]]
      [] OTHER -> Loaded(t, draft[t])

Rename(t) ==
    /\ step[t] = "rename"
    /\ IF tmp[on[t]] = None THEN Fails(t)
       ELSE /\ state' = [state EXCEPT ![on[t]] = tmp[on[t]]]
            /\ tmp' = [tmp EXCEPT ![on[t]] = None] /\ Written(t)
            /\ saved' = [saved EXCEPT ![on[t]] = draft[t]] /\ removed' = removed \ {on[t]}
            /\ UNCHANGED <<home, windows, nested, legacy, doomed, clock, contested, deaths>>
-------------------------------------------------------------------------------
(* cleanup_old.  Sessions in the first older layout count, those in the    *)
(* second do not and stay.                                                 *)

\* list_current: what cannot be read is passed over.
Shown(i)    == IF state[i] \in Sessions THEN state[i] ELSE nested[i]
InList      == {i \in Ids : Shown(i) \in Sessions}
Older(i, j) == Shown(i).made < Shown(j).made
Surplus     == {i \in InList : Cardinality({j \in InList : Older(i, j)}) >= MaxSessions}

List(t) ==
    /\ step[t] = "list" /\ doomed' = [doomed EXCEPT ![t] = Surplus]
    /\ Goes(t, IF Surplus = {} THEN "idle" ELSE "remove")
    /\ UNCHANGED <<home, windows, files, clock, past>>

\* remove_session_layouts.
RemoveLayouts(t, i) ==
    /\ step[t] = "remove" /\ i \in doomed[t] /\ Takes(t, i, "rest")
    /\ doomed' = [doomed EXCEPT ![t] = @ \ {i}]
    /\ state' = [state EXCEPT ![i] = None]
    /\ tmp' = [tmp EXCEPT ![i] = None] /\ removed' = removed \cup {i}
    /\ UNCHANGED <<home, windows, nested, legacy, draft, purpose, held, clock, saved, deaths>>

RemoveRest(t) ==
    /\ step[t] = "rest" /\ nested' = [nested EXCEPT ![on[t]] = None]
    /\ Leaves(t, IF doomed[t] = {} THEN "idle" ELSE "remove")
    /\ removed' = removed \cup {on[t]}
    /\ UNCHANGED <<home, windows, state, tmp, legacy, held, doomed, clock, saved,
                   contested, deaths>>
-------------------------------------------------------------------------------
\* A process dies; a new one takes its place.
Crash(p) ==
    LET mine == {t \in Tasks : home[t] = p}
        Lost(f, none) == [t \in Tasks |-> IF t \in mine THEN none ELSE f[t]]
    IN  /\ deaths < MaxDeaths /\ \E t \in mine : step[t] # "idle"
        /\ step' = Lost(step, "idle") /\ on' = Lost(on, None) /\ draft' = Lost(draft, None)
        /\ purpose' = Lost(purpose, None) /\ held' = Lost(held, None)
        /\ doomed' = Lost(doomed, {}) /\ deaths' = deaths + 1
        /\ UNCHANGED <<home, windows, files, clock, saved, removed, contested>>

Next ==
    \/ \E t \in Tasks :
          \/ Save(t) \/ Forget(t) \/ Read(t) \/ NoAnchor(t) \/ Check(t)
          \/ Truncate(t) \/ Fill(t) \/ Unlink(t) \/ Rename(t)
          \/ List(t) \/ RemoveRest(t)
          \/ \E i \in Ids : Create(t, i) \/ Copy(t, i) \/ RemoveLayouts(t, i)
          \/ \E i \in Ids, why \in {"resume", "fork"} : Load(t, i, why)
    \/ \E p \in Processes : Crash(p)

Spec == Init /\ [][Next]_vars
-------------------------------------------------------------------------------
TypeOK ==
    /\ home \in [Tasks -> Processes]
    /\ \A file \in {state, tmp, nested, legacy, saved} : file \in [Ids -> Files]
    /\ {removed, contested} \subseteq SUBSET Ids /\ clock \in 0..MaxCreated
    /\ \A t \in Tasks : on[t] \in Ids <=> step[t] \notin {"idle", "copy", "list", "remove"}

\* A process at work on a session of its own finds what it saved last: whatever
\* other processes do with their sessions, wherever it or another died, unless a
\* cleanup chose the session.  Where a file cannot be renamed over another, a
\* death between the two calls loses it (session.rs 480-486).
SavedIsFound ==
    \A i \in Ids \ (contested \cup removed) :
        /\ state[i] # Torn
        /\ saved[i] # None /\ (windows => deaths = 0 /\ i \notin {on[t] : t \in Tasks})
              => Found(i) = saved[i]

\* Of the tasks of one process one makes a session of an id, and none where an
\* older layout has one (session.rs 96-101, 186-191).
CreatedOnce ==
    \A t \in Tasks :
        step[t] \in {"truncate", "fill", "unlink", "rename"} /\ purpose[t] = "create"
            => on[t] \in contested \/ Found(on[t]) = None
===============================================================================
