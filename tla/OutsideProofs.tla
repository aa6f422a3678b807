----------------------------- MODULE OutsideProofs -----------------------------
(***************************************************************************)
(* Theorems about what a run shares with others: the sessions on the disk, *)
(* for every set of ids, tasks and processes and every bound, and the      *)
(* client of MCP servers, for every set of servers.                        *)
(***************************************************************************)
EXTENDS MCOutside, TLAPS

-------------------------------------------------------------------------------
(* The sessions.  Two tasks are at work on one session only if they are of *)
(* two processes, and then the session is contested; so what a task writes *)
(* is what it finds, as long as no cleanup comes between.                  *)

AtWork == {"check", "read", "truncate", "fill", "unlink", "rename", "rest"}
Writing == {"truncate", "fill", "unlink", "rename"}

Held == [id : Ids, session : Sessions] \cup {None}

SessionTypes ==
    /\ home \in [Tasks -> Processes] /\ windows \in BOOLEAN
    /\ state \in [Ids -> Files] /\ tmp \in [Ids -> Files]
    /\ nested \in [Ids -> Files] /\ legacy \in [Ids -> Files] /\ saved \in [Ids -> Files]
    /\ step \in [Tasks -> AtWork \cup {"idle", "copy", "list", "remove"}]
    /\ on \in [Tasks -> Ids \cup {None}]
    /\ draft \in [Tasks -> Sessions \cup {None}]
    /\ purpose \in [Tasks -> {"create", "save", "resume", "fork", None}]
    /\ held \in [Tasks -> Held] /\ doomed \in [Tasks -> SUBSET Ids]
    /\ clock \in 0..MaxCreated /\ removed \subseteq Ids /\ contested \subseteq Ids
    /\ deaths \in Nat

\* A task has a session exactly while it is at work on one, and something to
\* write from the moment it knows what.
EngagedTask(t) ==
    /\ on[t] \in Ids <=> step[t] \in AtWork
    /\ step[t] \in Writing \cup {"check", "copy"} => draft[t] \in Sessions
    /\ step[t] = "read" => purpose[t] \in {"resume", "fork"}
    /\ step[t] = "unlink" => windows
Engaged == \A t \in Tasks : EngagedTask(t)

Locked ==
    \A t, u \in Tasks :
        t # u /\ on[t] = on[u] /\ on[t] \in Ids => on[t] \in contested

\* What a task has filled is what it writes.
Filled ==
    \A t \in Tasks : on[t] \notin contested =>
        /\ step[t] = "fill" => tmp[on[t]] # None
        /\ step[t] \in {"unlink", "rename"} => tmp[on[t]] = draft[t]

Renaming(i) == \E t \in Tasks : on[t] = i /\ step[t] = "rename"

Findable ==
    \A i \in Ids \ contested :
        /\ state[i] # Torn
        /\ i \notin removed /\ saved[i] # None =>
              state[i] = saved[i] \/ (windows /\ (deaths > 0 \/ Renaming(i)))

SessionInv == SessionTypes /\ Engaged /\ Locked /\ Filled /\ Findable /\ CreatedOnce
-------------------------------------------------------------------------------
(* Types.                                                                  *)

LEMMA FreshNone ==
    /\ None \notin Ids /\ None \notin Sessions /\ Torn \notin Sessions /\ None # Torn
    /\ None \in Files /\ Sessions \subseteq Files
    /\ \A h \in [id : Ids, session : Sessions] : h # None
    /\ AtWork \cap {"idle", "copy", "list", "remove"} = {}
  BY SessionsAssumption DEF Files, AtWork

LEMMA TypesStep ==
    ASSUME SessionTypes, Engaged, [Next]_vars
    PROVE  SessionTypes'
<1>. USE FreshNone
<1>1. ASSUME NEW t \in Tasks, NEW where \in AtWork \cup {"idle", "copy", "list", "remove"},
             Leaves(t, where)
      PROVE  /\ step' \in [Tasks -> AtWork \cup {"idle", "copy", "list", "remove"}]
             /\ on' \in [Tasks -> Ids \cup {None}]
             /\ draft' \in [Tasks -> Sessions \cup {None}]
             /\ purpose' \in [Tasks -> {"create", "save", "resume", "fork", None}]
  BY <1>1 DEF Leaves, SessionTypes
<1>2. ASSUME NEW t \in Tasks, NEW i \in Ids, NEW where \in AtWork, Takes(t, i, where)
      PROVE  /\ step' \in [Tasks -> AtWork \cup {"idle", "copy", "list", "remove"}]
             /\ on' \in [Tasks -> Ids \cup {None}]
             /\ contested' \subseteq Ids
  BY <1>2 DEF Takes, SessionTypes
<1>3. ASSUME NEW t \in Tasks, Fails(t) PROVE SessionTypes'
  BY <1>1, <1>3 DEF Fails, SessionTypes, files, past
<1>4. ASSUME NEW t \in Tasks, NEW x \in Sessions, on[t] \in Ids, Loaded(t, x)
      PROVE  /\ step' \in [Tasks -> AtWork \cup {"idle", "copy", "list", "remove"}]
             /\ on' \in [Tasks -> Ids \cup {None}]
             /\ draft' \in [Tasks -> Sessions \cup {None}]
             /\ purpose' \in [Tasks -> {"create", "save", "resume", "fork", None}]
             /\ held' \in [Tasks -> Held]
  BY <1>1, <1>4 DEF Loaded, SessionTypes, Held
<1>5. ASSUME NEW t \in Tasks, NEW i \in Ids, Create(t, i) \/ Copy(t, i)
      PROVE  SessionTypes'
  <2>1. clock + 1 \in 0..MaxCreated /\ [made |-> clock + 1, version |-> 0] \in Sessions
    BY <1>5, SessionsAssumption DEF Create, Copy, SessionTypes, Sessions
  <2>2. CASE Create(t, i)
    BY <1>2, <2>1, <2>2 DEF Create, SessionTypes, files, AtWork
  <2>3. CASE Copy(t, i)
    <3>1. [draft[t] EXCEPT !.made = clock + 1] \in Sessions
      BY <2>1, <2>3 DEF Copy, Engaged, EngagedTask, Sessions
    <3>2. draft' \in [Tasks -> Sessions \cup {None}]
      BY <2>3, <3>1 DEF Copy, SessionTypes
    <3>. QED  BY <1>2, <2>1, <2>3, <3>2 DEF Copy, SessionTypes, files, AtWork
  <2>. QED  BY <1>5, <2>2, <2>3
<1>6. ASSUME NEW t \in Tasks, NEW i \in Ids, NEW why \in {"resume", "fork"}, Load(t, i, why)
      PROVE  SessionTypes'
  BY <1>2, <1>6 DEF Load, SessionTypes, files, AtWork
<1>7. ASSUME NEW t \in Tasks, Save(t) PROVE SessionTypes'
  <2>1. held[t] \in [id : Ids, session : Sessions] /\ held[t].session.version < MaxVersion
    BY <1>7 DEF Save, SessionTypes, Held
  <2>2. [held[t].session EXCEPT !.version = @ + 1] \in Sessions
    BY <2>1, SessionsAssumption DEF Sessions
  <2>3. held' \in [Tasks -> Held] /\ draft' \in [Tasks -> Sessions \cup {None}]
    <3>1. [held[t] EXCEPT !.session.version = @ + 1] \in [id : Ids, session : Sessions]
      BY <2>1, <2>2
    <3>. QED  BY <1>7, <2>2, <3>1 DEF Save, SessionTypes, Held
  <2>4. held[t].id \in Ids /\ Takes(t, held[t].id, "truncate")
    BY <1>7, <2>1 DEF Save
  <2>. QED  BY <1>2, <1>7, <2>3, <2>4 DEF Save, SessionTypes, files, AtWork
<1>8. ASSUME NEW t \in Tasks, Forget(t) PROVE SessionTypes'
  BY <1>8 DEF Forget, SessionTypes, Held, files, past
<1>9. ASSUME NEW t \in Tasks, Read(t) PROVE SessionTypes'
  <2>1. on[t] \in Ids /\ Found(on[t]) \in Files
    BY <1>9 DEF Read, Engaged, EngagedTask, SessionTypes, Found, Current, AtWork
  <2>2. CASE Fails(t)
    BY <1>3, <2>2
  <2>3. CASE /\ Found(on[t]) \in Sessions
             /\ Loaded(t, Found(on[t])) /\ UNCHANGED <<home, windows, files, doomed, clock, past>>
    BY <1>4, <2>1, <2>3 DEF SessionTypes, files, past
  <2>4. CASE /\ Found(on[t]) \in Sessions
             /\ step' = [step EXCEPT ![t] = "truncate"]
             /\ draft' = [draft EXCEPT ![t] = Found(on[t])]
             /\ UNCHANGED <<home, windows, files, on, purpose, held, doomed, clock, past>>
    BY <2>4 DEF SessionTypes, files, past, AtWork
  <2>. QED  BY <1>9, <2>1, <2>2, <2>3, <2>4 DEF Read, Files
<1>10. ASSUME NEW t \in Tasks, NoAnchor(t) PROVE SessionTypes'
  BY <1>3, <1>10 DEF NoAnchor
<1>11. ASSUME NEW t \in Tasks, Check(t) PROVE SessionTypes'
  BY <1>3, <1>11 DEF Check, Goes, SessionTypes, files, past, AtWork
<1>12. ASSUME NEW t \in Tasks, Truncate(t) PROVE SessionTypes'
  BY <1>12 DEF Truncate, Goes, SessionTypes, Files, past, AtWork
<1>13. ASSUME NEW t \in Tasks, Fill(t) PROVE SessionTypes'
  <2>1. on[t] \in Ids /\ draft[t] \in Sessions
    BY <1>13 DEF Fill, Engaged, EngagedTask, AtWork, Writing
  <2>. QED  BY <1>13, <2>1 DEF Fill, Goes, SessionTypes, past, AtWork
<1>14. ASSUME NEW t \in Tasks, Unlink(t) PROVE SessionTypes'
  BY <1>14 DEF Unlink, Goes, SessionTypes, past, AtWork
<1>15. ASSUME NEW t \in Tasks, Rename(t) PROVE SessionTypes'
  <2>1. on[t] \in Ids /\ draft[t] \in Sessions
    BY <1>15 DEF Rename, Engaged, EngagedTask, AtWork, Writing
  <2>2. CASE Fails(t)
    BY <1>3, <2>2
  <2>3. CASE /\ state' = [state EXCEPT ![on[t]] = tmp[on[t]]]
             /\ tmp' = [tmp EXCEPT ![on[t]] = None] /\ Written(t)
             /\ saved' = [saved EXCEPT ![on[t]] = draft[t]] /\ removed' = removed \ {on[t]}
             /\ UNCHANGED <<home, windows, nested, legacy, doomed, clock, contested, deaths>>
    <3>1. /\ step' \in [Tasks -> AtWork \cup {"idle", "copy", "list", "remove"}]
          /\ on' \in [Tasks -> Ids \cup {None}]
          /\ draft' \in [Tasks -> Sessions \cup {None}]
          /\ purpose' \in [Tasks -> {"create", "save", "resume", "fork", None}]
          /\ held' \in [Tasks -> Held]
      <4>1. CASE Leaves(t, "idle") /\ UNCHANGED held
        BY <1>1, <4>1 DEF SessionTypes
      <4>2. CASE Leaves(t, "list")
                 /\ held' = [held EXCEPT ![t] = [id |-> on[t], session |-> draft[t]]]
        BY <1>1, <2>1, <4>2 DEF SessionTypes, Held
      <4>3. CASE Loaded(t, draft[t])
        BY <1>4, <2>1, <4>3
      <4>. QED  BY <2>3, <4>1, <4>2, <4>3 DEF Written
    <3>. QED  BY <2>1, <2>3, <3>1 DEF SessionTypes
  <2>. QED  BY <1>15, <2>2, <2>3 DEF Rename
<1>16. ASSUME NEW t \in Tasks, List(t) PROVE SessionTypes'
  <2>1. Surplus \subseteq Ids
    BY DEF Surplus, InList
  <2>. QED  BY <1>16, <2>1 DEF List, Goes, SessionTypes, files, past, AtWork
<1>17. ASSUME NEW t \in Tasks, NEW i \in Ids, RemoveLayouts(t, i) PROVE SessionTypes'
  BY <1>2, <1>17 DEF RemoveLayouts, SessionTypes, AtWork
<1>18. ASSUME NEW t \in Tasks, RemoveRest(t) PROVE SessionTypes'
  <2>1. on[t] \in Ids
    BY <1>18 DEF RemoveRest, Engaged, EngagedTask, AtWork
  <2>. QED  BY <1>1, <1>18, <2>1 DEF RemoveRest, SessionTypes
<1>19. ASSUME NEW p \in Processes, Crash(p) PROVE SessionTypes'
  BY <1>19 DEF Crash, SessionTypes, files, Held
<1>20. CASE UNCHANGED vars
  BY <1>20 DEF vars, SessionTypes, files, past
<1>. QED  BY <1>5, <1>6, <1>7, <1>8, <1>9, <1>10, <1>11, <1>12, <1>13, <1>14, <1>15, <1>16,
          <1>17, <1>18, <1>19, <1>20 DEF Next

LEMMA EngagedStep ==
    ASSUME SessionTypes, Engaged, [Next]_vars
    PROVE  Engaged'
<1>. USE FreshNone
<1>1. ASSUME NEW t \in Tasks, windows' = windows, EngagedTask(t)',
             \A u \in Tasks \ {t} : /\ step'[u] = step[u] /\ on'[u] = on[u]
                                    /\ draft'[u] = draft[u] /\ purpose'[u] = purpose[u]
      PROVE  Engaged'
  BY <1>1 DEF Engaged, EngagedTask
<1>2. ASSUME NEW t \in Tasks, NEW where \in {"idle", "list", "remove"}, Leaves(t, where),
             windows' = windows
      PROVE  Engaged'
  BY <1>1, <1>2 DEF Leaves, SessionTypes, EngagedTask, AtWork, Writing
<1>3. ASSUME NEW t \in Tasks, NEW x \in Sessions, Loaded(t, x), windows' = windows
      PROVE  Engaged'
  <2>1. CASE Leaves(t, "idle")
    BY <1>2, <1>3, <2>1
  <2>2. CASE /\ step' = [step EXCEPT ![t] = "copy"] /\ on' = [on EXCEPT ![t] = None]
             /\ draft' = [draft EXCEPT ![t] = x] /\ UNCHANGED <<purpose, held>>
    BY <1>1, <1>3, <2>2 DEF SessionTypes, EngagedTask, AtWork, Writing
  <2>. QED  BY <1>3, <2>1, <2>2 DEF Loaded
<1>4. ASSUME NEW t \in Tasks, NEW where, Goes(t, where), windows' = windows,
             step[t] \in AtWork, where \in Writing, where = "unlink" => windows,
             draft[t] \in Sessions
      PROVE  Engaged'
  BY <1>1, <1>4 DEF Goes, SessionTypes, Engaged, EngagedTask, AtWork, Writing
<1>5. ASSUME NEW t \in Tasks, NEW i \in Ids, NEW where \in {"check", "read", "truncate", "rest"},
             Takes(t, i, where), windows' = windows, purpose'[t] \in {"resume", "fork"} \/ where # "read",
             draft'[t] \in Sessions \/ where \in {"read", "rest"},
             \A u \in Tasks \ {t} : draft'[u] = draft[u] /\ purpose'[u] = purpose[u]
      PROVE  Engaged'
  BY <1>1, <1>5 DEF Takes, SessionTypes, Engaged, EngagedTask, AtWork, Writing
<1>6. ASSUME NEW t \in Tasks, Fails(t) PROVE Engaged'
  BY <1>2, <1>6 DEF Fails
<1>7. ASSUME NEW t \in Tasks, NEW i \in Ids, Create(t, i) \/ Copy(t, i)
      PROVE  Engaged'
  <2>1. clock + 1 \in 0..MaxCreated /\ [made |-> clock + 1, version |-> 0] \in Sessions
    BY <1>7, SessionsAssumption DEF Create, Copy, SessionTypes, Sessions
  <2>2. CASE Create(t, i)
    BY <1>5, <2>1, <2>2 DEF Create, SessionTypes
  <2>3. CASE Copy(t, i)
    <3>1. [draft[t] EXCEPT !.made = clock + 1] \in Sessions
      BY <2>1, <2>3 DEF Copy, Engaged, EngagedTask, Sessions
    <3>. QED  BY <1>5, <2>3, <3>1 DEF Copy, SessionTypes
  <2>. QED  BY <1>7, <2>2, <2>3
<1>8. ASSUME NEW t \in Tasks, NEW i \in Ids, NEW why \in {"resume", "fork"}, Load(t, i, why)
      PROVE  Engaged'
  BY <1>5, <1>8 DEF Load, SessionTypes
<1>9. ASSUME NEW t \in Tasks, Save(t) PROVE Engaged'
  <2>1. held[t] \in [id : Ids, session : Sessions] /\ held[t].session.version < MaxVersion
    BY <1>9 DEF Save, SessionTypes, Held
  <2>2. [held[t].session EXCEPT !.version = @ + 1] \in Sessions
    BY <2>1, SessionsAssumption DEF Sessions
  <2>3. held[t].id \in Ids /\ Takes(t, held[t].id, "truncate")
    BY <1>9, <2>1 DEF Save
  <2>. QED  BY <1>5, <1>9, <2>2, <2>3 DEF Save, SessionTypes
<1>10. ASSUME NEW t \in Tasks, Read(t) PROVE Engaged'
  <2>1. on[t] \in Ids /\ Found(on[t]) \in Files
    BY <1>10 DEF Read, Engaged, EngagedTask, SessionTypes, Found, Current, AtWork
  <2>2. CASE Fails(t)
    BY <1>6, <2>2
  <2>3. CASE /\ Found(on[t]) \in Sessions
             /\ Loaded(t, Found(on[t])) /\ UNCHANGED <<home, windows, files, doomed, clock, past>>
    BY <1>3, <2>3
  <2>4. CASE /\ Found(on[t]) \in Sessions
             /\ step' = [step EXCEPT ![t] = "truncate"]
             /\ draft' = [draft EXCEPT ![t] = Found(on[t])]
             /\ UNCHANGED <<home, windows, files, on, purpose, held, doomed, clock, past>>
    BY <1>1, <2>1, <2>4 DEF SessionTypes, EngagedTask, AtWork, Writing
  <2>. QED  BY <1>10, <2>1, <2>2, <2>3, <2>4 DEF Read, Files
<1>11. ASSUME NEW t \in Tasks, Check(t) PROVE Engaged'
  BY <1>4, <1>6, <1>11 DEF Check, Engaged, EngagedTask, AtWork, Writing
<1>12. ASSUME NEW t \in Tasks, Truncate(t) \/ Fill(t) \/ Unlink(t) PROVE Engaged'
  BY <1>4, <1>12 DEF Truncate, Fill, Unlink, Engaged, EngagedTask, AtWork, Writing
<1>13. ASSUME NEW t \in Tasks, Rename(t) PROVE Engaged'
  <2>1. draft[t] \in Sessions
    BY <1>13 DEF Rename, Engaged, EngagedTask, Writing
  <2>. QED  BY <1>2, <1>3, <1>6, <1>13, <2>1 DEF Rename, Written
<1>14. ASSUME NEW t \in Tasks, List(t) PROVE Engaged'
  BY <1>1, <1>14 DEF List, Goes, SessionTypes, Engaged, EngagedTask, AtWork, Writing
<1>15. ASSUME NEW t \in Tasks, NEW i \in Ids, RemoveLayouts(t, i) PROVE Engaged'
  BY <1>5, <1>15 DEF RemoveLayouts
<1>16. ASSUME NEW t \in Tasks, RemoveRest(t) PROVE Engaged'
  BY <1>2, <1>16 DEF RemoveRest
<1>17. ASSUME NEW p \in Processes, Crash(p) PROVE Engaged'
  BY <1>17 DEF Crash, SessionTypes, Engaged, EngagedTask, AtWork, Writing
<1>18. ASSUME step' = step, on' = on, draft' = draft, purpose' = purpose, windows' = windows
       PROVE  Engaged'
  BY <1>18 DEF Engaged, EngagedTask
<1>19. ASSUME NEW t \in Tasks, Forget(t) \/ NoAnchor(t) PROVE Engaged'
  BY <1>6, <1>18, <1>19 DEF Forget, NoAnchor
<1>. QED  BY <1>7, <1>8, <1>9, <1>10, <1>11, <1>12, <1>13, <1>14, <1>15, <1>16, <1>17, <1>18, <1>19
          DEF Next, vars
-------------------------------------------------------------------------------
(* What one step does to where the tasks are.                              *)

Taken == \E t \in Tasks, i \in Ids, where \in AtWork : Takes(t, i, where)
Stays == contested' = contested /\ \A u \in Tasks : on'[u] \in {on[u], None}

\* A task takes a session, and it is contested if another has it already; or
\* the tasks stay where they are or let go.
LEMMA TakesOrStays ==
    ASSUME SessionTypes, Engaged, [Next]_vars
    PROVE  /\ Taken \/ Stays
           /\ contested \subseteq contested'
<1>. USE FreshNone
<1>1. \A t \in Tasks, i \in Ids, where \in AtWork : Takes(t, i, where) => contested \subseteq contested'
  BY DEF Takes
<1>2. ASSUME NEW t \in Tasks, NEW where, Leaves(t, where), contested' = contested PROVE Stays
  BY <1>2 DEF Stays, Leaves, SessionTypes
<1>3. ASSUME NEW t \in Tasks, NEW where, Goes(t, where), contested' = contested PROVE Stays
  BY <1>3 DEF Stays, Goes
<1>4. ASSUME NEW t \in Tasks, NEW x, Loaded(t, x), contested' = contested PROVE Stays
  BY <1>2, <1>4 DEF Stays, Loaded, SessionTypes
<1>5. ASSUME NEW t \in Tasks, Fails(t) PROVE Stays
  BY <1>2, <1>5 DEF Stays, Fails, past
<1>6. ASSUME NEW t \in Tasks, Read(t) PROVE Stays
  BY <1>4, <1>5, <1>6 DEF Stays, Read, past
<1>7. ASSUME NEW t \in Tasks, Rename(t) PROVE Stays
  BY <1>2, <1>4, <1>5, <1>7 DEF Stays, Rename, Written
<1>8. ASSUME NEW t \in Tasks,
             Forget(t) \/ NoAnchor(t) \/ Check(t) \/ Truncate(t) \/ Fill(t) \/ Unlink(t)
             \/ List(t) \/ RemoveRest(t)
      PROVE  Stays
  BY <1>2, <1>3, <1>5, <1>8
     DEF Stays, Forget, NoAnchor, Check, Truncate, Fill, Unlink, List, RemoveRest, past
<1>9. ASSUME NEW p \in Processes, Crash(p) PROVE Stays
  BY <1>9 DEF Stays, Crash
<1>10. CASE UNCHANGED vars
  BY <1>10 DEF Stays, vars, past
<1>11. ASSUME NEW t \in Tasks, Save(t) PROVE held[t].id \in Ids /\ Takes(t, held[t].id, "truncate")
  BY <1>11 DEF Save, SessionTypes, Held
<1>12. ASSUME NEW t \in Tasks, NEW i \in Ids,
              Create(t, i) \/ Copy(t, i) \/ RemoveLayouts(t, i) \/ Load(t, i, "resume") \/ Load(t, i, "fork")
       PROVE  Taken
  BY <1>12 DEF Taken, Create, Copy, RemoveLayouts, Load, AtWork
<1>13. ASSUME NEW t \in Tasks, Save(t) PROVE Taken
  BY <1>11, <1>13 DEF Taken, AtWork
<1>14. ASSUME NEW t \in Tasks, NEW i \in Ids, NEW why \in {"resume", "fork"}, Load(t, i, why)
       PROVE  Taken
  BY <1>12, <1>14
<1>15. Stays \/ Taken
  BY <1>6, <1>7, <1>8, <1>9, <1>10, <1>12, <1>13, <1>14 DEF Next
<1>. QED  BY <1>1, <1>15 DEF Stays, Taken

LEMMA LockedStep ==
    ASSUME SessionTypes, Engaged, Locked, [Next]_vars
    PROVE  Locked'
<1>. USE FreshNone
<1>1. ASSUME NEW t \in Tasks, NEW i \in Ids, NEW where \in AtWork, Takes(t, i, where)
      PROVE  Locked'
  BY <1>1 DEF Takes, Free, Contests, Locked, SessionTypes
<1>2. CASE Stays
  BY <1>2 DEF Stays, Locked
<1>. QED  BY <1>1, <1>2, TakesOrStays DEF Taken

\* A session that is not contested is one task's.
LEMMA Alone ==
    ASSUME SessionTypes, Engaged, Locked, [Next]_vars,
           NEW t \in Tasks, NEW u \in Tasks, t # u,
           on[t] \in Ids, on[u] = on[t] \/ on'[u] = on[t]
    PROVE  on[t] \in contested'
<1>. USE FreshNone
<1>1. contested \subseteq contested'
  BY TakesOrStays DEF Taken
<1>2. CASE on[u] = on[t]
  BY <1>1, <1>2 DEF Locked
<1>3. ASSUME NEW v \in Tasks, NEW i \in Ids, NEW where \in AtWork, Takes(v, i, where),
             on'[u] = on[t], on[u] # on[t]
      PROVE  on[t] \in contested'
  BY <1>3 DEF Takes, Free, Contests, SessionTypes
<1>4. CASE Stays /\ on'[u] = on[t] /\ on[u] # on[t]
  BY <1>4 DEF Stays
<1>. QED  BY <1>2, <1>3, <1>4, TakesOrStays DEF Taken
-------------------------------------------------------------------------------
(* What one step does to the files.                                        *)

LEMMA FilledStep ==
    ASSUME SessionTypes, Engaged, Locked, Filled, [Next]_vars
    PROVE  Filled'
<1>. USE FreshNone
<1>0. contested \subseteq contested'
  BY TakesOrStays DEF Taken
<1>1. ASSUME tmp' = tmp,
             \A u \in Tasks : /\ step'[u] = "fill" => step[u] = "fill" /\ on'[u] = on[u]
                              /\ step'[u] \in {"unlink", "rename"} =>
                                   /\ step[u] \in {"unlink", "rename"} /\ on'[u] = on[u]
                                   /\ draft'[u] = draft[u]
      PROVE  Filled'
  <2>. SUFFICES ASSUME NEW u \in Tasks, on'[u] \notin contested'
               PROVE  /\ step'[u] = "fill" => tmp'[on'[u]] # None
                      /\ step'[u] \in {"unlink", "rename"} => tmp'[on'[u]] = draft'[u]
    BY DEF Filled
  <2>1. ASSUME step'[u] = "fill" PROVE tmp[on[u]] # None /\ on'[u] = on[u]
    <3>1. step[u] = "fill" /\ on'[u] = on[u]
      BY <1>1, <2>1
    <3>2. on[u] \notin contested
      BY <1>0, <3>1
    <3>. QED  BY <3>1, <3>2 DEF Filled
  <2>2. ASSUME step'[u] \in {"unlink", "rename"} PROVE tmp[on[u]] = draft'[u] /\ on'[u] = on[u]
    <3>1. step[u] \in {"unlink", "rename"} /\ on'[u] = on[u] /\ draft'[u] = draft[u]
      BY <1>1, <2>2
    <3>2. on[u] \notin contested
      BY <1>0, <3>1
    <3>. QED  BY <3>1, <3>2 DEF Filled
  <2>. QED  BY <1>1, <2>1, <2>2
\* A task's own file changes with its step.
<1>2. ASSUME NEW t \in Tasks, NEW x, on[t] \in Ids, tmp' = [tmp EXCEPT ![on[t]] = x],
             \A u \in Tasks \ {t} : /\ step'[u] = step[u] /\ on'[u] = on[u] /\ draft'[u] = draft[u],
             on'[t] \notin contested' =>
                 /\ step'[t] = "fill" => tmp'[on'[t]] # None
                 /\ step'[t] \in {"unlink", "rename"} => tmp'[on'[t]] = draft'[t]
      PROVE  Filled'
  <2>1. ASSUME NEW u \in Tasks \ {t}, on'[u] \notin contested', step[u] \in Writing
        PROVE  tmp'[on'[u]] = tmp[on[u]]
    <3>1. on[u] \in Ids /\ on[u] # on[t]
      BY <1>2, <2>1, Alone DEF Engaged, EngagedTask, AtWork, Writing
    <3>. QED  BY <1>2, <2>1, <3>1 DEF SessionTypes
  <2>. QED  BY <1>0, <1>2, <2>1 DEF Filled, Writing
<1>3. ASSUME NEW t \in Tasks, NEW where \in {"idle", "list", "remove"}, Leaves(t, where), tmp' = tmp
      PROVE  Filled'
  BY <1>1, <1>3 DEF Leaves, SessionTypes
<1>4. ASSUME NEW t \in Tasks, NEW x \in Sessions, Loaded(t, x), tmp' = tmp PROVE Filled'
  BY <1>1, <1>3, <1>4 DEF Loaded, SessionTypes
<1>5. ASSUME NEW t \in Tasks, Fails(t) PROVE Filled'
  BY <1>3, <1>5 DEF Fails, files
<1>6. ASSUME NEW t \in Tasks, NEW i \in Ids, NEW where \in {"check", "read", "truncate", "rest"},
             Takes(t, i, where), tmp' = tmp, \A u \in Tasks \ {t} : draft'[u] = draft[u]
      PROVE  Filled'
  BY <1>1, <1>6 DEF Takes, SessionTypes
<1>7. ASSUME NEW t \in Tasks, NEW i \in Ids,
             Create(t, i) \/ Copy(t, i) \/ Load(t, i, "resume") \/ Load(t, i, "fork")
      PROVE  Filled'
  BY <1>6, <1>7 DEF Create, Copy, Load, SessionTypes, files
<1>8. ASSUME NEW t \in Tasks, Save(t) PROVE Filled'
  <2>1. held[t].id \in Ids /\ Takes(t, held[t].id, "truncate")
    BY <1>8 DEF Save, SessionTypes, Held
  <2>. QED  BY <1>6, <1>8, <2>1 DEF Save, SessionTypes, files
<1>9. ASSUME NEW t \in Tasks, Read(t) PROVE Filled'
  <2>1. on[t] \in Ids /\ Found(on[t]) \in Files
    BY <1>9 DEF Read, Engaged, EngagedTask, SessionTypes, Found, Current, AtWork
  <2>2. CASE Fails(t)
    BY <1>5, <2>2
  <2>3. CASE /\ Found(on[t]) \in Sessions
             /\ Loaded(t, Found(on[t])) /\ UNCHANGED <<home, windows, files, doomed, clock, past>>
    BY <1>4, <2>3 DEF files
  <2>4. CASE /\ Found(on[t]) \in Sessions
             /\ step' = [step EXCEPT ![t] = "truncate"]
             /\ draft' = [draft EXCEPT ![t] = Found(on[t])]
             /\ UNCHANGED <<home, windows, files, on, purpose, held, doomed, clock, past>>
    BY <1>1, <2>4 DEF SessionTypes, files
  <2>. QED  BY <1>9, <2>1, <2>2, <2>3, <2>4 DEF Read, Files
<1>10. ASSUME NEW t \in Tasks, Check(t) \/ List(t) PROVE Filled'
  BY <1>1, <1>5, <1>10 DEF Check, List, Goes, SessionTypes, files
<1>11. ASSUME NEW t \in Tasks, Truncate(t) PROVE Filled'
  BY <1>2, <1>11 DEF Truncate, Goes, SessionTypes, Engaged, EngagedTask, AtWork
<1>12. ASSUME NEW t \in Tasks, Fill(t) PROVE Filled'
  <2>1. on[t] \in Ids
    BY <1>12 DEF Fill, Engaged, EngagedTask, AtWork
  <2>2. CASE tmp[on[t]] = None
    <3>1. on[t] \in contested
      BY <1>12, <2>2 DEF Fill, Filled
    <3>2. tmp' = [tmp EXCEPT ![on[t]] = tmp[on[t]]]
      BY <1>12, <2>2 DEF Fill, SessionTypes
    <3>. QED  BY <1>0, <1>2, <1>12, <2>1, <3>1, <3>2 DEF Fill, Goes, SessionTypes
  <2>3. CASE tmp[on[t]] # None
    BY <1>2, <1>12, <2>1, <2>3 DEF Fill, Goes, SessionTypes
  <2>. QED  BY <2>2, <2>3
<1>13. ASSUME NEW t \in Tasks, Unlink(t) PROVE Filled'
  BY <1>1, <1>13 DEF Unlink, Goes, SessionTypes
<1>14. ASSUME NEW t \in Tasks, Rename(t) PROVE Filled'
  <2>1. on[t] \in Ids /\ draft[t] \in Sessions
    BY <1>14 DEF Rename, Engaged, EngagedTask, AtWork, Writing
  <2>2. CASE Fails(t)
    BY <1>5, <2>2
  <2>3. CASE tmp' = [tmp EXCEPT ![on[t]] = None] /\ Written(t)
    <3>1. /\ \A u \in Tasks \ {t} : /\ step'[u] = step[u] /\ on'[u] = on[u] /\ draft'[u] = draft[u]
          /\ step'[t] \notin {"fill", "unlink", "rename"}
      BY <2>3 DEF Written, Loaded, Leaves, SessionTypes
    <3>. QED  BY <1>2, <2>1, <2>3, <3>1
  <2>. QED  BY <1>14, <2>2, <2>3 DEF Rename
<1>15. ASSUME NEW t \in Tasks, NEW i \in Ids, RemoveLayouts(t, i) PROVE Filled'
  <2>1. step'[t] = "rest" /\ on'[t] = i
    BY <1>15 DEF RemoveLayouts, Takes, SessionTypes
  <2>2. ASSUME NEW u \in Tasks \ {t}, on'[u] \notin contested', step[u] \in Writing
        PROVE  tmp'[on'[u]] = tmp[on[u]]
    <3>1. on'[u] = on[u] /\ on[u] \in Ids
      BY <1>15, <2>2 DEF RemoveLayouts, Takes, SessionTypes, Engaged, EngagedTask, AtWork, Writing
    <3>2. on[u] # i
      BY <2>1, <2>2, <3>1, Alone
    <3>. QED  BY <1>15, <3>1, <3>2 DEF RemoveLayouts, SessionTypes
  <2>3. \A u \in Tasks \ {t} : /\ step'[u] = step[u] /\ on'[u] = on[u] /\ draft'[u] = draft[u]
    BY <1>15 DEF RemoveLayouts, Takes, SessionTypes
  <2>. QED  BY <1>0, <2>1, <2>2, <2>3 DEF Filled, Writing
<1>16. ASSUME NEW t \in Tasks, RemoveRest(t) PROVE Filled'
  BY <1>3, <1>16 DEF RemoveRest
<1>17. ASSUME NEW p \in Processes, Crash(p) PROVE Filled'
  BY <1>1, <1>17 DEF Crash, SessionTypes, files
<1>18. ASSUME tmp' = tmp, step' = step, on' = on, draft' = draft PROVE Filled'
  BY <1>1, <1>18
<1>19. ASSUME NEW t \in Tasks, Forget(t) \/ NoAnchor(t) PROVE Filled'
  BY <1>5, <1>18, <1>19 DEF Forget, NoAnchor, files
<1>20. CASE UNCHANGED vars
  BY <1>18, <1>20 DEF vars, files
<1>. QED  BY <1>7, <1>8, <1>9, <1>10, <1>11, <1>12, <1>13, <1>14, <1>15, <1>16, <1>17, <1>19, <1>20
          DEF Next

\* The files of a session are changed by the task that writes it or removes it.
LEMMA FindableStep ==
    ASSUME SessionTypes, Engaged, Locked, Filled, Findable, [Next]_vars
    PROVE  Findable'
<1>. USE FreshNone
<1>0. contested \subseteq contested'
  BY TakesOrStays DEF Taken
<1>1. ASSUME state' = state, saved' = saved, windows' = windows, removed \subseteq removed',
             deaths' >= deaths, deaths' \in Nat,
             deaths' > 0 \/ \A u \in Tasks : step[u] = "rename" => step'[u] = "rename" /\ on'[u] = on[u]
      PROVE  Findable'
  <2>. SUFFICES ASSUME NEW i \in Ids, i \notin contested'
                PROVE  /\ state[i] # Torn
                       /\ i \notin removed' /\ saved[i] # None =>
                            state[i] = saved[i] \/ (windows /\ (deaths' > 0 \/ Renaming(i)'))
    BY <1>1 DEF Findable
  <2>1. Renaming(i) => deaths' > 0 \/ Renaming(i)'
    BY <1>1 DEF Renaming
  <2>2. deaths > 0 => deaths' > 0
    BY <1>1 DEF SessionTypes
  <2>. QED  BY <1>0, <1>1, <2>1, <2>2 DEF Findable
<1>2. ASSUME NEW t \in Tasks, NEW where, Leaves(t, where), step[t] # "rename",
             UNCHANGED <<state, saved, windows, deaths>>, removed \subseteq removed'
      PROVE  Findable'
  BY <1>1, <1>2 DEF Leaves, SessionTypes
<1>3. ASSUME NEW t \in Tasks, NEW where, Goes(t, where), step[t] # "rename",
             UNCHANGED <<state, saved, windows, deaths, removed>>
      PROVE  Findable'
  BY <1>1, <1>3 DEF Goes, SessionTypes
<1>4. ASSUME NEW t \in Tasks, Fails(t), step[t] # "rename" PROVE Findable'
  BY <1>2, <1>4 DEF Fails, files, past
<1>5. ASSUME NEW t \in Tasks, NEW i, NEW where, Takes(t, i, where), step[t] # "rename",
             UNCHANGED <<state, saved, windows, deaths, removed>>
      PROVE  Findable'
  BY <1>1, <1>5 DEF Takes, SessionTypes
<1>6. ASSUME NEW t \in Tasks, NEW i \in Ids,
             Create(t, i) \/ Copy(t, i) \/ Load(t, i, "resume") \/ Load(t, i, "fork")
      PROVE  Findable'
  BY <1>5, <1>6 DEF Create, Copy, Load, files
<1>7. ASSUME NEW t \in Tasks, Save(t) PROVE Findable'
  BY <1>5, <1>7 DEF Save, files
<1>8. ASSUME NEW t \in Tasks, Read(t) PROVE Findable'
  <2>1. UNCHANGED <<state, saved, windows, deaths, removed>>
    BY <1>8 DEF Read, Fails, files, past
  <2>2. \A u \in Tasks : step[u] = "rename" => step'[u] = "rename" /\ on'[u] = on[u]
    BY <1>8 DEF Read, Fails, Leaves, Loaded, SessionTypes
  <2>. QED  BY <1>1, <2>1, <2>2 DEF SessionTypes
<1>9. ASSUME NEW t \in Tasks, NoAnchor(t) \/ Check(t) \/ Truncate(t) \/ Fill(t) \/ List(t) PROVE Findable'
  BY <1>3, <1>4, <1>9 DEF NoAnchor, Check, Truncate, Fill, List, files, past
<1>10. ASSUME NEW t \in Tasks, Unlink(t) PROVE Findable'
  <2>1. on[t] \in Ids /\ windows /\ state' = [state EXCEPT ![on[t]] = None]
    BY <1>10 DEF Unlink, Engaged, EngagedTask, AtWork
  <2>2. \A i \in Ids : i = on[t] => Renaming(i)'
    BY <1>10 DEF Unlink, Goes, Renaming, SessionTypes
  <2>3. \A i \in Ids : Renaming(i) => Renaming(i)'
    BY <1>10 DEF Unlink, Goes, Renaming, SessionTypes
  <2>4. UNCHANGED <<windows, saved, removed, contested, deaths>>
    BY <1>10 DEF Unlink, past
  <2>5. \A i \in Ids : state'[i] = IF i = on[t] THEN None ELSE state[i]
    BY <2>1 DEF SessionTypes
  <2>6. ASSUME NEW i \in Ids \ contested
        PROVE  /\ state'[i] # Torn
               /\ i \notin removed /\ saved[i] # None =>
                     state'[i] = saved[i] \/ (windows /\ (deaths > 0 \/ Renaming(i)'))
    <3>1. CASE i = on[t]
      BY <2>1, <2>2, <2>5, <3>1
    <3>2. CASE i # on[t]
      BY <2>3, <2>5, <3>2 DEF Findable
    <3>. QED  BY <3>1, <3>2
  <2>. QED  BY <2>4, <2>6 DEF Findable
<1>11. ASSUME NEW t \in Tasks, Rename(t) PROVE Findable'
  <2>. DEFINE i == on[t]
  <2>1. i \in Ids /\ draft[t] \in Sessions /\ (i \notin contested => tmp[i] = draft[t])
    BY <1>11 DEF Rename, Engaged, EngagedTask, Filled, AtWork, Writing
  <2>2. \A u \in Tasks \ {t} : step'[u] = step[u] /\ on'[u] = on[u]
    BY <1>11 DEF Rename, Fails, Written, Loaded, Leaves, SessionTypes
  <2>3. \A j \in Ids \ {i} : Renaming(j) => Renaming(j)'
    BY <2>2 DEF Renaming
  <2>4. UNCHANGED <<windows, contested, deaths>>
    BY <1>11 DEF Rename, Fails, past
  <2>5. \A j \in Ids \ {i} : state'[j] = state[j] /\ saved'[j] = saved[j] /\ (j \in removed => j \in removed')
    BY <1>11 DEF Rename, Fails, files, past, SessionTypes
  <2>6. i \notin contested => state'[i] = draft[t] /\ saved'[i] = draft[t]
    BY <1>11, <2>1 DEF Rename, SessionTypes
  <2>7. ASSUME NEW j \in Ids \ contested, j # i
        PROVE  /\ state'[j] # Torn
               /\ j \notin removed' /\ saved'[j] # None =>
                     state'[j] = saved'[j] \/ (windows /\ (deaths > 0 \/ Renaming(j)'))
    BY <2>3, <2>5, <2>7 DEF Findable
  <2>. QED  BY <2>1, <2>4, <2>6, <2>7 DEF Findable
<1>12. ASSUME NEW t \in Tasks, NEW i \in Ids, RemoveLayouts(t, i) PROVE Findable'
  <2>1. \A j \in Ids : Renaming(j) => Renaming(j)'
    BY <1>12 DEF RemoveLayouts, Takes, Renaming, SessionTypes
  <2>2. UNCHANGED <<windows, saved, deaths>> /\ removed' = removed \cup {i}
    BY <1>12 DEF RemoveLayouts
  <2>3. \A j \in Ids : state'[j] = IF j = i THEN None ELSE state[j]
    BY <1>12 DEF RemoveLayouts, SessionTypes
  <2>. QED  BY <1>0, <2>1, <2>2, <2>3 DEF Findable
<1>13. ASSUME NEW t \in Tasks, RemoveRest(t) PROVE Findable'
  BY <1>2, <1>13 DEF RemoveRest
<1>14. ASSUME NEW p \in Processes, Crash(p) PROVE Findable'
  BY <1>1, <1>14 DEF Crash, files, SessionTypes
<1>15. ASSUME NEW t \in Tasks, Forget(t) PROVE Findable'
  BY <1>1, <1>15 DEF Forget, files, past, SessionTypes
<1>16. CASE UNCHANGED vars
  BY <1>1, <1>16 DEF vars, files, past, SessionTypes
<1>. QED  BY <1>6, <1>7, <1>8, <1>9, <1>10, <1>11, <1>12, <1>13, <1>14, <1>15, <1>16 DEF Next
-------------------------------------------------------------------------------
(* An id that no layout has.                                               *)

Empty(i) == state[i] = None /\ nested[i] = None /\ legacy[i] = None
Making(t) == step[t] \in Writing /\ purpose[t] = "create"

LEMMA CreatedOnceStep ==
    ASSUME SessionTypes, Engaged, Locked, CreatedOnce, [Next]_vars
    PROVE  CreatedOnce'
<1>. USE FreshNone
<1>0. contested \subseteq contested'
  BY TakesOrStays DEF Taken
<1>1. /\ \A u \in Tasks : Making(u) => on[u] \in contested \/ Empty(on[u])
      /\ \A u \in Tasks : Making(u) => on[u] \in Ids
  BY DEF CreatedOnce, Making, Empty, Found, Current, Engaged, EngagedTask, AtWork, Writing
\* Who is making a session now was before, or has seen that there is none.
<1>2. ASSUME \A u \in Tasks : Making(u)' =>
                 on'[u] = on[u] /\ (Making(u) \/ (on[u] \in Ids /\ Empty(on[u]))),
             \A u \in Tasks : Making(u)' =>
                 \A i \in Ids : i = on[u] /\ Empty(i) => i \in contested' \/ Empty(i)'
      PROVE  CreatedOnce'
  <2>. SUFFICES ASSUME NEW u \in Tasks, Making(u)', NEW i \in Ids, i = on[u], i \notin contested'
                PROVE  i = on'[u] /\ Empty(i)'
    BY <1>1, <1>2 DEF CreatedOnce, Making, Empty, Found, Current, Writing
  <2>. QED  BY <1>0, <1>1, <1>2
<1>3. ASSUME UNCHANGED <<state, nested, legacy>>,
             \A u \in Tasks : Making(u)' =>
                 on'[u] = on[u] /\ (Making(u) \/ (on[u] \in Ids /\ Empty(on[u])))
      PROVE  CreatedOnce'
  BY <1>2, <1>3 DEF Empty
<1>4. ASSUME NEW t \in Tasks, NEW where \in {"idle", "list", "remove"}, Leaves(t, where),
             UNCHANGED <<state, nested, legacy>>
      PROVE  CreatedOnce'
  BY <1>3, <1>4 DEF Leaves, Making, SessionTypes, Writing
<1>5. ASSUME NEW t \in Tasks, NEW where, Goes(t, where), UNCHANGED <<state, nested, legacy>>,
             step[t] \in Writing \/ where = "idle" \/ where = "remove"
      PROVE  CreatedOnce'
  BY <1>3, <1>5 DEF Goes, Making, SessionTypes, Writing
<1>6. ASSUME NEW t \in Tasks, Fails(t) PROVE CreatedOnce'
  BY <1>4, <1>6 DEF Fails, files
<1>7. ASSUME NEW t \in Tasks, NEW i, NEW where, Takes(t, i, where), UNCHANGED <<state, nested, legacy>>,
             where \in {"check", "read"} \/ purpose'[t] = "save",
             \A u \in Tasks \ {t} : purpose'[u] = purpose[u]
      PROVE  CreatedOnce'
  BY <1>3, <1>7 DEF Takes, Making, SessionTypes, Writing
<1>8. ASSUME NEW t \in Tasks, NEW i \in Ids,
             Create(t, i) \/ Copy(t, i) \/ Load(t, i, "resume") \/ Load(t, i, "fork")
      PROVE  CreatedOnce'
  BY <1>7, <1>8 DEF Create, Copy, Load, SessionTypes, files
<1>9. ASSUME NEW t \in Tasks, Save(t) PROVE CreatedOnce'
  BY <1>7, <1>9 DEF Save, SessionTypes, files
<1>10. ASSUME NEW t \in Tasks, Read(t) PROVE CreatedOnce'
  <2>1. UNCHANGED <<state, nested, legacy>>
    BY <1>10 DEF Read, Fails, files
  <2>2. \A u \in Tasks \ {t} : step'[u] = step[u] /\ on'[u] = on[u] /\ purpose'[u] = purpose[u]
    BY <1>10 DEF Read, Fails, Leaves, Loaded, SessionTypes
  <2>3. step'[t] \notin Writing \/ purpose'[t] # "create"
    BY <1>10 DEF Read, Fails, Leaves, Loaded, SessionTypes, Engaged, EngagedTask, Writing
  <2>. QED  BY <1>3, <2>1, <2>2, <2>3 DEF Making
<1>11. ASSUME NEW t \in Tasks, Check(t) PROVE CreatedOnce'
  <2>1. CASE Fails(t)
    BY <1>6, <2>1
  <2>2. CASE ~ Exists(on[t]) /\ Goes(t, "truncate") /\ UNCHANGED <<home, windows, files, doomed, clock, past>>
    <3>1. on[t] \in Ids /\ Empty(on[t]) /\ UNCHANGED <<state, nested, legacy>>
      BY <1>11, <2>2 DEF Check, Exists, Empty, Engaged, EngagedTask, AtWork, files
    <3>. QED  BY <1>3, <2>2, <3>1 DEF Goes, Making, SessionTypes
  <2>. QED  BY <1>11, <2>1, <2>2 DEF Check
<1>12. ASSUME NEW t \in Tasks, Truncate(t) \/ Fill(t) \/ List(t) PROVE CreatedOnce'
  BY <1>5, <1>12 DEF Truncate, Fill, List, Writing, files
<1>13. ASSUME NEW t \in Tasks, Unlink(t) PROVE CreatedOnce'
  <2>1. \A u \in Tasks : Making(u)' => Making(u) /\ on'[u] = on[u]
    BY <1>13 DEF Unlink, Goes, Making, Writing, SessionTypes
  <2>2. \A i \in Ids : Empty(i) => Empty(i)'
    BY <1>13 DEF Unlink, Empty, SessionTypes
  <2>3. \A u \in Tasks : Making(u) => on[u] \in Ids
    BY <1>1
  <2>. QED  BY <1>2, <2>1, <2>2, <2>3 DEF Empty
<1>14. ASSUME NEW t \in Tasks, Rename(t) PROVE CreatedOnce'
  <2>1. on[t] \in Ids /\ step[t] \in Writing
    BY <1>14 DEF Rename, Engaged, EngagedTask, AtWork, Writing
  <2>2. CASE Fails(t)
    BY <1>6, <2>2
  <2>3. CASE state' = [state EXCEPT ![on[t]] = tmp[on[t]]] /\ Written(t) /\ UNCHANGED <<nested, legacy>>
    <3>1. /\ \A u \in Tasks \ {t} : step'[u] = step[u] /\ on'[u] = on[u] /\ purpose'[u] = purpose[u]
          /\ step'[t] \notin Writing
      BY <2>3 DEF Written, Loaded, Leaves, SessionTypes, Writing
    <3>2. \A u \in Tasks : Making(u)' => u # t /\ Making(u) /\ on'[u] = on[u]
      BY <3>1 DEF Making
    <3>3. ASSUME NEW u \in Tasks, Making(u)', NEW i \in Ids, i = on[u], Empty(i)
          PROVE  i \in contested' \/ Empty(i)'
      <4>1. CASE on[u] = on[t]
        BY <2>1, <3>2, <3>3, <4>1, Alone
      <4>2. CASE on[u] # on[t]
        BY <1>1, <2>1, <2>3, <3>2, <3>3, <4>2 DEF Empty, SessionTypes
      <4>. QED  BY <4>1, <4>2
    <3>. QED  BY <1>2, <3>2, <3>3
  <2>. QED  BY <1>14, <2>2, <2>3 DEF Rename
<1>15. ASSUME NEW t \in Tasks, NEW i \in Ids, RemoveLayouts(t, i) PROVE CreatedOnce'
  <2>1. \A u \in Tasks : Making(u)' => Making(u) /\ on'[u] = on[u]
    BY <1>15 DEF RemoveLayouts, Takes, Making, Writing, SessionTypes
  <2>2. \A j \in Ids : Empty(j) => Empty(j)'
    BY <1>15 DEF RemoveLayouts, Empty, SessionTypes
  <2>. QED  BY <1>1, <1>2, <2>1, <2>2 DEF Empty
<1>16. ASSUME NEW t \in Tasks, RemoveRest(t) PROVE CreatedOnce'
  <2>1. on[t] \in Ids
    BY <1>16 DEF RemoveRest, Engaged, EngagedTask, AtWork
  <2>2. \A u \in Tasks : Making(u)' => Making(u) /\ on'[u] = on[u]
    BY <1>16 DEF RemoveRest, Leaves, Making, Writing, SessionTypes
  <2>3. \A j \in Ids : Empty(j) => Empty(j)'
    BY <1>16, <2>1 DEF RemoveRest, Empty, SessionTypes
  <2>. QED  BY <1>1, <1>2, <2>2, <2>3 DEF Empty
<1>17. ASSUME NEW p \in Processes, Crash(p) PROVE CreatedOnce'
  BY <1>3, <1>17 DEF Crash, Making, Writing, SessionTypes, files
<1>18. ASSUME UNCHANGED <<state, nested, legacy, step, on, purpose>> PROVE CreatedOnce'
  BY <1>3, <1>18 DEF Making
<1>19. ASSUME NEW t \in Tasks, Forget(t) \/ NoAnchor(t) PROVE CreatedOnce'
  BY <1>6, <1>18, <1>19 DEF Forget, NoAnchor, files
<1>20. CASE UNCHANGED vars
  BY <1>18, <1>20 DEF vars, files
<1>. QED  BY <1>8, <1>9, <1>10, <1>11, <1>12, <1>13, <1>14, <1>15, <1>16, <1>17, <1>19, <1>20 DEF Next
-------------------------------------------------------------------------------
(* What the runs check, for every instance.                                *)

LEMMA SessionStarts ==
    ASSUME Init PROVE SessionInv
<1>. USE FreshNone
<1>1. \A i \in Ids : [made |-> 0, version |-> 0] \in Sessions
  BY SessionsAssumption DEF Sessions
<1>2. \A old \in [made : {0}, version : {0}] : old = [made |-> 0, version |-> 0]
  OBVIOUS
<1>3. SessionTypes
  BY <1>1, <1>2, SessionsAssumption DEF Init, SessionTypes, Held, Files
<1>4. Engaged /\ Locked /\ Filled /\ CreatedOnce
  BY DEF Init, Engaged, EngagedTask, Locked, Filled, CreatedOnce, AtWork, Writing
<1>5. Findable
  BY DEF Init, Findable
<1>. QED  BY <1>3, <1>4, <1>5 DEF SessionInv

LEMMA SessionStep ==
    ASSUME SessionInv, [Next]_vars PROVE SessionInv'
  BY TypesStep, EngagedStep, LockedStep, FilledStep, FindableStep, CreatedOnceStep DEF SessionInv

LEMMA SessionInvImplies ==
    ASSUME SessionInv PROVE TypeOK /\ SavedIsFound /\ CreatedOnce
<1>. USE FreshNone DEF SessionInv
<1>1. TypeOK
  <2>1. \A t \in Tasks : on[t] \in Ids <=> step[t] \notin {"idle", "copy", "list", "remove"}
    BY DEF SessionTypes, Engaged, EngagedTask, AtWork
  <2>. QED  BY <2>1 DEF TypeOK, SessionTypes
<1>2. SavedIsFound
  <2>. SUFFICES ASSUME NEW i \in Ids \ (contested \cup removed)
                PROVE  /\ state[i] # Torn
                       /\ saved[i] # None /\ (windows => deaths = 0 /\ i \notin {on[t] : t \in Tasks})
                             => Found(i) = saved[i]
    BY DEF SavedIsFound
  <2>1. Renaming(i) => i \in {on[t] : t \in Tasks}
    BY DEF Renaming
  <2>. QED  BY <2>1 DEF Findable, Found, Current, SessionTypes
<1>. QED  BY <1>1, <1>2

SessionsInv == which = "sessions" => SessionInv

LEMMA SessionsInvAlways == OutsideSpec => []SessionsInv
<1>1. OutsideInit => SessionsInv
  BY SessionStarts DEF OutsideInit, SessionsInv
<1>2. SessionsInv /\ [OutsideNext]_<<which, vars, mcpVars>> => SessionsInv'
  <2>. SUFFICES ASSUME SessionsInv, [OutsideNext]_<<which, vars, mcpVars>>, which' = "sessions"
                PROVE  SessionInv'
    BY DEF SessionsInv
  <2>1. which = "sessions" /\ [Next]_vars
    BY DEF OutsideNext
  <2>. QED  BY <2>1, SessionStep DEF SessionsInv
<1>. QED  BY <1>1, <1>2, PTL DEF OutsideSpec

\* A process at work on a session of its own finds what it saved last, for any
\* number of processes, tasks and sessions, and wherever one dies: the file is
\* written beside and renamed into place, under a lock (session.rs 475-488).
THEOREM SessionsLastAlways == OutsideSpec => []SessionsLast
<1>1. SessionsInv => SessionsLast
  BY SessionInvImplies DEF SessionsInv, SessionsLast
<1>. QED  BY <1>1, SessionsInvAlways, PTL

\* Of the tasks of one process one makes a session of an id, and none does where
\* an older layout has one (session.rs 96-101, 186-191).
THEOREM MadeOnceAlways == OutsideSpec => []SessionsMadeOnce
<1>1. SessionsInv => SessionsMadeOnce
  BY SessionInvImplies DEF SessionsInv, SessionsMadeOnce
<1>. QED  BY <1>1, SessionsInvAlways, PTL
-------------------------------------------------------------------------------
(* The client of MCP servers.  On a transport that nothing has put out of step, the    *)
(* server owes at most what is waited for, and its answer is the only one  *)
(* on the way.                                                             *)

Kinds  == {"stdio", "sse", "http"}
Links  == {"off", "init", "list", "up", "gone"}
Stages == {"connecting", "adding", "talking", "over"}

McpTypes ==
    /\ kind \in [Servers -> Kinds] /\ late \subseteq Servers /\ link \in [Servers -> Links]
    /\ owed \in [Servers -> SUBSET Nat] /\ line \in [Servers -> Seq(Nat)]
    /\ pending \in [Servers -> Nat] /\ waiting \in [Servers -> Nat]
    /\ asked \in [Servers -> Nat] /\ notices \in [Servers -> Nat]
    /\ running \in [Servers -> BOOLEAN] /\ astray \in [Servers -> BOOLEAN]
    /\ answers \subseteq Servers \X Nat \X Nat /\ stage \in Stages

\* Nothing is answered that was not asked.
Numbered(s) ==
    /\ owed[s] \subseteq 1..asked[s] /\ waiting[s] \in 0..asked[s]
    /\ pending[s] \in 0..asked[s] /\ \A i \in DOMAIN line[s] : line[s][i] \in 0..asked[s]

\* One POST per request, of which nothing stays when it is left.
Posted(s) ==
    kind[s] = "http" =>
        /\ running[s] /\ ~ astray[s]
        /\ \A i \in DOMAIN line[s] : line[s][i] \in {waiting[s], Notice}
        /\ waiting[s] = 0 => line[s] = <<>>

\* The sender in the map is the one that waits; who has left owes nothing; a
\* server not yet connected has been asked nothing.
Linked(s) ==
    /\ kind[s] = "sse" /\ waiting[s] # 0 => pending[s] = waiting[s]
    /\ ~ running[s] => owed[s] = {}
    /\ link[s] = "off" => /\ owed[s] = {} /\ line[s] = <<>> /\ waiting[s] = 0
                          /\ running[s] /\ ~ astray[s]

InStep(s) == kind[s] # "http" /\ ~ astray[s] /\ (kind[s] = "stdio" => notices[s] = 0)

Matched(s) ==
    InStep(s) =>
        /\ owed[s] \subseteq {waiting[s]}
        /\ \A i \in DOMAIN line[s] : line[s][i] \in {waiting[s], Notice}
        /\ \A i \in DOMAIN line[s] : kind[s] = "stdio" => line[s][i] # Notice
        /\ \A i, j \in DOMAIN line[s] : line[s][i] # Notice /\ line[s][j] # Notice => i = j
        /\ owed[s] = {} \/ \A i \in DOMAIN line[s] : line[s][i] = Notice

\* A tool has its own name, or that of its server in front.
Tools     == Builtin \cup EngineOwn \cup UNION Offers
Bare      == {<<<<tool>>, x>> : tool \in Tools, x \in Servers \cup {"engine"}}
Qualified == {<<<<"mcp", s, tool>>, s>> : s \in Servers, tool \in Tools}

Catalogue ==
    /\ offers \in [Servers -> Offers] /\ registry \subseteq Bare \cup Qualified
    /\ stage = "connecting" =>
          registry = {<<<<b>>, "engine">> : b \in Builtin} /\ \A s \in late : link[s] = "off"
    /\ \A s \in late, tool \in Tools :
          link[s] \notin {"up", "gone"} => <<<<"mcp", s, tool>>, s>> \notin registry

Holds(s) == Numbered(s) /\ Posted(s) /\ Linked(s) /\ Matched(s)
ChannelInv == \A s \in Servers : Holds(s)
McpInv ==
    McpTypes /\ ChannelInv /\ AnswersAreOwn /\ WaitsForSomething /\ Catalogue /\ NamesTellApart
-------------------------------------------------------------------------------
(* What comes in.                                                          *)

LEMMA RestOf ==
    ASSUME McpTypes, NEW s \in Servers
    PROVE  /\ Rest(s) \in Seq(Nat)
           /\ kind[s] = "http" \/ line[s] = <<>> => Rest(s) = <<>>
           /\ \A i \in DOMAIN Rest(s) : /\ i \in DOMAIN line[s] /\ i + 1 \in DOMAIN line[s]
                                        /\ Rest(s)[i] = line[s][i + 1] /\ i \in Nat \ {0}
<1>1. line[s] \in Seq(Nat)
  BY DEF McpTypes
<1>2. CASE line[s] = <<>> \/ kind[s] = "http"
  BY <1>2 DEF Rest
<1>3. CASE ~ (line[s] = <<>> \/ kind[s] = "http")
  <2>1. Rest(s) = Tail(line[s]) /\ Len(line[s]) \in Nat \ {0}
    BY <1>1, <1>3 DEF Rest
  <2>. QED  BY <1>1, <1>3, <2>1
<1>. QED  BY <1>2, <1>3

LEMMA IncomingIs ==
    ASSUME McpTypes, NEW s \in Servers, NEW m \in Incoming(s)
    PROVE  /\ m \in Nat
           /\ \/ line[s] # <<>> /\ 1 \in DOMAIN line[s] /\ m = line[s][1]
              \/ line[s] = <<>> /\ m = Notice /\ kind[s] = "stdio" /\ ~ running[s]
<1>1. line[s] \in Seq(Nat)
  BY DEF McpTypes
<1>2. CASE line[s] # <<>>
  BY <1>1, <1>2 DEF Incoming
<1>3. CASE line[s] = <<>>
  BY <1>3 DEF Incoming, Notice
<1>. QED  BY <1>2, <1>3

LEMMA Appended ==
    ASSUME NEW q \in Seq(Nat), NEW n \in Nat
    PROVE  /\ Append(q, n) \in Seq(Nat) /\ DOMAIN Append(q, n) = (DOMAIN q) \cup {Len(q) + 1}
           /\ Append(q, n)[Len(q) + 1] = n /\ Len(q) + 1 \notin DOMAIN q
           /\ \A i \in DOMAIN q : Append(q, n)[i] = q[i]
  OBVIOUS

LEMMA NoElement ==
    ASSUME NEW q \in Seq(Nat), DOMAIN q = {} PROVE q = <<>>
  OBVIOUS

LEMMA McpTypesStep ==
    ASSUME McpTypes, ChannelInv, [McpNext]_mcpVars
    PROVE  McpTypes'
<1>1. ASSUME NEW s \in Servers, NEW rest \in Seq(Nat), Asks(s, rest)
      PROVE  /\ asked' \in [Servers -> Nat] /\ waiting' \in [Servers -> Nat]
             /\ owed' \in [Servers -> SUBSET Nat] /\ pending' \in [Servers -> Nat]
             /\ line' \in [Servers -> Seq(Nat)]
  <2>1. asked[s] + 1 \in Nat
    BY DEF McpTypes
  <2>2. owed' \in [Servers -> SUBSET Nat]
    BY <1>1, <2>1 DEF Asks, McpTypes
  <2>. QED  BY <1>1, <2>1, <2>2 DEF Asks, Registered, McpTypes
<1>2. ASSUME NEW s \in Servers, NEW m, Given(s, m) PROVE answers' \subseteq Servers \X Nat \X Nat
  <2>1. m \in Nat /\ waiting[s] \in Nat
    BY <1>2, IncomingIs DEF Given, McpTypes
  <2>. QED  BY <1>2, <2>1 DEF Given, McpTypes
<1>3. ASSUME NEW s \in Servers, Settled(s)
      PROVE  /\ asked' \in [Servers -> Nat] /\ waiting' \in [Servers -> Nat]
             /\ owed' \in [Servers -> SUBSET Nat] /\ pending' \in [Servers -> Nat]
             /\ line' \in [Servers -> Seq(Nat)]
  BY <1>3, RestOf DEF Settled, McpTypes
<1>4. ASSUME NEW s \in Servers, NEW where \in Links, link' = [link EXCEPT ![s] = where]
      PROVE  link' \in [Servers -> Links]
  BY <1>4 DEF McpTypes
<1>5. <<>> \in Seq(Nat) /\ Notice \in Nat
  BY DEF Notice
<1>6. {"init", "list", "up", "gone"} \subseteq Links
  BY DEF Links
<1>7. ASSUME NEW s \in Servers, NEW n, Respond(s, n) PROVE McpTypes'
  <2>1. n \in Nat
    BY <1>7 DEF Respond, McpTypes
  <2>2. line' \in [Servers -> Seq(Nat)]
    BY <1>7, <2>1, Appended DEF Respond, McpTypes
  <2>. QED  BY <1>7, <2>2 DEF Respond, McpTypes
<1>8. ASSUME NEW s \in Servers, Notify(s) PROVE McpTypes'
  <2>1. line' \in [Servers -> Seq(Nat)]
    BY <1>5, <1>8, Appended DEF Notify, McpTypes
  <2>. QED  BY <1>8, <2>1 DEF Notify, McpTypes
<1>9. ASSUME NEW s \in Servers, Leave(s) PROVE McpTypes'
  BY <1>9 DEF Leave, McpTypes
<1>10. ASSUME NEW s \in Servers, Dropped(s) PROVE McpTypes'
  <2>1. PICK m \in Incoming(s) : pending' = IF m = Notice THEN pending ELSE [pending EXCEPT ![s] = 0]
    BY <1>10 DEF Dropped
  <2>2. pending' \in [Servers -> Nat]
    BY <2>1 DEF McpTypes
  <2>3. line' \in [Servers -> Seq(Nat)]
    BY <1>10, RestOf DEF Dropped, McpTypes
  <2>. QED  BY <1>10, <2>2, <2>3 DEF Dropped, McpTypes
<1>11. ASSUME NEW s \in Servers, Connect(s) PROVE McpTypes'
  BY <1>1, <1>4, <1>5, <1>6, <1>11 DEF Connect, McpTypes
<1>12. ASSUME NEW s \in Servers, Initialized(s) PROVE McpTypes'
  BY <1>1, <1>2, <1>4, <1>6, <1>12, RestOf DEF Initialized, McpTypes
<1>13. ASSUME NEW s \in Servers, Listed(s) PROVE McpTypes'
  BY <1>2, <1>3, <1>4, <1>6, <1>13 DEF Listed, McpTypes
<1>14. ASSUME NEW s \in Servers, Refused(s) PROVE McpTypes'
  BY <1>2, <1>4, <1>5, <1>6, <1>14 DEF Refused, McpTypes
<1>15. ASSUME NEW s \in Servers, StartupTimeout(s) PROVE McpTypes'
  BY <1>4, <1>5, <1>6, <1>15 DEF StartupTimeout, TimedOut, McpTypes
<1>16. ASSUME NEW s \in Servers, Call(s) PROVE McpTypes'
  BY <1>1, <1>16 DEF Call, McpTypes
<1>17. ASSUME NEW s \in Servers, Returned(s) PROVE McpTypes'
  BY <1>2, <1>3, <1>17 DEF Returned, McpTypes
<1>18. ASSUME NEW s \in Servers, NEW broken \in BOOLEAN, PostFails(s, broken) PROVE McpTypes'
  <2>1. astray' \in [Servers -> BOOLEAN]
    BY <1>18 DEF PostFails, McpTypes
  <2>2. answers' \subseteq Servers \X Nat \X Nat /\ line' \in [Servers -> Seq(Nat)]
    BY <1>5, <1>18 DEF PostFails, McpTypes
  <2>3. owed' \in [Servers -> SUBSET Nat] /\ pending' \in [Servers -> Nat]
    BY <1>18 DEF PostFails, McpTypes
  <2>. QED  BY <1>18, <2>1, <2>2, <2>3 DEF PostFails, McpTypes
<1>19. ASSUME NEW s \in Servers, Cancel(s) PROVE McpTypes'
  <2>1. astray' \in [Servers -> BOOLEAN]
    BY <1>19 DEF Cancel, McpTypes
  <2>2. line' \in [Servers -> Seq(Nat)] /\ owed' \in [Servers -> SUBSET Nat]
    BY <1>5, <1>19 DEF Cancel, McpTypes
  <2>. QED  BY <1>19, <2>1, <2>2 DEF Cancel, McpTypes
<1>20. CASE Bootstrapped \/ FirstMessage \/ Shutdown
  BY <1>6, <1>20 DEF Bootstrapped, FirstMessage, Shutdown, channel, McpTypes, Stages
<1>21. CASE UNCHANGED mcpVars
  BY <1>21 DEF mcpVars, McpTypes
<1>. QED  BY <1>7, <1>8, <1>9, <1>10, <1>11, <1>12, <1>13, <1>14, <1>15, <1>16, <1>17, <1>18,
          <1>19, <1>20, <1>21 DEF McpNext
-------------------------------------------------------------------------------
(* One server's channel after a step of it; the others' are as they were.  *)

Kept(u) ==
    /\ owed'[u] = owed[u] /\ line'[u] = line[u] /\ pending'[u] = pending[u]
    /\ waiting'[u] = waiting[u] /\ asked'[u] = asked[u] /\ running'[u] = running[u]
    /\ astray'[u] = astray[u] /\ notices'[u] = notices[u]
    /\ link'[u] = "off" => link[u] = "off"

LEMMA KeptHolds ==
    ASSUME NEW u \in Servers, Holds(u), Kept(u), kind' = kind
    PROVE  Holds(u)'
<1>1. Numbered(u)'
  BY DEF Holds, Numbered, Kept
<1>2. Posted(u)'
  BY DEF Holds, Posted, Kept
<1>3. Linked(u)'
  BY DEF Holds, Linked, Kept
<1>4. Matched(u)'
  BY DEF Holds, Matched, InStep, Kept
<1>. QED  BY <1>1, <1>2, <1>3, <1>4 DEF Holds

\* What is left of a channel when the waiting request was given a message, and
\* what the message was: on a channel in step the answer, or none.
LEMMA AfterGiven ==
    ASSUME McpTypes, NEW s \in Servers, Holds(s), NEW m, Given(s, m)
    PROVE  /\ m \in {waiting[s], Notice} \/ astray[s] \/ (kind[s] = "stdio" /\ notices[s] > 0)
           /\ InStep(s) => /\ owed[s] = {} /\ \A i \in DOMAIN Rest(s) : Rest(s)[i] = Notice
                           /\ kind[s] = "stdio" => Rest(s) = <<>>
           /\ \A i \in DOMAIN Rest(s) : Rest(s)[i] \in 0..asked[s]
           /\ kind[s] = "http" => Rest(s) = <<>>
<1>1. /\ m \in Incoming(s) /\ waiting[s] # 0 /\ waiting[s] \in Nat
      /\ kind[s] = "sse" => m # Notice
  BY DEF Given, Taker, McpTypes
<1>2. \/ line[s] # <<>> /\ 1 \in DOMAIN line[s] /\ m = line[s][1]
      \/ line[s] = <<>> /\ m = Notice /\ kind[s] = "stdio" /\ ~ running[s]
  BY <1>1, IncomingIs
<1>3. \A i \in DOMAIN Rest(s) : Rest(s)[i] \in 0..asked[s]
  BY RestOf DEF Holds, Numbered
<1>4. kind[s] = "http" => Rest(s) = <<>>
  BY RestOf
<1>5. kind[s] = "http" => m \in {waiting[s], Notice}
  BY <1>2 DEF Holds, Posted
<1>6. ASSUME InStep(s)
      PROVE  /\ m \in {waiting[s], Notice} /\ owed[s] = {}
             /\ \A i \in DOMAIN Rest(s) : Rest(s)[i] = Notice
             /\ kind[s] = "stdio" => Rest(s) = <<>>
  <2>1. CASE line[s] = <<>>
    <3>1. m = Notice /\ ~ running[s] /\ Rest(s) = <<>>
      BY <1>2, <2>1, RestOf
    <3>2. owed[s] = {}
      BY <3>1 DEF Holds, Linked
    <3>. QED  BY <3>1, <3>2
  <2>2. CASE line[s] # <<>>
    <3>1. m = line[s][1] /\ 1 \in DOMAIN line[s]
      BY <1>2, <2>2
    <3>2. m # Notice
      <4>1. kind[s] = "stdio" => line[s][1] # Notice
        BY <1>6, <3>1 DEF Holds, Matched
      <4>2. kind[s] \in {"stdio", "sse"}
        BY <1>6 DEF InStep, McpTypes, Kinds
      <4>. QED  BY <1>1, <3>1, <4>1, <4>2
    <3>3. owed[s] = {} /\ m \in {waiting[s], Notice}
      BY <1>6, <3>1, <3>2 DEF Holds, Matched
    <3>4. \A i \in DOMAIN Rest(s) : Rest(s)[i] = Notice
      BY <1>6, <3>1, <3>2, RestOf DEF Holds, Matched
    <3>5. kind[s] = "stdio" => DOMAIN Rest(s) = {}
      BY <1>6, <3>4, RestOf DEF Holds, Matched
    <3>6. DOMAIN Rest(s) = {} => Rest(s) = <<>>
      BY RestOf
    <3>. QED  BY <3>3, <3>4, <3>5, <3>6
  <2>. QED  BY <2>1, <2>2
<1>7. notices[s] \in Nat
  BY DEF McpTypes
<1>8. kind[s] \in Kinds
  BY DEF McpTypes
<1>9. InStep(s) \/ kind[s] = "http" \/ astray[s] \/ (kind[s] = "stdio" /\ notices[s] > 0)
  BY <1>7 DEF InStep
<1>. QED  BY <1>3, <1>4, <1>5, <1>6, <1>9

\* A new request, with nothing owed before it.
LEMMA AsksHolds ==
    ASSUME McpTypes, NEW s \in Servers, Holds(s), NEW rest \in Seq(Nat), Asks(s, rest),
           UNCHANGED <<kind, running, astray, notices>>, link'[s] # "off",
           \A i \in DOMAIN rest : rest[i] \in 0..asked[s],
           kind[s] = "http" => rest = <<>>,
           InStep(s) => /\ owed[s] = {} /\ \A i \in DOMAIN rest : rest[i] = Notice
                        /\ kind[s] = "stdio" => rest = <<>>
    PROVE  Holds(s)'
<1>. DEFINE n == asked[s] + 1
<1>1. /\ asked'[s] = n /\ waiting'[s] = n /\ line'[s] = rest /\ n \in Nat /\ n # 0
      /\ owed'[s] = (IF running[s] THEN owed[s] \cup {n} ELSE owed[s])
      /\ pending'[s] = (IF kind[s] = "sse" THEN n ELSE pending[s])
  BY DEF Asks, Registered, McpTypes
<1>2. Numbered(s)'
  <2>1. owed'[s] \subseteq 1..n
    BY <1>1 DEF Holds, Numbered, McpTypes
  <2>2. pending'[s] \in 0..n
    BY <1>1 DEF Holds, Numbered, McpTypes
  <2>3. \A i \in DOMAIN rest : rest[i] \in 0..n
    BY DEF McpTypes
  <2>. QED  BY <1>1, <2>1, <2>2, <2>3 DEF Numbered
<1>3. Posted(s)'
  BY <1>1 DEF Holds, Posted
<1>4. Linked(s)'
  <2>1. ~ running[s] => owed'[s] = {}
    BY <1>1 DEF Holds, Linked
  <2>. QED  BY <1>1, <2>1 DEF Linked
<1>5. Matched(s)'
  <2>1. InStep(s)' => InStep(s)
    BY DEF InStep
  <2>2. InStep(s) => owed'[s] \subseteq {n}
    BY <1>1
  <2>. QED  BY <1>1, <2>1, <2>2 DEF Matched
<1>. QED  BY <1>2, <1>3, <1>4, <1>5 DEF Holds

\* The waiting request is answered.
LEMMA SettledHolds ==
    ASSUME McpTypes, NEW s \in Servers, Holds(s), NEW m, Given(s, m), Settled(s),
           UNCHANGED <<kind, running, astray, notices>>, link'[s] # "off"
    PROVE  Holds(s)'
<1>1. /\ waiting'[s] = 0 /\ line'[s] = Rest(s) /\ pending'[s] = 0 /\ owed' = owed /\ asked' = asked
      /\ asked[s] \in Nat
  BY DEF Settled, McpTypes
<1>2. Numbered(s)'
  BY <1>1, AfterGiven DEF Holds, Numbered
<1>3. Posted(s)'
  <2>1. kind[s] = "http" => Rest(s) = <<>>
    BY AfterGiven
  <2>. QED  BY <1>1, <2>1 DEF Holds, Posted
<1>4. Linked(s)'
  BY <1>1 DEF Holds, Linked
<1>5. Matched(s)'
  <2>1. InStep(s)' => InStep(s)
    BY DEF InStep
  <2>2. InStep(s) => /\ owed[s] = {} /\ \A i \in DOMAIN Rest(s) : Rest(s)[i] = Notice
                     /\ kind[s] = "stdio" => Rest(s) = <<>>
    BY AfterGiven
  <2>. QED  BY <1>1, <2>1, <2>2 DEF Matched
<1>. QED  BY <1>2, <1>3, <1>4, <1>5 DEF Holds

\* The transport is dropped.
LEMMA ClearedHolds ==
    ASSUME McpTypes, NEW s \in Servers, Holds(s),
           waiting'[s] = 0, line'[s] = <<>>, pending'[s] = 0, owed'[s] = {}, asked' = asked,
           UNCHANGED <<kind, running, astray, notices>>, link'[s] # "off"
    PROVE  Holds(s)'
<1>1. Numbered(s)'
  BY DEF Numbered, McpTypes
<1>2. Posted(s)'
  BY DEF Holds, Posted
<1>3. Linked(s)'
  BY DEF Linked
<1>4. Matched(s)'
  BY DEF Matched
<1>. QED  BY <1>1, <1>2, <1>3, <1>4 DEF Holds

LEMMA ChannelStep ==
    ASSUME McpTypes, ChannelInv, [McpNext]_mcpVars
    PROVE  ChannelInv'
<1>. USE DEF ChannelInv
<1>1. ASSUME NEW s \in Servers, Holds(s)', \A u \in Servers \ {s} : Kept(u), kind' = kind
      PROVE  ChannelInv'
  BY <1>1, KeptHolds
<1>2. ASSUME \A u \in Servers : Kept(u), kind' = kind PROVE ChannelInv'
  BY <1>2, KeptHolds
<1>3. ASSUME NEW s \in Servers, NEW n, Respond(s, n) PROVE ChannelInv'
  <2>1. n \in owed[s] /\ n \in 1..asked[s] /\ n \in Nat /\ n # Notice /\ Holds(s)
    BY <1>3 DEF Respond, Holds, Numbered, Notice, McpTypes
  <2>2. \A u \in Servers \ {s} : Kept(u)
    BY <1>3 DEF Respond, Kept, McpTypes
  <2>3. /\ owed'[s] = owed[s] \ {n} /\ UNCHANGED <<kind, link, pending, waiting, asked, running, astray, notices>>
        /\ line'[s] = IF kind[s] = "http" /\ n # waiting[s] THEN line[s] ELSE Append(line[s], n)
        /\ line[s] \in Seq(Nat)
    BY <1>3 DEF Respond, McpTypes
  <2>4. Numbered(s)'
    BY <2>1, <2>3, Appended DEF Holds, Numbered
  <2>5. Posted(s)'
    <3>1. kind[s] = "http" /\ waiting[s] = 0 => line'[s] = <<>>
      BY <2>1, <2>3 DEF Holds, Posted, Notice
    <3>2. kind[s] = "http" => \A i \in DOMAIN line'[s] : line'[s][i] \in {waiting[s], Notice}
      BY <2>1, <2>3, Appended DEF Holds, Posted
    <3>. QED  BY <2>1, <2>3, <3>1, <3>2 DEF Holds, Posted
  <2>6. Linked(s)'
    BY <2>1, <2>3 DEF Holds, Linked
  <2>7. Matched(s)'
    <3>. SUFFICES ASSUME InStep(s)' PROVE Matched(s)'
      BY DEF Matched
    <3>1. InStep(s) /\ owed[s] = {n} /\ n = waiting[s] /\ line'[s] = Append(line[s], n)
      BY <2>1, <2>3 DEF InStep, Holds, Matched
    <3>2. \A i \in DOMAIN line[s] : line[s][i] = Notice /\ kind[s] # "stdio"
      BY <2>1, <3>1 DEF Holds, Matched
    <3>3. \A i \in DOMAIN line'[s] :
             /\ line'[s][i] \in {waiting[s], Notice} /\ (kind[s] = "stdio" => line'[s][i] # Notice)
             /\ line'[s][i] # Notice => i = Len(line[s]) + 1
      BY <2>1, <2>3, <3>1, <3>2, Appended
    <3>. QED  BY <2>3, <3>1, <3>3 DEF Matched
  <2>. QED  BY <1>1, <2>2, <2>3, <2>4, <2>5, <2>6, <2>7 DEF Holds
<1>4. ASSUME NEW s \in Servers, Notify(s) PROVE ChannelInv'
  <2>1. /\ line'[s] = Append(line[s], Notice) /\ line[s] \in Seq(Nat) /\ Notice \in Nat
        /\ notices'[s] = notices[s] + 1 /\ notices[s] \in Nat /\ link[s] # "off"
        /\ UNCHANGED <<kind, link, owed, pending, waiting, asked, running, astray>>
        /\ kind[s] = "http" => waiting[s] \in owed[s]
    BY <1>4 DEF Notify, McpTypes, Notice
  <2>2. \A u \in Servers \ {s} : Kept(u)
    BY <1>4 DEF Notify, Kept, McpTypes
  <2>3. /\ Holds(s)
        /\ \A i \in DOMAIN line'[s] : \/ i \in DOMAIN line[s] /\ line'[s][i] = line[s][i]
                                      \/ line'[s][i] = Notice
    BY <2>1, Appended
  <2>4. Numbered(s)'
    BY <2>1, <2>3 DEF Holds, Numbered, McpTypes, Notice
  <2>5. Posted(s)'
    <3>1. kind[s] = "http" => waiting[s] # 0
      BY <2>1, <2>3 DEF Holds, Numbered, McpTypes
    <3>. QED  BY <2>1, <2>3, <3>1 DEF Holds, Posted
  <2>6. Linked(s)'
    BY <2>1, <2>3 DEF Holds, Linked
  <2>7. Matched(s)'
    <3>1. InStep(s)' => InStep(s) /\ kind[s] # "stdio"
      BY <2>1 DEF InStep
    <3>. QED  BY <2>1, <2>3, <3>1 DEF Holds, Matched
  <2>. QED  BY <1>1, <2>1, <2>2, <2>4, <2>5, <2>6, <2>7 DEF Holds
<1>5. ASSUME NEW s \in Servers, Leave(s) PROVE ChannelInv'
  <2>1. /\ owed'[s] = {} /\ ~ running'[s] /\ kind[s] # "http" /\ link[s] # "off"
        /\ UNCHANGED <<kind, link, line, pending, waiting, asked, astray, notices>>
    BY <1>5 DEF Leave, McpTypes
  <2>2. \A u \in Servers \ {s} : Kept(u)
    BY <1>5 DEF Leave, Kept, McpTypes
  <2>3. Numbered(s)' /\ Posted(s)' /\ Linked(s)'
    BY <2>1 DEF Holds, Numbered, Posted, Linked
  <2>4. Matched(s)'
    BY <2>1 DEF Holds, Matched, InStep
  <2>. QED  BY <1>1, <2>1, <2>2, <2>3, <2>4 DEF Holds
<1>6. ASSUME NEW s \in Servers, Dropped(s) PROVE ChannelInv'
  <2>1. PICK m \in Incoming(s) :
           /\ Taker(s, m) # waiting[s] \/ waiting[s] = 0
           /\ pending' = IF m = Notice THEN pending ELSE [pending EXCEPT ![s] = 0]
    BY <1>6 DEF Dropped
  <2>2. /\ line'[s] = Rest(s) /\ kind[s] = "sse" /\ link[s] # "off"
        /\ UNCHANGED <<kind, link, owed, waiting, asked, running, astray, notices>>
    BY <1>6 DEF Dropped, McpTypes
  <2>3. \A u \in Servers \ {s} : Kept(u)
    BY <1>6, <2>1 DEF Dropped, Kept, McpTypes
  <2>4. pending'[s] = IF m = Notice THEN pending[s] ELSE 0
    BY <2>1 DEF McpTypes
  <2>5. line[s] # <<>> /\ 1 \in DOMAIN line[s] /\ m = line[s][1]
    BY <2>2, IncomingIs
  <2>6. waiting[s] # 0 => m = Notice
    BY <2>1, <2>2 DEF Holds, Linked, Taker
  <2>7. Numbered(s)'
    <3>1. \A i \in DOMAIN Rest(s) : Rest(s)[i] \in 0..asked[s]
      BY RestOf DEF Holds, Numbered
    <3>. QED  BY <2>2, <2>4, <3>1 DEF Holds, Numbered, McpTypes
  <2>8. Posted(s)' /\ Linked(s)'
    BY <2>2, <2>4, <2>6 DEF Holds, Posted, Linked
  <2>9. Matched(s)'
    <3>. SUFFICES ASSUME InStep(s) PROVE Matched(s)'
      BY <2>2 DEF Matched, InStep
    <3>1. \A i \in DOMAIN Rest(s) : i + 1 \in DOMAIN line[s] /\ Rest(s)[i] = line[s][i + 1] /\ i \in Nat
      BY RestOf
    <3>2. \A i, j \in DOMAIN Rest(s) : Rest(s)[i] # Notice /\ Rest(s)[j] # Notice => i = j
      BY <3>1 DEF Holds, Matched
    <3>3. /\ \A i \in DOMAIN Rest(s) : Rest(s)[i] \in {waiting[s], Notice}
          /\ owed[s] = {} \/ \A i \in DOMAIN Rest(s) : Rest(s)[i] = Notice
          /\ owed[s] \subseteq {waiting[s]}
      BY <3>1 DEF Holds, Matched
    <3>. QED  BY <2>2, <3>2, <3>3 DEF Matched
  <2>. QED  BY <1>1, <2>2, <2>3, <2>7, <2>8, <2>9 DEF Holds
<1>7. ASSUME NEW s \in Servers, NEW rest \in Seq(Nat), Asks(s, rest),
             UNCHANGED <<running, astray, notices>>
      PROVE  \A u \in Servers \ {s} : link'[u] = link[u] => Kept(u)
  BY <1>7 DEF Asks, Registered, Kept, McpTypes
<1>8. ASSUME NEW s \in Servers, Settled(s), UNCHANGED <<running, astray, notices>>
      PROVE  \A u \in Servers \ {s} : link'[u] = link[u] => Kept(u)
  BY <1>8 DEF Settled, Kept, McpTypes
<1>9. \A s \in Servers : \A where : link' = [link EXCEPT ![s] = where] =>
         link'[s] = where /\ \A u \in Servers \ {s} : link'[u] = link[u]
  BY DEF McpTypes
<1>10. ASSUME NEW s \in Servers, Connect(s) PROVE ChannelInv'
  <2>1. Holds(s) /\ owed[s] = {} /\ <<>> \in Seq(Nat) /\ Asks(s, <<>>)
    BY <1>10 DEF Connect, Holds, Linked
  <2>2. UNCHANGED <<kind, running, astray, notices>> /\ link' = [link EXCEPT ![s] = "init"]
    BY <1>10 DEF Connect
  <2>3. link'[s] # "off"
    BY <2>2 DEF McpTypes
  <2>4. \A i \in DOMAIN <<>> : FALSE
    OBVIOUS
  <2>5. Holds(s)'
    BY <2>1, <2>2, <2>3, <2>4, AsksHolds
  <2>. QED  BY <1>1, <1>7, <1>9, <2>1, <2>2, <2>5
<1>11. ASSUME NEW s \in Servers, Initialized(s) PROVE ChannelInv'
  <2>1. PICK m \in 1..asked[s] : Given(s, m)
    BY <1>11 DEF Initialized
  <2>2. link'[s] # "off" /\ UNCHANGED <<kind, running, astray, notices>> /\ Asks(s, Rest(s)) /\ Holds(s)
    BY <1>9, <1>11 DEF Initialized
  <2>3. Rest(s) \in Seq(Nat)
    BY RestOf
  <2>4. Holds(s)'
    BY <2>1, <2>2, <2>3, AsksHolds, AfterGiven
  <2>. QED  BY <1>1, <1>7, <1>9, <1>11, <2>2, <2>3, <2>4 DEF Initialized
<1>12. ASSUME NEW s \in Servers, Listed(s) PROVE ChannelInv'
  <2>1. link'[s] # "off" /\ UNCHANGED <<kind, running, astray, notices>> /\ Settled(s) /\ Holds(s)
    BY <1>9, <1>12 DEF Listed
  <2>2. Holds(s)'
    BY <1>12, <2>1, SettledHolds DEF Listed
  <2>. QED  BY <1>1, <1>8, <1>9, <1>12, <2>1, <2>2 DEF Listed
<1>13. ASSUME NEW s \in Servers, Returned(s) PROVE ChannelInv'
  <2>1. link[s] # "off" /\ UNCHANGED <<kind, link, running, astray, notices>> /\ Settled(s) /\ Holds(s)
    BY <1>13 DEF Returned
  <2>2. Holds(s)'
    BY <1>13, <2>1, SettledHolds DEF Returned
  <2>. QED  BY <1>1, <1>8, <2>1, <2>2
<1>14. ASSUME NEW s \in Servers, Refused(s) \/ StartupTimeout(s) PROVE ChannelInv'
  <2>1. /\ waiting'[s] = 0 /\ line'[s] = <<>> /\ pending'[s] = 0 /\ owed'[s] = {} /\ asked' = asked
        /\ UNCHANGED <<kind, running, astray, notices>> /\ link'[s] # "off" /\ Holds(s)
    BY <1>14 DEF Refused, StartupTimeout, TimedOut, McpTypes
  <2>2. \A u \in Servers \ {s} : Kept(u)
    BY <1>14 DEF Refused, StartupTimeout, TimedOut, Kept, McpTypes
  <2>3. Holds(s)'
    BY <2>1, ClearedHolds
  <2>. QED  BY <1>1, <2>1, <2>2, <2>3
<1>15. ASSUME NEW s \in Servers, Call(s) PROVE ChannelInv'
  <2>1. /\ waiting[s] = 0 /\ Asks(s, line[s]) /\ UNCHANGED <<kind, link, running, astray, notices>>
        /\ link[s] # "off" /\ Holds(s) /\ line[s] \in Seq(Nat)
    BY <1>15 DEF Call, McpTypes
  <2>2. InStep(s) => /\ owed[s] = {} /\ \A i \in DOMAIN line[s] : line[s][i] = Notice
                     /\ kind[s] = "stdio" => line[s] = <<>>
    <3>. SUFFICES ASSUME InStep(s)
                  PROVE  /\ owed[s] = {} /\ \A i \in DOMAIN line[s] : line[s][i] = Notice
                         /\ kind[s] = "stdio" => line[s] = <<>>
      OBVIOUS
    <3>1. owed[s] = {}
      BY <2>1 DEF Holds, Matched, Numbered, McpTypes
    <3>2. \A i \in DOMAIN line[s] : line[s][i] = Notice /\ kind[s] # "stdio"
      BY <2>1 DEF Holds, Matched, Notice
    <3>3. DOMAIN line[s] = {} => line[s] = <<>>
      <4>1. line[s] \in Seq(Nat)
        BY <2>1
      <4>. QED  BY <4>1, NoElement
    <3>. QED  BY <3>1, <3>2, <3>3
  <2>3. /\ kind[s] = "http" => line[s] = <<>>
        /\ \A i \in DOMAIN line[s] : line[s][i] \in 0..asked[s]
    BY <2>1 DEF Holds, Posted, Numbered
  <2>4. Holds(s)'
    BY <2>1, <2>2, <2>3, AsksHolds
  <2>. QED  BY <1>1, <1>7, <2>1, <2>4
<1>16. ASSUME NEW s \in Servers, NEW broken \in BOOLEAN, PostFails(s, broken) PROVE ChannelInv'
  <2>1. /\ waiting'[s] = 0 /\ waiting[s] \in owed[s] /\ link[s] # "off" /\ kind[s] # "stdio"
        /\ UNCHANGED <<kind, link, asked, running, notices>> /\ Holds(s)
        /\ pending'[s] \in {pending[s], 0}
        /\ line'[s] = IF kind[s] = "http" THEN <<>> ELSE line[s]
    BY <1>16 DEF PostFails, McpTypes
  <2>2. /\ owed'[s] \subseteq owed[s]
        /\ ~ (broken /\ kind[s] = "sse") => owed'[s] = owed[s] \ {waiting[s]}
    BY <1>16 DEF PostFails, McpTypes
  <2>3. astray'[s] <=> astray[s] \/ (broken /\ kind[s] = "sse")
    BY <1>16 DEF PostFails, McpTypes
  <2>4. \A u \in Servers \ {s} : Kept(u)
    BY <1>16 DEF PostFails, Kept, McpTypes
  <2>5. Numbered(s)'
    BY <2>1, <2>2 DEF Holds, Numbered, McpTypes
  <2>6. Posted(s)'
    <3>1. kind[s] = "http" => ~ astray'[s]
      BY <2>1, <2>3 DEF Holds, Posted
    <3>. QED  BY <2>1, <3>1 DEF Holds, Posted
  <2>7. Linked(s)'
    BY <2>1, <2>2 DEF Holds, Linked
  <2>8. Matched(s)'
    <3>. SUFFICES ASSUME InStep(s)' PROVE Matched(s)'
      BY DEF Matched
    <3>1. kind[s] \in Kinds
      BY DEF McpTypes
    <3>2. kind[s] = "sse" /\ ~ astray'[s]
      BY <2>1, <3>1 DEF InStep, Kinds
    <3>3. InStep(s) /\ ~ broken
      BY <2>3, <3>2 DEF InStep
    <3>4. owed[s] = {waiting[s]} /\ owed'[s] = {} /\ line'[s] = line[s]
      BY <2>1, <2>2, <3>2, <3>3 DEF Holds, Matched
    <3>5. \A i \in DOMAIN line[s] : line[s][i] = Notice
      BY <2>1, <3>3, <3>4 DEF Holds, Matched
    <3>. QED  BY <2>1, <3>2, <3>4, <3>5 DEF Matched
  <2>. QED  BY <1>1, <2>1, <2>4, <2>5, <2>6, <2>7, <2>8 DEF Holds
<1>17. ASSUME NEW s \in Servers, Cancel(s) PROVE ChannelInv'
  <2>1. /\ waiting'[s] = 0 /\ link[s] # "off" /\ Holds(s)
        /\ UNCHANGED <<kind, link, pending, asked, running, notices>>
        /\ line'[s] = IF kind[s] = "http" THEN <<>> ELSE line[s]
        /\ owed'[s] = IF kind[s] = "http" THEN {} ELSE owed[s]
    BY <1>17 DEF Cancel, McpTypes
  <2>2. astray'[s] <=> kind[s] # "http"
    BY <1>17 DEF Cancel, McpTypes
  <2>3. \A u \in Servers \ {s} : Kept(u)
    BY <1>17 DEF Cancel, Kept, McpTypes
  <2>4. Numbered(s)'
    BY <2>1 DEF Holds, Numbered, McpTypes
  <2>5. Posted(s)'
    BY <2>1, <2>2 DEF Holds, Posted
  <2>6. Linked(s)'
    BY <2>1 DEF Holds, Linked
  <2>7. Matched(s)'
    BY <2>1, <2>2 DEF Matched, InStep
  <2>. QED  BY <1>1, <2>1, <2>3, <2>4, <2>5, <2>6, <2>7 DEF Holds
<1>18. CASE Bootstrapped \/ FirstMessage \/ Shutdown
  BY <1>2, <1>18 DEF Bootstrapped, FirstMessage, Shutdown, channel, Kept
<1>19. CASE UNCHANGED mcpVars
  BY <1>2, <1>19 DEF mcpVars, Kept
<1>. QED  BY <1>3, <1>4, <1>5, <1>6, <1>10, <1>11, <1>12, <1>13, <1>14, <1>15, <1>16, <1>17,
          <1>18, <1>19 DEF McpNext
-------------------------------------------------------------------------------
(* Whose answers, and what a request waits for.                            *)

LEMMA AnswersStep ==
    ASSUME McpTypes, ChannelInv, AnswersAreOwn, [McpNext]_mcpVars
    PROVE  AnswersAreOwn'
<1>1. ASSUME answers' = answers, kind' = kind,
             \A u \in Servers : (astray[u] => astray'[u]) /\ notices'[u] >= notices[u]
      PROVE  AnswersAreOwn'
  <2>. SUFFICES ASSUME NEW a \in answers
                PROVE  \/ a[3] \in {a[2], Notice} \/ astray'[a[1]]
                       \/ kind[a[1]] = "stdio" /\ notices'[a[1]] > 0
    BY <1>1 DEF AnswersAreOwn
  <2>1. a[1] \in Servers
    BY DEF McpTypes
  <2>2. notices[a[1]] > 0 => notices'[a[1]] > 0
    <3>1. notices[a[1]] \in Nat /\ notices'[a[1]] \in Nat /\ notices'[a[1]] >= notices[a[1]]
      BY <1>1, <2>1, McpTypesStep DEF McpTypes
    <3>. QED  BY <3>1
  <2>. QED  BY <1>1, <2>1, <2>2 DEF AnswersAreOwn
<1>2. ASSUME NEW s \in Servers, NEW m, Given(s, m), UNCHANGED <<kind, astray, notices>>
      PROVE  AnswersAreOwn'
  <2>1. m \in {waiting[s], Notice} \/ astray[s] \/ (kind[s] = "stdio" /\ notices[s] > 0)
    BY <1>2, AfterGiven DEF ChannelInv
  <2>2. answers' = answers \cup {<<s, waiting[s], m>>}
    BY <1>2 DEF Given
  <2>. QED  BY <1>2, <2>1, <2>2 DEF AnswersAreOwn
<1>3. \A u \in Servers : notices[u] \in Nat
  BY DEF McpTypes
<1>4. ASSUME UNCHANGED <<kind, answers, astray, notices>> PROVE AnswersAreOwn'
  BY <1>4 DEF AnswersAreOwn
<1>5. ASSUME NEW s \in Servers, \/ \E n : Respond(s, n)
                                \/ Leave(s) \/ Dropped(s) \/ Connect(s) \/ StartupTimeout(s) \/ Call(s)
      PROVE  AnswersAreOwn'
  BY <1>4, <1>5 DEF Respond, Leave, Dropped, Connect, StartupTimeout, Call
<1>6. ASSUME NEW s \in Servers, Notify(s) PROVE AnswersAreOwn'
  <2>1. \A u \in Servers : notices'[u] >= notices[u]
    BY <1>6 DEF Notify, McpTypes
  <2>. QED  BY <1>1, <1>6, <2>1 DEF Notify
<1>7. ASSUME NEW s \in Servers, Initialized(s) \/ Listed(s) \/ Refused(s) \/ Returned(s)
      PROVE  AnswersAreOwn'
  BY <1>2, <1>7 DEF Initialized, Listed, Refused, Returned
<1>8. ASSUME NEW s \in Servers, NEW broken \in BOOLEAN, PostFails(s, broken) PROVE AnswersAreOwn'
  <2>1. \A u \in Servers : astray[u] => astray'[u]
    BY <1>8 DEF PostFails, McpTypes
  <2>2. answers' = answers \cup {<<s, waiting[s], Notice>>} /\ UNCHANGED <<kind, notices>>
    BY <1>8 DEF PostFails
  <2>3. \A a \in answers : a[1] \in Servers
    BY DEF McpTypes
  <2>. QED  BY <2>1, <2>2, <2>3 DEF AnswersAreOwn
<1>9. ASSUME NEW s \in Servers, Cancel(s) PROVE AnswersAreOwn'
  <2>1. ASSUME NEW u \in Servers, astray[u] PROVE astray'[u]
    <3>1. kind[u] # "http"
      BY <2>1 DEF ChannelInv, Holds, Posted
    <3>. QED  BY <1>9, <2>1, <3>1 DEF Cancel, McpTypes
  <2>2. \A u \in Servers : notices'[u] >= notices[u]
    BY <1>3, <1>9 DEF Cancel
  <2>. QED  BY <1>1, <1>9, <2>1, <2>2 DEF Cancel
<1>10. CASE Bootstrapped \/ FirstMessage \/ Shutdown
  BY <1>4, <1>10 DEF Bootstrapped, FirstMessage, Shutdown, channel
<1>11. CASE UNCHANGED mcpVars
  BY <1>4, <1>11 DEF mcpVars
<1>. QED  BY <1>5, <1>6, <1>7, <1>8, <1>9, <1>10, <1>11 DEF McpNext

Waits(s) ==
    waiting[s] # 0 /\ (kind[s] = "sse" => running[s]) =>
        \/ waiting[s] \in owed[s] \/ \E i \in DOMAIN line[s] : kind[s] # "sse" \/ line[s][i] # Notice
        \/ kind[s] = "stdio" /\ (owed[s] # {} \/ ~running[s])

LEMMA WaitsStep ==
    ASSUME McpTypes, ChannelInv, WaitsForSomething, [McpNext]_mcpVars
    PROVE  WaitsForSomething'
<1>1. \A s \in Servers : Waits(s)
  BY DEF WaitsForSomething, Waits
<1>2. ASSUME NEW s \in Servers, Waits(s)', \A u \in Servers \ {s} : Kept(u), kind' = kind
      PROVE  WaitsForSomething'
  <2>1. ASSUME NEW u \in Servers \ {s} PROVE Waits(u)'
    BY <1>1, <1>2 DEF Waits, Kept
  <2>. QED  BY <1>2, <2>1 DEF WaitsForSomething, Waits
<1>3. ASSUME UNCHANGED <<kind, owed, line, waiting, running>> PROVE WaitsForSomething'
  BY <1>3 DEF WaitsForSomething
\* Nothing waits on the channel of s after the step.
<1>4. ASSUME NEW s \in Servers, waiting'[s] = 0, kind' = kind,
             \A u \in Servers \ {s} : waiting'[u] = waiting[u] /\ owed'[u] = owed[u]
                                      /\ line'[u] = line[u] /\ running'[u] = running[u]
      PROVE  WaitsForSomething'
  BY <1>4 DEF WaitsForSomething
<1>5. ASSUME NEW s \in Servers, NEW rest, Asks(s, rest), UNCHANGED <<kind, running>>
      PROVE  WaitsForSomething'
  <2>1. /\ waiting'[s] = asked[s] + 1 /\ owed'[s] = IF running[s] THEN owed[s] \cup {asked[s] + 1} ELSE owed[s]
        /\ \A u \in Servers \ {s} : waiting'[u] = waiting[u] /\ owed'[u] = owed[u] /\ line'[u] = line[u]
    BY <1>5 DEF Asks, McpTypes
  <2>2. Waits(s)'
    <3>1. kind[s] \in Kinds /\ (kind[s] = "http" => running[s])
      BY DEF McpTypes, ChannelInv, Holds, Posted
    <3>2. CASE running[s]
      BY <2>1, <3>2 DEF Waits
    <3>3. CASE ~ running[s]
      BY <1>5, <3>1, <3>3 DEF Waits, Kinds
    <3>. QED  BY <3>2, <3>3
  <2>3. ASSUME NEW u \in Servers \ {s} PROVE Waits(u)'
    BY <1>1, <1>5, <2>1 DEF Waits
  <2>. QED  BY <2>2, <2>3 DEF WaitsForSomething, Waits
<1>6. ASSUME NEW s \in Servers, NEW n, Respond(s, n) PROVE WaitsForSomething'
  <2>1. n \in owed[s] /\ n \in Nat /\ n # Notice /\ line[s] \in Seq(Nat)
    BY <1>6 DEF Respond, ChannelInv, Holds, Numbered, Notice, McpTypes
  <2>2. \A u \in Servers \ {s} : Kept(u)
    BY <1>6 DEF Respond, Kept, McpTypes
  <2>3. /\ owed'[s] = owed[s] \ {n} /\ UNCHANGED <<kind, waiting, running>>
        /\ line'[s] = IF kind[s] = "http" /\ n # waiting[s] THEN line[s] ELSE Append(line[s], n)
    BY <1>6 DEF Respond, McpTypes
  <2>4. CASE kind[s] = "http" /\ n # waiting[s]
    BY <1>1, <1>2, <2>2, <2>3, <2>4 DEF Waits
  <2>5. CASE ~ (kind[s] = "http" /\ n # waiting[s])
    <3>1. Len(line[s]) + 1 \in DOMAIN line'[s] /\ line'[s][Len(line[s]) + 1] # Notice
      BY <2>1, <2>3, <2>5, Appended
    <3>2. Waits(s)'
      BY <2>3, <3>1 DEF Waits
    <3>. QED  BY <1>2, <2>2, <2>3, <3>2
  <2>. QED  BY <2>4, <2>5
<1>7. ASSUME NEW s \in Servers, Notify(s) PROVE WaitsForSomething'
  <2>1. line[s] \in Seq(Nat) /\ Notice \in Nat /\ line'[s] = Append(line[s], Notice)
        /\ UNCHANGED <<kind, owed, waiting, running>>
    BY <1>7 DEF Notify, McpTypes, Notice
  <2>2. \A u \in Servers \ {s} : Kept(u)
    BY <1>7 DEF Notify, Kept, McpTypes
  <2>3. \A i \in DOMAIN line[s] : i \in DOMAIN line'[s] /\ line'[s][i] = line[s][i]
    BY <2>1, Appended
  <2>4. Waits(s)'
    BY <1>1, <2>1, <2>3 DEF Waits
  <2>. QED  BY <1>2, <2>1, <2>2, <2>4
<1>8. ASSUME NEW s \in Servers, Leave(s) PROVE WaitsForSomething'
  <2>1. /\ ~ running'[s] /\ kind[s] \in {"stdio", "sse"} /\ kind' = kind
    BY <1>8 DEF Leave, McpTypes, Kinds
  <2>2. \A u \in Servers \ {s} : Kept(u)
    BY <1>8 DEF Leave, Kept, McpTypes
  <2>3. Waits(s)'
    BY <2>1 DEF Waits
  <2>. QED  BY <1>2, <2>1, <2>2, <2>3
<1>9. ASSUME NEW s \in Servers, Dropped(s) PROVE WaitsForSomething'
  <2>1. PICK m \in Incoming(s) :
           /\ Taker(s, m) # waiting[s] \/ waiting[s] = 0
           /\ pending' = IF m = Notice THEN pending ELSE [pending EXCEPT ![s] = 0]
    BY <1>9 DEF Dropped
  <2>2. line'[s] = Rest(s) /\ kind[s] = "sse" /\ UNCHANGED <<kind, owed, waiting, running>>
    BY <1>9 DEF Dropped, McpTypes
  <2>3. \A u \in Servers \ {s} : Kept(u)
    BY <1>9, <2>1 DEF Dropped, Kept, McpTypes
  <2>4. line[s] # <<>> /\ 1 \in DOMAIN line[s] /\ m = line[s][1]
    BY <2>2, IncomingIs
  <2>5. waiting[s] # 0 => m = Notice
    BY <2>1, <2>2 DEF ChannelInv, Holds, Linked, Taker
  <2>6. \A i \in DOMAIN line[s] : i # 1 => \E j \in DOMAIN Rest(s) : Rest(s)[j] = line[s][i]
    <3>. SUFFICES ASSUME NEW i \in DOMAIN line[s], i # 1
                  PROVE  \E j \in DOMAIN Rest(s) : Rest(s)[j] = line[s][i]
      OBVIOUS
    <3>1. line[s] \in Seq(Nat) /\ Rest(s) = Tail(line[s])
      BY <2>2, <2>4 DEF Rest, McpTypes
    <3>2. i - 1 \in DOMAIN Tail(line[s]) /\ Tail(line[s])[i - 1] = line[s][i]
      BY <2>4, <3>1
    <3>. QED  BY <3>1, <3>2
  <2>7. Waits(s)'
    BY <1>1, <2>2, <2>4, <2>5, <2>6 DEF Waits
  <2>. QED  BY <1>2, <2>2, <2>3, <2>7
<1>10. ASSUME NEW s \in Servers, Connect(s) \/ Initialized(s) \/ Call(s) PROVE WaitsForSomething'
  BY <1>5, <1>10 DEF Connect, Initialized, Call
<1>11. ASSUME NEW s \in Servers, Listed(s) \/ Returned(s) PROVE WaitsForSomething'
  <2>1. Settled(s) /\ UNCHANGED <<kind, running>>
    BY <1>11 DEF Listed, Returned
  <2>. QED  BY <1>4, <2>1 DEF Settled, McpTypes
<1>12. ASSUME NEW s \in Servers, Refused(s) \/ StartupTimeout(s) PROVE WaitsForSomething'
  BY <1>4, <1>12 DEF Refused, StartupTimeout, TimedOut, McpTypes
<1>13. ASSUME NEW s \in Servers, NEW broken \in BOOLEAN, PostFails(s, broken) PROVE WaitsForSomething'
  BY <1>4, <1>13 DEF PostFails, McpTypes
<1>14. ASSUME NEW s \in Servers, Cancel(s) PROVE WaitsForSomething'
  BY <1>4, <1>14 DEF Cancel, McpTypes
<1>15. CASE Bootstrapped \/ FirstMessage \/ Shutdown
  BY <1>3, <1>15 DEF Bootstrapped, FirstMessage, Shutdown, channel
<1>16. CASE UNCHANGED mcpVars
  BY <1>3, <1>16 DEF mcpVars
<1>. QED  BY <1>6, <1>7, <1>8, <1>9, <1>10, <1>11, <1>12, <1>13, <1>14, <1>15, <1>16 DEF McpNext
-------------------------------------------------------------------------------
(* The names of the tools.                                                 *)

LEMMA Tuples ==
    ASSUME NEW a, NEW b, NEW c, NEW d, NEW e
    PROVE  /\ <<a>> # <<"mcp", b, c>>
           /\ <<a>> = <<b>> => a = b
           /\ <<"mcp", b, c>> = <<"mcp", d, e>> => b = d /\ c = e
<1>1. <<a>> # <<"mcp", b, c>>
  <2>1. DOMAIN <<a>> = 1..1 /\ DOMAIN <<"mcp", b, c>> = 1..3 /\ 2 \in 1..3 /\ 2 \notin 1..1
    OBVIOUS
  <2>. QED  BY <2>1
<1>2. <<a>> = <<b>> => a = b
  OBVIOUS
<1>3. <<"mcp", b, c>> = <<"mcp", d, e>> => b = d /\ c = e
  OBVIOUS
<1>. QED  BY <1>1, <1>2, <1>3

\* A tool goes by its own name where nobody has it, else by its server's as well.
LEMMA ProxyForm ==
    ASSUME Catalogue, NEW s \in Servers, NEW e \in Proxies(s)
    PROVE  \E tool \in offers[s] :
              /\ tool \in Tools
              /\ \/ e = <<<<tool>>, s>> /\ <<tool>> \notin Names /\ ~ Shared(s, tool)
                 \/ e = <<<<"mcp", s, tool>>, s>>
<1>1. PICK tool \in offers[s] : e = <<Named(s, tool, Names, Shared(s, tool)), s>>
  BY DEF Proxies
<1>2. tool \in Tools
  BY DEF Catalogue, Tools
<1>3. CASE <<tool>> \in Names \/ Shared(s, tool)
  BY <1>1, <1>2, <1>3 DEF Named
<1>4. CASE ~ (<<tool>> \in Names \/ Shared(s, tool))
  BY <1>1, <1>2, <1>4 DEF Named
<1>. QED  BY <1>3, <1>4

LEMMA ProxyIn ==
    ASSUME Catalogue, NEW s \in Servers, NEW e \in Proxies(s)
    PROVE  e \in Bare \cup Qualified /\ e[2] = s
<1>1. PICK tool \in Tools : e = <<<<tool>>, s>> \/ e = <<<<"mcp", s, tool>>, s>>
  BY ProxyForm
<1>2. CASE e = <<<<tool>>, s>>
  BY <1>2 DEF Bare
<1>3. CASE e = <<<<"mcp", s, tool>>, s>>
  BY <1>3 DEF Qualified
<1>. QED  BY <1>1, <1>2, <1>3

\* What is in the registry after the engine started.
LEMMA AfterBootstrap ==
    ASSUME Bootstrapped, NEW e \in registry'
    PROVE  \/ e \in registry
           \/ \E s \in Servers \ late : link[s] = "up" /\ e \in Proxies(s)
           \/ \E own \in EngineOwn : e = <<<<own>>, "engine">>
  BY DEF Bootstrapped

LEMMA CatalogueStep ==
    ASSUME McpTypes, Catalogue, [McpNext]_mcpVars
    PROVE  Catalogue'
<1>1. ASSUME UNCHANGED <<offers, late, registry, stage>>,
             \A u \in late : /\ link[u] \in {"up", "gone"} => link'[u] \in {"up", "gone"}
                             /\ stage = "connecting" /\ link[u] = "off" => link'[u] = "off"
      PROVE  Catalogue'
  BY <1>1 DEF Catalogue
<1>2. ASSUME UNCHANGED <<offers, late, registry, stage, link>> PROVE Catalogue'
  BY <1>2 DEF Catalogue
<1>3. ASSUME NEW s \in Servers, NEW where \in {"init", "list", "gone"},
             link' = [link EXCEPT ![s] = where], UNCHANGED <<offers, late, registry, stage>>,
             link[s] \in {"init", "list"} \/ (link[s] = "off" /\ (s \in late => stage # "connecting"))
      PROVE  Catalogue'
  BY <1>1, <1>3 DEF Catalogue, McpTypes
<1>4. ASSUME NEW s \in Servers, \/ \E n : Respond(s, n)
                                \/ Notify(s) \/ Leave(s) \/ Dropped(s) \/ Call(s) \/ Returned(s) \/ Cancel(s)
                                \/ \E broken \in BOOLEAN : PostFails(s, broken)
      PROVE  Catalogue'
  BY <1>2, <1>4 DEF Respond, Notify, Leave, Dropped, Call, Returned, Cancel, PostFails
<1>5. ASSUME NEW s \in Servers, Connect(s) \/ Initialized(s) \/ Refused(s) \/ StartupTimeout(s)
      PROVE  Catalogue'
  BY <1>3, <1>5 DEF Connect, Initialized, Refused, StartupTimeout, TimedOut
<1>6. ASSUME NEW s \in Servers, Listed(s) PROVE Catalogue'
  <2>1. /\ link[s] = "list" /\ UNCHANGED <<offers, late, stage>>
        /\ registry' = IF s \in late THEN registry \cup Proxies(s) ELSE registry
        /\ link'[s] = "up" /\ \A u \in Servers \ {s} : link'[u] = link[u]
    BY <1>6 DEF Listed, McpTypes
  <2>2. \A e \in Proxies(s) : e \in Bare \cup Qualified
    BY ProxyIn
  <2>3. s \in late => stage # "connecting"
    BY <2>1 DEF Catalogue
  <2>4. ASSUME NEW u \in late, NEW tool \in Tools, link'[u] \notin {"up", "gone"}
        PROVE  <<<<"mcp", u, tool>>, u>> \notin registry'
    <3>1. u # s /\ u \in Servers /\ <<<<"mcp", u, tool>>, u>> \notin registry
      BY <2>1, <2>4 DEF Catalogue, McpTypes
    <3>2. ASSUME NEW e \in Proxies(s) PROVE e # <<<<"mcp", u, tool>>, u>>
      <4>1. e[2] = s
        BY DEF Proxies
      <4>. QED  BY <3>1, <4>1
    <3>. QED  BY <2>1, <3>1, <3>2
  <2>5. late \subseteq Servers
    BY DEF McpTypes
  <2>. QED  BY <2>1, <2>2, <2>3, <2>4, <2>5 DEF Catalogue
<1>7. CASE Bootstrapped
  <2>1. stage' = "adding" /\ UNCHANGED <<offers, late, link>>
    BY <1>7 DEF Bootstrapped
  <2>2. ASSUME NEW e \in registry' PROVE e \in Bare \cup Qualified
    <3>1. CASE e \in registry
      BY <3>1 DEF Catalogue
    <3>2. ASSUME NEW s \in Servers, e \in Proxies(s) PROVE e \in Bare \cup Qualified
      BY <3>2, ProxyIn
    <3>3. ASSUME NEW own \in EngineOwn, e = <<<<own>>, "engine">> PROVE e \in Bare
      BY <3>3 DEF Bare, Tools
    <3>. QED  BY <1>7, <2>2, <3>1, <3>2, <3>3, AfterBootstrap
  <2>3. ASSUME NEW u \in late, NEW tool \in Tools, link[u] \notin {"up", "gone"},
               <<<<"mcp", u, tool>>, u>> \in registry'
        PROVE  FALSE
    <3>. DEFINE e == <<<<"mcp", u, tool>>, u>>
    <3>1. e \notin registry
      BY <2>3 DEF Catalogue
    <3>2. ASSUME NEW s \in Servers \ late, e \in Proxies(s) PROVE FALSE
      BY <3>2, ProxyIn
    <3>3. ASSUME NEW own \in EngineOwn, e = <<<<own>>, "engine">> PROVE FALSE
      BY <3>3, Tuples
    <3>. QED  BY <1>7, <2>3, <3>1, <3>2, <3>3, AfterBootstrap
  <2>. QED  BY <2>1, <2>2, <2>3 DEF Catalogue
<1>8. CASE FirstMessage
  BY <1>8 DEF FirstMessage, Catalogue
<1>9. CASE Shutdown
  <2>1. \A u \in Servers : link'[u] = "gone"
    BY <1>9 DEF Shutdown
  <2>2. late \subseteq Servers
    BY DEF McpTypes
  <2>. QED  BY <1>9, <2>1, <2>2 DEF Shutdown, Catalogue
<1>10. CASE UNCHANGED mcpVars
  BY <1>2, <1>10 DEF mcpVars
<1>. QED  BY <1>4, <1>5, <1>6, <1>7, <1>8, <1>9, <1>10 DEF McpNext

LEMMA NamesStep ==
    ASSUME McpTypes, Catalogue, NamesTellApart, [McpNext]_mcpVars
    PROVE  NamesTellApart'
<1>1. CASE registry' = registry
  BY <1>1 DEF NamesTellApart
\* A tool against one that was there.
<1>2. ASSUME NEW s \in Servers, NEW e \in Proxies(s), NEW old \in registry, old[1] = e[1],
             (s \in late /\ link[s] = "list") \/ stage = "connecting"
      PROVE  FALSE
  <2>1. PICK tool \in offers[s] :
           /\ tool \in Tools
           /\ (e = <<<<tool>>, s>> /\ <<tool>> \notin Names) \/ e = <<<<"mcp", s, tool>>, s>>
    BY ProxyForm
  <2>2. old[1] \in Names
    BY DEF Names
  <2>3. e = <<<<"mcp", s, tool>>, s>> /\ old[1] = <<"mcp", s, tool>>
    BY <1>2, <2>1, <2>2
  <2>4. old \in Bare \cup Qualified
    BY DEF Catalogue
  <2>5. old \notin Bare
    BY <2>3, Tuples DEF Bare
  <2>6. old = <<<<"mcp", s, tool>>, s>>
    <3>1. PICK u \in Servers, other \in Tools : old = <<<<"mcp", u, other>>, u>>
      BY <2>4, <2>5 DEF Qualified
    <3>2. u = s /\ other = tool
      BY <2>3, <3>1, Tuples
    <3>. QED  BY <3>1, <3>2
  <2>7. CASE s \in late /\ link[s] = "list"
    BY <2>1, <2>6, <2>7 DEF Catalogue
  <2>8. CASE stage = "connecting"
    <3>1. PICK b \in Builtin : old = <<<<b>>, "engine">>
      BY <2>8 DEF Catalogue
    <3>. QED  BY <2>3, <3>1, Tuples
  <2>. QED  BY <1>2, <2>7, <2>8
\* Two tools that come in together.
<1>3. ASSUME NEW s \in Servers, NEW u \in Servers, NEW e \in Proxies(s), NEW f \in Proxies(u), e[1] = f[1],
             s # u => {s, u} \cap late = {} /\ link[s] = "up" /\ link[u] = "up"
      PROVE  e = f
  <2>1. PICK tool \in offers[s] :
           (e = <<<<tool>>, s>> /\ ~ Shared(s, tool)) \/ e = <<<<"mcp", s, tool>>, s>>
    BY ProxyForm
  <2>2. PICK other \in offers[u] :
           (f = <<<<other>>, u>> /\ ~ Shared(u, other)) \/ f = <<<<"mcp", u, other>>, u>>
    BY ProxyForm
  <2>3. CASE e = <<<<tool>>, s>> /\ ~ Shared(s, tool)
    <3>1. f = <<<<other>>, u>> /\ other = tool
      BY <1>3, <2>2, <2>3, Tuples
    <3>2. s = u
      BY <1>3, <2>2, <2>3, <3>1 DEF Shared
    <3>. QED  BY <2>3, <3>1, <3>2
  <2>4. CASE e = <<<<"mcp", s, tool>>, s>>
    <3>1. f = <<<<"mcp", u, other>>, u>>
      BY <1>3, <2>2, <2>4, Tuples
    <3>2. u = s /\ other = tool
      BY <1>3, <2>4, <3>1, Tuples
    <3>. QED  BY <2>4, <3>1, <3>2
  <2>. QED  BY <2>1, <2>3, <2>4
<1>4. ASSUME NEW s \in Servers, Listed(s) PROVE NamesTellApart'
  <2>1. CASE s \notin late
    BY <1>1, <1>4, <2>1 DEF Listed
  <2>2. CASE s \in late
    <3>1. registry' = registry \cup Proxies(s) /\ link[s] = "list"
      BY <1>4, <2>2 DEF Listed
    <3>. SUFFICES ASSUME NEW one \in registry', NEW other \in registry', one # other, one[1] = other[1]
                  PROVE  one[1] \in {<<e>> : e \in EngineOwn}
      BY DEF NamesTellApart
    <3>2. CASE one \in registry /\ other \in registry
      BY <3>2 DEF NamesTellApart
    <3>3. ASSUME NEW e \in Proxies(s), NEW f \in Proxies(s), e[1] = f[1] PROVE e = f
      BY <1>3, <3>3
    <3>. QED  BY <1>2, <2>2, <3>1, <3>2, <3>3
  <2>. QED  BY <2>1, <2>2
<1>5. CASE Bootstrapped
  <2>. SUFFICES ASSUME NEW one \in registry', NEW other \in registry', one # other, one[1] = other[1],
                       one[1] \notin {<<e>> : e \in EngineOwn}
                PROVE  FALSE
    BY DEF NamesTellApart
  <2>1. stage = "connecting"
    BY <1>5 DEF Bootstrapped
  <2>2. ASSUME NEW e \in registry', e[1] = one[1]
        PROVE  e \in registry \/ \E s \in Servers \ late : link[s] = "up" /\ e \in Proxies(s)
    <3>1. \A own \in EngineOwn : e # <<<<own>>, "engine">>
      BY <2>2
    <3>. QED  BY <1>5, <2>2, <3>1, AfterBootstrap
  <2>3. CASE one \in registry /\ other \in registry
    BY <2>3 DEF NamesTellApart
  <2>4. ASSUME NEW s \in Servers, NEW old \in registry, NEW e \in Proxies(s), old[1] = e[1] PROVE FALSE
    BY <1>2, <2>1, <2>4
  <2>5. ASSUME NEW s \in Servers \ late, NEW u \in Servers \ late, link[s] = "up", link[u] = "up",
               one \in Proxies(s), other \in Proxies(u)
        PROVE  FALSE
    <3>1. one = other
      BY <1>3, <2>5
    <3>. QED  BY <3>1
  <2>. QED  BY <2>2, <2>3, <2>4, <2>5
<1>6. CASE ~ Bootstrapped /\ \A s \in Servers : ~ Listed(s)
  <2>1. registry' = registry
    BY <1>6 DEF McpNext, mcpVars, Respond, Notify, Leave, Dropped, Connect, Initialized, Refused, StartupTimeout,
                Call, Returned, Cancel, PostFails, FirstMessage, Shutdown
  <2>. QED  BY <1>1, <2>1
<1>. QED  BY <1>4, <1>5, <1>6
-------------------------------------------------------------------------------
(* Together.                                                               *)

LEMMA McpStarts ==
    ASSUME McpInit PROVE McpInv
<1>1. McpTypes
  BY DEF McpInit, McpTypes, Kinds, Links, Stages
<1>2. ChannelInv
  BY DEF McpInit, ChannelInv, Holds, Numbered, Posted, Linked, Matched
<1>3. AnswersAreOwn /\ WaitsForSomething /\ NamesTellApart
  BY DEF McpInit, AnswersAreOwn, WaitsForSomething, NamesTellApart, Builtin
<1>4. Catalogue
  <2>1. registry \subseteq Bare
    BY DEF McpInit, Bare, Tools
  <2>2. \A s, tool : <<<<"mcp", s, tool>>, s>> \notin registry
    BY Tuples DEF McpInit
  <2>. QED  BY <2>1, <2>2 DEF McpInit, Catalogue
<1>. QED  BY <1>1, <1>2, <1>3, <1>4 DEF McpInv

LEMMA McpStep ==
    ASSUME McpInv, [McpNext]_mcpVars PROVE McpInv'
  BY McpTypesStep, ChannelStep, AnswersStep, WaitsStep, CatalogueStep, NamesStep DEF McpInv

LEMMA McpInvImplies ==
    ASSUME McpInv PROVE McpTypeOK /\ AnswersAreOwn /\ WaitsForSomething /\ NamesTellApart
<1>1. McpTypeOK
  BY DEF McpInv, McpTypes, ChannelInv, Holds, Numbered, McpTypeOK, Links, Stages
<1>. QED  BY <1>1 DEF McpInv

\* A request is given its own answer or fails as far as its transport matches
\* answers, and waits for something that will come, on every set of servers and
\* over any number of calls; no two tools have one name but those named like the
\* engine's (manager.rs, stdio.rs, sse.rs, tool_proxy.rs).
THEOREM McpClientCorrect ==
    McpSpec => [](McpTypeOK /\ AnswersAreOwn /\ WaitsForSomething /\ NamesTellApart)
<1>1. McpInit => McpInv
  BY McpStarts
<1>2. McpInv /\ [McpNext]_mcpVars => McpInv'
  BY McpStep
<1>3. McpInv => McpTypeOK /\ AnswersAreOwn /\ WaitsForSomething /\ NamesTellApart
  BY McpInvImplies
<1>. QED  BY <1>1, <1>2, <1>3, PTL DEF McpSpec

ClientInv == which = "client" => McpInv

LEMMA ClientInvAlways == OutsideSpec => []ClientInv
<1>1. OutsideInit => ClientInv
  BY McpStarts DEF OutsideInit, ClientInv
<1>2. ClientInv /\ [OutsideNext]_<<which, vars, mcpVars>> => ClientInv'
  <2>. SUFFICES ASSUME ClientInv, [OutsideNext]_<<which, vars, mcpVars>>, which' = "client"
                PROVE  McpInv'
    BY DEF ClientInv
  <2>1. which = "client" /\ [McpNext]_mcpVars
    BY DEF OutsideNext
  <2>. QED  BY <2>1, McpStep DEF ClientInv
<1>. QED  BY <1>1, <1>2, PTL DEF OutsideSpec

\* A request to an MCP server is given its own answer or fails, whatever timed
\* out before it, as far as its transport matches answers at all; and no two
\* tools have one name but those named like the engine's (manager.rs 266,
\* stdio.rs 118, tool_proxy.rs 223).
THEOREM AnswersOwnAlways == OutsideSpec => []AnswersMatch
<1>1. ClientInv => AnswersMatch
  BY McpInvImplies DEF ClientInv, AnswersMatch
<1>. QED  BY <1>1, ClientInvAlways, PTL

\* A request that waits has something to wait for, unless an event stream has
\* ended under it (stdio.rs 89-113, sse.rs 155-204).
THEOREM WaitsAlways == OutsideSpec => []WaitsAnswered
<1>1. ClientInv => WaitsAnswered
  BY McpInvImplies DEF ClientInv, WaitsAnswered
<1>. QED  BY <1>1, ClientInvAlways, PTL
===============================================================================
