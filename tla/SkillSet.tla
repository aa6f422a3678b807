------------------------------ MODULE SkillSet ------------------------------
(***************************************************************************)
(* The set of skills an agent knows: where its files are (disk), the       *)
(* loader that reads one source after the other and keeps one skill a name *)
(* (loader.rs), the watcher that tells of changes (watcher.rs), and the    *)
(* manager that keeps a skill with a `paths` field dormant until a file it *)
(* is about is touched (conditional.rs).                                   *)
(*                                                                         *)
(* A copy is a place on disk, [source, name]; its text is only whether it  *)
(* has `paths` ("guarded") or not ("plain").  Two places may be the same   *)
(* file through a link.  The task that ties the parts together follows the *)
(* usage the watcher documents: start it, load, and load again whenever    *)
(* its version changes.                                                    *)
(***************************************************************************)
EXTENDS Naturals, Sequences, FiniteSets

CONSTANTS
    SkillNames,     \* names of skills
    Sources,        \* the sources, the one that wins first
    Fixed,          \* those that are not directories: built in, or of a server
    Links,          \* pairs <<place, place>>: the first is a link to the second
    None,           \* no text: the place is empty
    MaxChanges,     \* bound on the changes made to the disk
    MaxResets       \* bound on the session resets

ASSUME SkillSetAssumption ==
    /\ Sources \in Seq({Sources[i] : i \in DOMAIN Sources})
    /\ Fixed \subseteq {Sources[i] : i \in DOMAIN Sources}
    /\ \E i \in DOMAIN Sources : Sources[i] \notin Fixed
    /\ MaxChanges \in Nat /\ MaxResets \in Nat

VARIABLES
    disk,           \* each place's text, or None
    watcher,        \* [phase, watched, owed, signal, version, changes]
    caller,         \* [phase, seen, next, got]: the task that loads
    listed,         \* name -> the skill the last load chose for it
    visible,        \* names the last partition returned as unconditional
    dormant,        \* name -> the skill that waits for its paths
    activated,      \* name -> the skill as it was when it was activated
    activatedNames, \* names activated, which a reload does not forget
    resets          \* session resets so far

skillVars == <<disk, watcher, caller, listed, visible, dormant, activated,
               activatedNames, resets>>

Rank(source) == CHOOSE i \in DOMAIN Sources : Sources[i] = source
Directories == {Sources[i] : i \in DOMAIN Sources} \ Fixed
Places == [source : {Sources[i] : i \in DOMAIN Sources}, name : SkillNames]
Texts == {"plain", "guarded"}
Skills == [source : {Sources[i] : i \in DOMAIN Sources}, name : SkillNames, text : Texts]

\* What a place is when its links are followed: the path `canonicalize` gives.
Canonical(place) ==
    IF \E l \in Links : l[1] = place THEN (CHOOSE l \in Links : l[1] = place)[2]
    ELSE place

TextAt(place) == disk[Canonical(place)]

\* A directory that holds a skill exists; an empty one may be missing.
Exists(source) == \E n \in SkillNames : TextAt([source |-> source, name |-> n]) # None

-----------------------------------------------------------------------------
(* The loader *)

\* The skill of a file: of what its text says, whether it has paths.
SkillAt(place) == [source |-> place.source, name |-> place.name, text |-> TextAt(place)]

\* The skills one source gives when its directory is read now.
ReadSource(source) ==
    {SkillAt([source |-> source, name |-> n]) :
        n \in {m \in SkillNames : TextAt([source |-> source, name |-> m]) # None}}

PlaceOf(skill) == [source |-> skill.source, name |-> skill.name]

\* Of the skills read, those no skill of an earlier source is the same file as.
Deduplicate(skills) ==
    {s \in skills : \A t \in skills :
        Canonical(PlaceOf(t)) = Canonical(PlaceOf(s)) => Rank(s.source) <= Rank(t.source)}

\* Then of each name the skill of the first source that has one.
DeduplicateByName(skills) ==
    [n \in {s.name : s \in skills} |->
        CHOOSE s \in skills : s.name = n /\ \A t \in skills :
            t.name = n => Rank(s.source) <= Rank(t.source)]

\* The loader reads the directories in the order of their rank.
NextRead(rank) == CHOOSE i \in DOMAIN Sources :
                    /\ i > rank /\ Sources[i] \in Directories
                    /\ \A j \in DOMAIN Sources :
                         j > rank /\ Sources[j] \in Directories => i <= j
LastRead == CHOOSE i \in DOMAIN Sources :
                /\ Sources[i] \in Directories
                /\ \A j \in DOMAIN Sources : Sources[j] \in Directories => j <= i

BuiltIn == UNION {ReadSource(s) : s \in Fixed}

Load ==
    /\ caller.phase = "loading"
    /\ LET i == NextRead(caller.next) IN
         caller' = [caller EXCEPT !.next = i, !.got = @ \cup ReadSource(Sources[i]),
                                  !.phase = IF i = LastRead THEN "loaded" ELSE @]
    /\ UNCHANGED <<disk, watcher, listed, visible, dormant, activated,
                   activatedNames, resets>>

-----------------------------------------------------------------------------
(* The conditional skills *)

\* Which skills of a load wait for their paths.
Waiting(chosen) ==
    {n \in DOMAIN chosen : chosen[n].text = "guarded" /\ n \notin activatedNames}

\* The load is complete: the old dormant skills go, the new list is divided.
Partition ==
    /\ caller.phase = "loaded"
    /\ LET chosen == DeduplicateByName(Deduplicate(caller.got \cup BuiltIn)) IN
         /\ listed' = chosen
         /\ dormant' = [n \in Waiting(chosen) |-> chosen[n]]
         /\ visible' = DOMAIN chosen \ Waiting(chosen)
    /\ caller' = [caller EXCEPT !.phase = "idle", !.got = {}, !.next = 0]
    /\ UNCHANGED <<disk, watcher, activated, activatedNames, resets>>

\* The dormant skills whose patterns match the files of a call.
Matched == SUBSET DOMAIN dormant \ {{}}

\* A tool touched files that the patterns of dormant skills match.
ActivateForPaths ==
    \E touched \in Matched :
        /\ dormant' = [n \in DOMAIN dormant \ touched |-> dormant[n]]
        /\ activatedNames' = activatedNames \cup touched
        /\ activated' = [n \in DOMAIN activated \cup touched |->
                            IF n \in touched THEN dormant[n] ELSE activated[n]]
        /\ UNCHANGED <<disk, watcher, caller, listed, visible, resets>>

\* A session reset forgets every activation; the task loads anew.
ResetAll ==
    /\ resets < MaxResets /\ caller.phase = "idle" /\ watcher.phase \notin {"new", "watching"}
    /\ resets' = resets + 1
    /\ dormant' = <<>> /\ activated' = <<>> /\ activatedNames' = {}
    /\ visible' = {} /\ listed' = <<>>
    /\ caller' = [caller EXCEPT !.phase = "loading"]
    /\ UNCHANGED <<disk, watcher>>

-----------------------------------------------------------------------------
(* The watcher: `signal` is an event its task has not seen yet *)

\* A skill is written, edited or removed.  The system owes the watcher an event
\* when the directory is watched; one that did not exist at the start never is.
Change ==
    \E p \in {q \in Places : q.source \in Directories /\ Canonical(q) = q},
       text \in Texts \cup {None} :
        /\ watcher.changes < MaxChanges /\ text # disk[p]
        /\ disk' = [disk EXCEPT ![p] = text]
        /\ watcher' = [watcher EXCEPT !.changes = @ + 1,
                                      !.owed = @ \/ p.source \in watcher.watched]
        /\ UNCHANGED <<caller, listed, visible, dormant, activated,
                       activatedNames, resets>>

\* `start` watches the directories that exist, and only then subscribes.
WatchDirectories ==
    /\ watcher.phase = "new"
    /\ watcher' = [watcher EXCEPT !.phase = "watching",
                                  !.watched = {d \in Directories : Exists(d)}]
    /\ UNCHANGED <<disk, caller, listed, visible, dormant, activated,
                   activatedNames, resets>>

\* The subscription starts with nothing to see; the first load follows it.
Subscribe ==
    /\ watcher.phase = "watching"
    /\ watcher' = [watcher EXCEPT !.phase = "waiting", !.signal = FALSE]
    /\ caller' = [caller EXCEPT !.phase = "loading"]
    /\ UNCHANGED <<disk, listed, visible, dormant, activated, activatedNames, resets>>

\* The callback, on a thread of its own, passes an event on.
Notify ==
    /\ watcher.owed
    /\ watcher' = [watcher EXCEPT !.owed = FALSE, !.signal = TRUE]
    /\ UNCHANGED <<disk, caller, listed, visible, dormant, activated,
                   activatedNames, resets>>

\* The debounce task: seen, slept on, drained, and told.
Moved(from, to, signal, version) ==
    /\ watcher.phase = from
    /\ watcher' = [watcher EXCEPT !.phase = to, !.signal = signal, !.version = version]
    /\ UNCHANGED <<disk, caller, listed, visible, dormant, activated,
                   activatedNames, resets>>

Seen == watcher.signal /\ Moved("waiting", "sleeping", FALSE, watcher.version)

Drain_Restarts ==
    Moved("sleeping", IF watcher.signal THEN "waiting" ELSE "drained", FALSE, watcher.version)

Drain == Moved("sleeping", "drained", FALSE, watcher.version)

Broadcast == Moved("drained", "waiting", watcher.signal, watcher.version + 1)

\* The task sees that the version is another one, and loads.
Changed ==
    /\ caller.phase = "idle" /\ caller.seen # watcher.version
    /\ caller' = [caller EXCEPT !.phase = "loading", !.seen = watcher.version]
    /\ UNCHANGED <<disk, watcher, listed, visible, dormant, activated,
                   activatedNames, resets>>

-----------------------------------------------------------------------------
SkillsInit ==
    /\ disk \in [Places -> Texts \cup {None}]
    /\ \A l \in Links : disk[l[1]] = None
    /\ \A p \in Places : p.source = "bundled" => disk[p] # "guarded"
    /\ watcher = [phase |-> "new", watched |-> {}, owed |-> FALSE, signal |-> FALSE,
                  version |-> 0, changes |-> 0]
    /\ caller = [phase |-> "idle", seen |-> 0, next |-> 0, got |-> {}]
    /\ listed = <<>> /\ visible = {} /\ dormant = <<>> /\ activated = <<>>
    /\ activatedNames = {} /\ resets = 0

SkillsNext ==
    \/ Load \/ Partition \/ ActivateForPaths \/ ResetAll \/ Change
    \/ WatchDirectories \/ Subscribe \/ Notify \/ Seen \/ Drain \/ Broadcast \/ Changed

SkillsSpec == SkillsInit /\ [][SkillsNext]_skillVars

-----------------------------------------------------------------------------
\* The type of every variable of the skill set.
SkillsTypeOK ==
    /\ disk \in [Places -> Texts \cup {None}]
    /\ watcher \in [phase : {"new", "watching", "waiting", "sleeping", "drained"},
                    watched : SUBSET Directories, owed : BOOLEAN, signal : BOOLEAN,
                    version : 0..MaxChanges, changes : 0..MaxChanges]
    /\ caller.phase \in {"idle", "loading", "loaded"}
    /\ caller.seen \in 0..watcher.version /\ caller.next \in 0..Len(Sources)
    /\ caller.got \subseteq Skills
    /\ \A f \in {listed, dormant, activated} :
         DOMAIN f \subseteq SkillNames /\ \A n \in DOMAIN f : f[n] \in Skills
    /\ visible \subseteq SkillNames /\ activatedNames \subseteq SkillNames
    /\ resets \in 0..MaxResets

AtRest ==
    /\ watcher.phase = "waiting" /\ ~watcher.owed /\ ~watcher.signal
    /\ caller.phase = "idle" /\ caller.seen = watcher.version

\* The copy of a name that should be used: that of the first source with one.
Best(name) ==
    CHOOSE p \in {q \in Places : q.name = name /\ TextAt(q) # None} :
        \A q \in Places : q.name = name /\ TextAt(q) # None => Rank(p.source) <= Rank(q.source)

\* A copy that is the same file as one of an earlier source is not its own skill.
Shared(place) ==
    \E q \in Places : q # place /\ Canonical(q) = Canonical(place) /\ TextAt(q) # None

\* No change is lost and no source is overruled: once the watcher has nothing to
\* tell and the task has followed it, the skill of every name is the one the
\* first source with that name holds now, read anew however the change fell
\* between the reads of a load, the watcher's pause and its announcement.
FollowsTheDisk ==
    AtRest /\ watcher.watched = Directories =>
        \A n \in SkillNames :
            LET offers == {p \in Places : p.name = n /\ TextAt(p) # None}
            IN  /\ n \in DOMAIN listed =>
                     TextAt(PlaceOf(listed[n])) = listed[n].text /\ PlaceOf(listed[n]) \in offers
                /\ offers # {} /\ ~(\E p \in offers : Shared(p)) =>
                     n \in DOMAIN listed /\ PlaceOf(listed[n]) = Best(n)

\* A skill that was activated is not put to sleep again by a reload, and every
\* skill of the list is either to be seen or asleep, never both or neither.
StaysAwake ==
    /\ activatedNames \cap DOMAIN dormant = {}
    /\ \A n \in DOMAIN listed :
         (n \in visible \/ n \in DOMAIN activated) # (n \in DOMAIN dormant)
=============================================================================
