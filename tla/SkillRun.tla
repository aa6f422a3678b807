------------------------------ MODULE SkillRun ------------------------------
(***************************************************************************)
(* The Skill tool (skill_tool.rs): a call names a skill, the checker lets  *)
(* it or not (permissions.rs), the arguments are put into its text         *)
(* (substitution.rs), the commands the text embeds run together and their  *)
(* outputs take the commands' places (shell.rs), and the text is returned  *)
(* or given to a sub-agent (executor.rs).                                  *)
(*                                                                         *)
(* A text is a sequence of tokens.  "open" and "close" are the fences of a *)
(* command block, "!cmd" is an inline command, "$..." are placeholders;    *)
(* the output of the i-th command is a sequence of Letter[i].              *)
(***************************************************************************)
EXTENDS Naturals, Sequences, FiniteSets, SequencesExt

CONSTANTS
    Texts,      \* the texts of skills
    Arguments,  \* the argument strings, as the words they split into
    Letter      \* what the i-th command of a text prints

NoArguments == <<"none">>

VARIABLES
    skill,      \* [text, source, fork, safe]: the skill the call found
    rules,      \* [deny, allow, auto]: what the configuration says of it
    args,       \* the call's arguments, or NoArguments
    stage,      \* "called", "running", "forked", "done" or "failed"
    outputs,    \* the outputs of the commands that ended, by index
    broken,     \* the commands that failed, by index
    text        \* the skill's text so far, in the end the result

runVars == <<skill, rules, args, stage, outputs, broken, text>>

-----------------------------------------------------------------------------
(* Arguments *)

Each(F(_), tokens) == FlattenSeq([i \in DOMAIN tokens |-> F(tokens[i])])

\* The n-th argument, nothing when there are not so many.
Argument(n) == IF n \in DOMAIN args THEN <<args[n]>> ELSE <<>>

\* One pass a form: what a pass puts in, the later passes look at again.
Named(token) == IF token = "$name" THEN Argument(1) ELSE <<token>>
Indexed(token) == IF token = "$ARGUMENTS[1]" THEN Argument(2) ELSE <<token>>
Shorthand(token) == IF token = "$0" THEN Argument(1) ELSE <<token>>
Whole(token) == IF token = "$ARGUMENTS" THEN args ELSE <<token>>

Substituted(tokens) ==
    IF args = NoArguments THEN tokens
    ELSE LET filled == Each(Whole, Each(Shorthand, Each(Indexed, Each(Named, tokens))))
         IN IF filled = tokens /\ args # <<>> THEN tokens \o <<"ARGUMENTS:">> \o args
            ELSE filled

-----------------------------------------------------------------------------
(* Commands *)

\* A block reaches from a fence to the first closing one; blocks do not overlap.
BlockFrom(tokens, i) ==
    CHOOSE j \in i + 1 .. Len(tokens) : tokens[j] = "close" /\
        \A k \in i + 1 .. j - 1 : tokens[k] # "close"
Opens(tokens) ==
    {i \in DOMAIN tokens : tokens[i] = "open" /\ \E j \in i + 1 .. Len(tokens) : tokens[j] = "close"}
Blocks(tokens) ==
    {<<i, BlockFrom(tokens, i)>> : i \in
        {o \in Opens(tokens) : ~\E p \in Opens(tokens) : p < o /\ o < BlockFrom(tokens, p)}}

\* An inline command inside a block is part of the block's command.
Inlines(tokens) ==
    {<<i, i>> : i \in {k \in DOMAIN tokens : tokens[k] = "!cmd" /\
        ~\E b \in Blocks(tokens) : b[1] <= k /\ k <= b[2]}}

\* The commands of a text, by where they start; an overlapping one is dropped.
Matches(tokens) ==
    SetToSortSeq(Blocks(tokens) \cup Inlines(tokens), LAMBDA a, b : a[1] < b[1])

\* The outputs are put in from the last to the first: the places before stay.
Replaced_Forwards(tokens) ==
    LET found == Matches(tokens)
    IN  FoldLeft(LAMBDA t, i : IF found[i][2] > Len(t) THEN t
                               ELSE SubSeq(t, 1, found[i][1] - 1) \o outputs[i]
                                      \o SubSeq(t, found[i][2] + 1, Len(t)),
                 tokens, [i \in DOMAIN found |-> i])

Replaced(tokens) ==
    LET found == Matches(tokens)
    IN  FoldLeft(LAMBDA t, i : SubSeq(t, 1, found[i][1] - 1) \o outputs[i]
                                 \o SubSeq(t, found[i][2] + 1, Len(t)),
                 tokens, Reverse([i \in DOMAIN found |-> i]))

-----------------------------------------------------------------------------
\* Rules first, what denies before what allows; then a skill that declares
\* nothing, then the flag that approves.  To ask is to refuse with a reason.
Check == IF rules.deny THEN "deny"
         ELSE IF rules.allow \/ skill.safe \/ rules.auto THEN "allow"
         ELSE "ask"

Refused ==
    /\ stage = "called" /\ Check # "allow"
    /\ stage' = "failed"
    /\ UNCHANGED <<skill, rules, args, outputs, broken, text>>

\* What comes after the text is prepared: it is the result, or a child's prompt.
Prepared == IF skill.fork THEN "forked" ELSE "done"

\* A skill of an MCP server is never searched for commands.
Commands(tokens) == IF skill.source = "mcp" THEN <<>> ELSE Matches(tokens)

Start ==
    /\ stage = "called" /\ Check = "allow"
    /\ text' = Substituted(skill.text)
    /\ stage' = IF Commands(text') = <<>> THEN Prepared ELSE "running"
    /\ UNCHANGED <<skill, rules, args, outputs, broken>>

\* The commands run together; one that fails stops none of the others.
CommandEnds ==
    /\ stage = "running"
    /\ \E i \in DOMAIN Commands(text) \ (DOMAIN outputs \cup broken) :
         \/ \E n \in 0..2 :
              /\ outputs' = [j \in DOMAIN outputs \cup {i} |->
                                IF j = i THEN [k \in 1..n |-> Letter[i]] ELSE outputs[j]]
              /\ UNCHANGED broken
         \/ broken' = broken \cup {i} /\ UNCHANGED outputs
    /\ UNCHANGED <<skill, rules, args, stage, text>>

\* All have ended: the first failure is the result, else the outputs go in.
AllEnded ==
    /\ stage = "running"
    /\ DOMAIN Commands(text) = DOMAIN outputs \cup broken
    /\ IF broken # {} THEN stage' = "failed" /\ UNCHANGED text
       ELSE stage' = Prepared /\ text' = Replaced(text)
    /\ UNCHANGED <<skill, rules, args, outputs, broken>>

\* The sub-agent that was given the text answers with text of its own.
ChildEnds ==
    /\ stage = "forked"
    /\ \E ok \in BOOLEAN : stage' = IF ok THEN "done" ELSE "failed"
    /\ UNCHANGED <<skill, rules, args, outputs, broken, text>>

-----------------------------------------------------------------------------
RunInit ==
    /\ skill \in [text : Texts, source : {"disk", "mcp"}, fork : BOOLEAN, safe : BOOLEAN]
    /\ rules \in [deny : BOOLEAN, allow : BOOLEAN, auto : BOOLEAN]
    /\ args \in Arguments \cup {NoArguments}
    /\ stage = "called" /\ outputs = <<>> /\ broken = {} /\ text = <<>>

RunNext == Refused \/ Start \/ CommandEnds \/ AllEnded \/ ChildEnds

RunSpec == RunInit /\ [][RunNext]_runVars

-----------------------------------------------------------------------------
\* The type of the variables of a call of the Skill tool.
RunTypeOK ==
    /\ stage \in {"called", "running", "forked", "done", "failed"}
    /\ DOMAIN outputs \subseteq 1..Len(Letter) /\ broken \subseteq 1..Len(Letter)
    /\ DOMAIN outputs \cap broken = {}

Placeholders == {"$name", "$0", "$ARGUMENTS[1]", "$ARGUMENTS"}
Plain == args # NoArguments =>
            \A i \in DOMAIN args : args[i] \notin Placeholders \cup {"open", "close", "!cmd"}

\* What a text of a skill stands for: each placeholder for the argument it names,
\* and, when it has none, the arguments after it.
Meant(tokens) ==
    LET Of(t) == IF args = NoArguments THEN <<t>>
                 ELSE IF t \in {"$name", "$0"} THEN Argument(1)
                 ELSE IF t = "$ARGUMENTS[1]" THEN Argument(2)
                 ELSE IF t = "$ARGUMENTS" THEN args ELSE <<t>>
    IN Each(Of, tokens) \o
         (IF args \notin {NoArguments, <<>>} /\ ~\E i \in DOMAIN tokens : tokens[i] \in Placeholders
          THEN <<"ARGUMENTS:">> \o args ELSE <<>>)

\* A prepared text has every argument where its placeholder was and every
\* command's output where the command was, whatever the lengths, and every
\* other token in its place; a skill of a server has its commands left as text,
\* and no command of a skill that was refused has run.
FilledInPlace ==
    /\ stage \in {"forked", "done"} /\ Plain =>
         LET meant == Meant(skill.text)
             found == Commands(meant)
             At(i) == IF \E m \in DOMAIN found : found[m][1] = i
                      THEN outputs[CHOOSE m \in DOMAIN found : found[m][1] = i]
                      ELSE IF \E m \in DOMAIN found : found[m][1] < i /\ i <= found[m][2]
                      THEN <<>> ELSE <<meant[i]>>
         IN text = FlattenSeq([i \in DOMAIN meant |-> At(i)])
    /\ rules.deny \/ skill.source = "mcp" => outputs = <<>> /\ broken = {}
=============================================================================
