------------------------------ MODULE MCAgent ------------------------------
(***************************************************************************)
(* What happens within a turn, for TLC: each behaviour is one of the       *)
(* component in focus, the state of the others does not change.            *)
(***************************************************************************)
EXTENDS AgentComponents, TLC

VARIABLE focus

adapterVars == <<consumer, at, lines, written, child, code, timer, seen, failure,
                 registered, processes, cancelled, timeouts>>
gateVars == <<asked, grants, requests, pendingOf, saved, clock, restarts, passes, approvals>>
memoryVars == <<archiving, adding, beforeTrim, memory, daily, archive, long, index, work,
                snapshot, lock, summary, exposed, gone, deaths>>
modelVars == <<probe, saw, copy, store, writers, broken, allowOne, cache, chain, notPassed>>
promptVars ==
    <<step, request, system, prompt, added, artifacts, diagnosed, noticed, withTurn, notices>>
toolVars == <<call, callStep, questions, granted, segment, read, failed, answer, file,
              substrate, concurrentExecs, toolIsolation, recent, runCount, serial, raced, editor>>

-----------------------------------------------------------------------------
\* The values of the constants.

MCProviders == <<"cli", "cli", "http">>

\* A command that changes something, and a fetch.
MCTool ==
    [c \in {"edit", "fetch"} |->
        IF c = "edit"
        THEN [name |-> "exec", destructive |-> FALSE, listed |-> TRUE, intent |-> "mutating"]
        ELSE [name |-> "web_fetch"]]

\* Two probes of the first model, one of the second, which must be paid for.
MCOrder == <<"a", "b">>
MCProbed == [p \in {"p1", "p2", "p3"} |-> IF p = "p3" THEN "b" ELSE "a"]

\* A session for each turn.
MCSessionOf == [t \in {"t1", "t2"} |-> t]

\* Characters of the parts of a prompt, of which there is no SOUL.md.
MCPartSize ==
    [instead |-> 3, label |-> 1, summary |-> 2, continuity |-> 2, agents |-> 9, tools |-> 3,
     identity |-> 2, soul |-> 0, chat |-> 1, user |-> 2, memory |-> 6, experience |-> 2,
     interrupted |-> 1, birth |-> 2, roadmap |-> 2, freshness |-> 1, hypotheses |-> 1,
     journal |-> 2, plugins |-> 2]

Usual ==
    [provider |-> "cursor-agent-cli", mode |-> "none", tools |-> TRUE, asksForTools |-> FALSE,
     minimalSystem |-> FALSE, toolTurnMinimal |-> FALSE, web |-> TRUE, messages |-> 4,
     escalated |-> FALSE, cap |-> 5, priority |-> <<>>, summarize |-> FALSE, summaryTokens |-> 1,
     noThink |-> FALSE]

MCPromptRequests ==
    {Usual,
     [Usual EXCEPT !.cap = 0, !.web = FALSE, !.escalated = TRUE],
     [Usual EXCEPT !.priority = <<"assistant", "system">>, !.messages = 3, !.cap = 3],
     [Usual EXCEPT !.summarize = TRUE],
     [Usual EXCEPT !.toolTurnMinimal = TRUE, !.cap = 1],
     [Usual EXCEPT !.provider = "ollama", !.mode = "auto", !.asksForTools = TRUE,
                   !.noThink = TRUE],
     [Usual EXCEPT !.provider = "ollama", !.minimalSystem = TRUE, !.toolTurnMinimal = TRUE],
     [Usual EXCEPT !.tools = FALSE, !.messages = 1, !.priority = <<"user">>,
                   !.provider = "lm-studio"],
     [Usual EXCEPT !.messages = 0, !.priority = <<"system">>, !.summarize = TRUE, !.cap = 9]}

\* A call and no text, and a text and two calls.
MCReplies == {[text |-> 0, results |-> <<9>>], [text |-> 5, results |-> <<3, 6>>]}

Command(bin, form, path, to, old, new) ==
    [bin |-> bin, form |-> form, path |-> path, to |-> to, old |-> old, new |-> new,
     intent |-> "read-only"]
Program(bin, intent) == [Command(bin, "run", "f", "f", "x", "y") EXCEPT !.intent = intent]
Exec(commands) == [tool |-> "exec", valid |-> TRUE, destructive |-> FALSE, segments |-> commands]
Edit(path, old, new) == [path |-> path, old |-> old, new |-> new]
Edits(edits) == [tool |-> "apply_edits", valid |-> TRUE, edits |-> edits]

\* "out" is outside the profile, cat and node are in the allowlist.
MCRequests ==
    {[tool |-> "unknown"], [tool |-> "lookup", valid |-> FALSE],
     [tool |-> "lookup", valid |-> TRUE], [tool |-> "gh_pr_write", valid |-> TRUE],
     Edits(<<Edit("f", "x", "y"), Edit("g", "x", "z"), Edit("f", "y", "z")>>),
     Edits(<<Edit("g", "x", "y"), Edit("g", "x", "z")>>),
     Edits(<<Edit("f", "z", "x")>>),
     Edits(<<Edit("g", "x", "y"), Edit("out", "x", "z")>>),
     Exec(<<Command("cat", "read", "f", "f", "x", "x"),
            Command("sed", "substitute", "f", "f", "y", "x"),
            Command("rm", "remove", "g", "g", "x", "x")>>),
     Exec(<<Command("mv", "move", "f", "g", "x", "x"),
            Command("touch", "touch", "g", "g", "x", "x")>>),
     [Exec(<<Command("echo", "add", "g", "g", "x", "y")>>) EXCEPT !.destructive = TRUE],
     Exec(<<Command("cat", "read", "out", "out", "x", "y")>>),
     Exec(<<Program("node", "read-only")>>),
     Exec(<<Program("rm", "mutating")>>),
     Exec(<<[Command("mkdir", "read", "f", "f", "x", "x") EXCEPT !.intent = "mutating"],
            Program("make", "read-only")>>)}

MCContents == {None, {"y"}}
MCFirstFiles == [f \in {"f", "g"} |-> {"x"}]
MCMaxWrites == [perMinute |-> 1, perRun |-> 2]

-----------------------------------------------------------------------------
Components == {"adapter", "gate", "memory", "models", "prompt", "tools"}

MCInit ==
    /\ focus \in Components
    /\ A!Init /\ G!Init /\ V!Init
    /\ M!Init /\ (focus # "memory" => ~archiving)
    /\ Prompt!Init /\ (focus # "prompt" => request = [t \in PromptTurns |-> Usual])
    /\ T!Init /\ (focus # "tools" => call = [c \in {"c1", "c2"} |-> [tool |-> "unknown"]])

AdapterNext ==
    /\ focus = "adapter" /\ A!Next
    /\ UNCHANGED <<focus, gateVars, memoryVars, modelVars, promptVars, toolVars>>
GateNext ==
    /\ focus = "gate" /\ G!Next
    /\ UNCHANGED <<focus, adapterVars, memoryVars, modelVars, promptVars, toolVars>>
MemoryNext ==
    /\ focus = "memory" /\ M!Next
    /\ UNCHANGED <<focus, adapterVars, gateVars, modelVars, promptVars, toolVars>>
ModelsNext ==
    /\ focus = "models" /\ V!Next
    /\ UNCHANGED <<focus, adapterVars, gateVars, memoryVars, promptVars, toolVars>>
PromptNext ==
    /\ focus = "prompt" /\ Prompt!Next
    /\ UNCHANGED <<focus, adapterVars, gateVars, memoryVars, modelVars, toolVars>>
ToolsNext ==
    /\ focus = "tools" /\ T!Next
    /\ UNCHANGED <<focus, adapterVars, gateVars, memoryVars, modelVars, promptVars>>

MCNext ==
    AdapterNext \/ GateNext \/ MemoryNext \/ ModelsNext \/ PromptNext \/ ToolsNext

allVars == <<focus, adapterVars, gateVars, memoryVars, modelVars, promptVars, toolVars>>

MCSpec == MCInit /\ [][MCNext]_allVars
=============================================================================
