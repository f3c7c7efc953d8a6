----------------------------- MODULE MCAnalysis -----------------------------
EXTENDS Replay, TLC

Use(id, name) == [tool |-> id, name |-> name]
Talk(history, echoed, consumed, produced) ==
    [history |-> history, echoed |-> echoed, consumed |-> consumed,
     produced |-> produced]
Ask == Talk(<<>>, {}, {}, {})

Send(role, run, body) ==
    [task |-> NoTask, role |-> role, run |-> run, flow |-> Null, body |-> body,
     model |-> "m", experiment |-> Null, arm |-> Null,
     ok |-> TRUE, messages |-> TRUE]

Plain(body) == Send("a", Null, body)
Under(task, sent) == [sent EXCEPT !.task = task]

NoCalls ==
    [calls |-> {}, tasks |-> {}, events |-> {}, lags |-> {0}, maxRows |-> 0,
     maxTasks |-> 0, maxCommands |-> 0, limit |-> 2, scopes |-> {},
     commands |-> {}, replies |-> {}, judges |-> {}]

\* Calls without a task: two conversations that begin alike, tools that are
\* shown, echoed, consumed, and shown twice.
Loose ==
    [NoCalls EXCEPT
        !.calls = {Plain(Talk(<<1>>, {}, {}, {Use(1, "x")})),
                   Plain(Talk(<<1, 2>>, {}, {}, {Use(2, "x")})),
                   Plain(Talk(<<1, 2, 3>>, {Use(1, "x")}, {1}, {})),
                   Plain(Talk(<<4>>, {Use(2, "x")}, {}, {})),
                   Plain(Talk(<<>>, {}, {2}, {Use(1, "y")})),
                   Plain(Talk(<<>>, {}, {1, 2}, {})),
                   Under(1, Plain(Talk(<<1>>, {Use(1, "y")}, {1}, {})))},
        !.lags = {0, 2, 3}, !.maxRows = 3]

\* Tasks of one to four like calls, a loop of tool calls, a streamed one:
\* three tasks of any kind, or four in two families.
Grouped(kinds, n) ==
    LET a == Plain(Ask)
        first == Plain(Talk(<<>>, {}, {}, {Use(1, "x")}))
        second == Plain(Talk(<<>>, {}, {1}, {Use(2, "x")}))
        last == Plain(Talk(<<>>, {}, {2}, {}))
        echo == Send("b", Null, Talk(<<>>, {Use(1, "x")}, {1}, {}))
        tasks == <<(<<a, a>>), (<<first, second, last>>), (<<a, a, a>>),
                   (<<a, a, a, a>>), (<<a, echo>>), (<<a>>)>>
    IN  [NoCalls EXCEPT !.tasks = {tasks[i] : i \in 1..kinds},
                      !.maxRows = 12, !.maxTasks = n]

\* A discovery job among retention and erasure.
Sampled ==
    LET first == [Plain(Talk(<<>>, {}, {}, {Use(1, "x")})) EXCEPT !.experiment = "e", !.arm = "c"]
        second == Plain(Talk(<<>>, {}, {1}, {}))
    IN  [NoCalls EXCEPT
            !.calls = {Plain(Ask)}, !.tasks = {<<first, second>>, <<second>>},
            !.maxRows = 3, !.maxTasks = 2, !.maxCommands = 3, !.limit = 1,
            !.scopes = {NoScope,
                        [NoScope EXCEPT !.experiment = "e", !.arm = "c"],
                        [NoScope EXCEPT !.until = 5],
                        [NoScope EXCEPT !.since = 5, !.until = 4]},
            !.commands = {"prune", "erase", "discover"}]

\* ... and among re-enrichment as well, for one kind of task.
Reenriched ==
    [Sampled EXCEPT
        !.tasks = {CHOOSE calls \in @ : Len(calls) = 2}, !.scopes = {NoScope},
        !.commands = {"prune", "erase", "reenrich", "upgrade", "discover"}]

\* Edges of a workflow among retention and erasure.
Flow ==
    LET make == Send("a", "r1", Talk(<<>>, {}, {}, {Use(1, "x")}))
        use == Send("a", "r2", Talk(<<>>, {}, {1}, {}))
        again == Send("a", "r3", Talk(<<>>, {}, {1}, {Use(1, "x")}))
    IN  [NoCalls EXCEPT
            !.calls = {Under(t, c) : t \in {1, 2}, c \in {make, use, again}},
            !.events = {[task |-> 1, run |-> "r2", after |-> {"r1"}],
                        [task |-> 1, run |-> "r3", after |-> {"r2"}]},
            !.maxRows = 3, !.maxCommands = 3,
            !.commands = {"prune", "erase", "infer"}]

Pair(baseline, candidate) ==
    [fails |-> FALSE, baseline |-> baseline, candidate |-> candidate]
Failing == [Pair(0, 0) EXCEPT !.fails = TRUE]
Judge(scale, first, style) == [scale |-> scale, first |-> first, style |-> style]

\* Datasets and replays among retention and erasure.
Held ==
    [NoCalls EXCEPT
        !.calls = {Plain(Ask)},
        !.tasks = {<<Plain(Ask), Plain(Ask)>>},
        !.maxRows = 3, !.maxTasks = 1, !.maxCommands = 3, !.limit = 3,
        !.commands = {"prune", "erase", "dataset", "replay"},
        !.replies = {Pair(1, 2)}, !.judges = {Judge(2, 0, 0)}]

\* Batches and labels of every kind, before every kind of judge.
Batches ==
    [NoCalls EXCEPT
        !.calls = {Plain(Ask)}, !.maxRows = 3, !.maxCommands = 1, !.limit = 3,
        !.commands = {"replay", "calibrate"},
        !.replies = {Failing, Pair(0, 0), Pair(1, 1), Pair(2, 1), Pair(1, 2)},
        !.judges = {Judge(2, 0, 0), Judge(2, 3, 0), Judge(1, 1, 1),
                    Judge(0, 2, 2), Judge(-1, 0, 0)}]

\* Reports about a role and about a step of it.
Campaign ==
    [NoCalls EXCEPT
        !.calls = {Plain(Ask), [Plain(Ask) EXCEPT !.flow = "w"],
                   [Plain(Ask) EXCEPT !.ok = FALSE],
                   [Plain(Ask) EXCEPT !.messages = FALSE],
                   [Plain(Ask) EXCEPT !.model = "cheap"]},
        !.maxRows = 3, !.maxCommands = 2, !.limit = 3,
        !.commands = {"replay"},
        !.replies = {Pair(1, 2)}, !.judges = {Judge(2, 0, 0)}]

\* A supply with which nothing happens.
MCSupplies == {NoCalls, Loose, Grouped(6, 3), Grouped(2, 4), Sampled,
               Reenriched, Flow, Held, Batches, Campaign}

=============================================================================
