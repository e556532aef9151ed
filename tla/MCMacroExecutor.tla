-------------------------- MODULE MCMacroExecutor --------------------------
(***************************************************************************)
(* The macros TLC runs, two at a time.                                     *)
(***************************************************************************)
EXTENDS MacroExecutor, TLC

MacroSymmetry == Permutations(Macros)

NoWhen == [step |-> 0, status |-> "any", text |-> "*"]
When(s, status, text) == [step |-> s, status |-> status, text |-> text]

Do(kind, fs, deps) ==
    [kind |-> kind, files |-> fs, deps |-> deps, when |-> NoWhen,
     text |-> "new", expect |-> "*", cache |-> "auto"]

Ask(steps) == [root |-> "root", parallel |-> 2, stop |-> TRUE, dry |-> FALSE, steps |-> steps]

\* A checked write of both files, then a read and a search of the result.
Rewrite == Ask(<<[Do("write", <<2, 1>>, {}) EXCEPT !.expect = "old"],
                 Do("read", <<1>>, {1})>>)

\* A patch of the same files in the other order beside a search of them.
Patch == [Ask(<<[Do("patch", <<1, 2>>, {}) EXCEPT !.expect = "old", !.text = "patched"],
                Do("search", <<1, 2>>, {})>>) EXCEPT !.stop = FALSE]

\* A mutating command, a read-only one on its results, a step for its failure.
Build == [Ask(<<[Do("mutate", <<1>>, {}) EXCEPT !.text = "built"],
                [Do("command", <<1>>, {1}) EXCEPT !.cache = "use"],
                [Do("write", <<1>>, {1}) EXCEPT !.text = "old", !.when = When(1, "failed", "*")]>>)
          EXCEPT !.stop = FALSE]

\* Two reads at once; the second step's output decides the third.
Inspect == Ask(<<Do("read", <<1>>, {}), [Do("read", <<2>>, {}) EXCEPT !.cache = "refresh"],
                 [Do("write", <<2>>, {1, 2}) EXCEPT !.text = "old", !.when = When(2, "any", "old")]>>)

Rehearse == [Ask(<<[Do("write", <<1, 2>>, {}) EXCEPT !.expect = "old"],
                   Do("read", <<2>>, {1})>>) EXCEPT !.dry = TRUE]

Cyclic == Ask(<<Do("read", <<1>>, {2}), Do("read", <<2>>, {1})>>)

\* A project saved inside the other: the same file under locks of its own.
Nested == [Ask(<<Do("write", <<1>>, {}), Do("read", <<2>>, {1})>>) EXCEPT !.root = "inner"]

MixedRequests == {Rewrite, Patch, Build, Inspect, Rehearse, Cyclic, Nested}

\* The third step waits for a second that its own condition skips.
Branch == Ask(<<Do("read", <<1>>, {}),
                [Do("read", <<1>>, {1}) EXCEPT !.when = When(1, "failed", "*")],
                [Do("write", <<1>>, {2}) EXCEPT !.when = When(2, "succeeded", "*")]>>)
BranchRequests == {Branch}
===========================================================================
