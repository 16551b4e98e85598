------------------------------ MODULE MC_Mutex ------------------------------
(***************************************************************************)
(* TLC instances of Mutex and CondVar, and the depth-first search of the   *)
(* detector as the code writes it, to compare with the Detect of the model.*)
(***************************************************************************)
EXTENDS CondVar, FiniteSetsExt, SequencesExt, TLC

Symmetric == Permutations(Mutexes) \union Permutations(Conds)

Neighbors(n) == {e[2] : e \in {f \in wait_edges \union hold_edges : f[1] = n}}

\* DeadlockDetector::dfs on one node: visited grows, stack is rec_stack.  The
\* result says whether a cycle was found, and the nodes visited on the way.
RECURSIVE Dfs(_, _, _)
Dfs(node, visited, stack) ==
    LET seen == visited \union {node}
        path == stack \union {node}
        Visit(acc, n) ==
            IF acc.found THEN acc
            ELSE IF n \in path THEN [acc EXCEPT !.found = TRUE]
            ELSE IF n \in acc.visited THEN acc
            ELSE Dfs(n, acc.visited, path)
    IN  FoldLeft(Visit, [found |-> FALSE, visited |-> seen],
                 SetToSeq(Neighbors(node)))

\* Mutant: rec_stack still holds the nodes of the roots searched before.
MutantDetectLoop ==
    LET From(acc, n) == IF acc.found \/ n \in acc.visited THEN acc
                        ELSE Dfs(n, acc.visited, acc.visited)
        keys == {e[1] : e \in wait_edges \union hold_edges}
    IN  FoldLeft(From, [found |-> FALSE, visited |-> {}], SetToSeq(keys)).found

\* The outer loop of DeadlockDetector::detect, over the keys of graph_.
DetectLoop ==
    LET From(acc, n) == IF acc.found \/ n \in acc.visited THEN acc
                        ELSE Dfs(n, acc.visited, {})
        keys == {e[1] : e \in wait_edges \union hold_edges}
    IN  FoldLeft(From, [found |-> FALSE, visited |-> {}], SetToSeq(keys)).found

\* The search of DeadlockDetector::detect and dfs, which carries its visited
\* set from one root to the next, finds a cycle exactly when there is one.
DfsExact == DetectLoop = Detect(wait_edges, hold_edges)
=============================================================================
