---------------------------- MODULE Dependencies ----------------------------
(***************************************************************************)
(* The dependency manager: the tree of DependencyNodes that gives a new    *)
(* instance the instances it depends on (GetAndSetDeps).  Its code is not  *)
(* among the sources; the definitions follow the specification (section    *)
(* 4.2), and src/consensus/manager_dependencies_test.go where the two      *)
(* differ: what a read is given of the keys below its own.                 *)
(*                                                                         *)
(* A key is a path of segments ("a:b" is <<"a", "b">>), a node is reached  *)
(* by the path from the root, and the tree is the function from the paths  *)
(* of the nodes made so far to what each node holds.                       *)
(***************************************************************************)
EXTENDS Instance

\* newDependencies: a node that has seen no instance.
newDependencies == [lastWrite |-> Nil, lastReads |-> <<>>]

\* The nodes from the root to the node of a path, and the nodes below it.
OnPath(path) == Prefixes(path) \ {<<>>}

Below(tree, path) == { p \in DOMAIN tree : IsStrictPrefix(path, p) }

\* getLocalDeps: the last write of a node, and for a write its reads.
getLocalDeps(node, readOnly) ==
    ({node.lastWrite} \ {Nil}) \cup (IF readOnly THEN {} ELSE ToSet(node.lastReads))

\* Fault: step 3 of section 4.2, which has a write alone look below its node.
subDepsOfWrites(tree, path, readOnly) ==
    IF readOnly THEN {} ELSE UNION { getLocalDeps(tree[p], FALSE) : p \in Below(tree, path) }

\* What an instance is given of the nodes below its own: of every node what
\* the node itself would give it, so a read the last writes and a write the
\* reads as well (TestIntegration: a read of a:b receives the writes of
\* a:b:c and a:b:c:d).
subDeps(tree, path, readOnly) ==
    UNION { getLocalDeps(tree[p], readOnly) : p \in Below(tree, path) }

\* Fault: the nodes below a write keep what they hold.
clearsNever(path, p, readOnly) == FALSE

\* Whether a step clears node p: a write clears the nodes below its own.
clears(path, p, readOnly) == ~readOnly /\ IsStrictPrefix(path, p)

\* The terminal node after the instance: one more read, or the write alone.
update(node, iid, readOnly) ==
    IF readOnly THEN [node EXCEPT !.lastReads = Append(@, iid)]
    ELSE [lastWrite |-> iid, lastReads |-> <<>>]

\* GetAndSetDeps: walk from the root to the node of the key, making the
\* nodes that are missing; collect at every node of the path and below the
\* last; a write clears what is below its node; update the node.
GetAndSetDeps(tree, iid, path, readOnly) ==
    LET walked == [p \in DOMAIN tree \cup OnPath(path) |->
                      IF p \in DOMAIN tree THEN tree[p] ELSE newDependencies]
    IN  [deps |-> UNION { getLocalDeps(walked[p], readOnly) : p \in OnPath(path) }
                    \cup subDeps(walked, path, readOnly),
         tree |-> [p \in DOMAIN walked |->
                      CASE p = path -> update(walked[p], iid, readOnly)
                        [] clears(path, p, readOnly) -> newDependencies
                        [] OTHER -> walked[p]]]

\* The manager after a sequence of requests, the n-th for the instance n:
\* the tree, and the dependencies each instance was given.
Managed(requests) ==
    FoldLeft(LAMBDA m, r :
                 LET got == GetAndSetDeps(m.tree, r.id, r.path, r.readOnly)
                 IN  [tree |-> got.tree, deps |-> (r.id :> got.deps) @@ m.deps],
             [tree |-> <<>>, deps |-> <<>>], requests)

-----------------------------------------------------------------------------
\* The instances an instance acknowledges: those it depends on, directly or
\* through others.  The dependencies of an instance were made before it.
RECURSIVE Acknowledged(_, _)
Acknowledged(deps, iid) == deps[iid] \cup UNION { Acknowledged(deps, d) : d \in deps[iid] }
=============================================================================
