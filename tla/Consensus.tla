----------------------------- MODULE Consensus -----------------------------
(***************************************************************************)
(* The phases that bring the instances of the scopes to a commit:          *)
(* PreAccept, Accept, Commit and Prepare, between the replicas of one      *)
(* scope.  The phases are not in src/: they are written from section 4.3   *)
(* of the specification and from src/consensus/scope_prepare_test.go and   *)
(* scope_accept_test.go, whose expectations the second phase of the        *)
(* prepare follows where the two differ; the scopes, makeInstance and      *)
(* mergeAttributes are those of the source.                                *)
(*                                                                         *)
(* node.SendMessage returns the response to the request it sends, so a     *)
(* replica answers a request at most once, reading the request and         *)
(* answering in one step.  msgs holds every request and response sent; a   *)
(* message nobody reads is lost or late, and a node that has sent a        *)
(* request and takes no further step has timed out or stopped.             *)
(***************************************************************************)
EXTENDS Scope

CONSTANTS
    MaxBallot,      \* the highest ballot of the model
    MaxPrepares,    \* the number of prepare phases of the model
    Timeouts        \* whether a commit timeout fires while the leader runs

VARIABLES
    msgs            \* the requests and responses sent so far

cvars == <<vars, msgs>>

N == Cardinality(Nodes)

\* The quorum of the slow path and of the prepare: a majority.
QuorumSize == N \div 2 + 1

\* Fault: the preaccept phase ends on a majority.
FastQuorumOfMajority == N \div 2 + 1

\* The fast quorum, the upper bound of 3N/4.  Section 4.3 equates it with
\* F + (F + 1) \div 2 for N = 2F + 1, which is smaller (of three replicas,
\* two and not all three).
FastQuorumSize == (3 * N + 3) \div 4

CInit == Init /\ msgs = {}

Alive == Nodes \ crashed

-----------------------------------------------------------------------------
\* The requests, with the fields section 6 of the specification gives them.
PreAcceptRequest(n, iid, inst) ==
    [type |-> "PreAccept", from |-> n, id |-> iid, ballot |-> inst.ballot,
     leader |-> inst.leader, seq |-> inst.seq, deps |-> inst.deps, noop |-> inst.noop]

AcceptRequest(n, iid, inst) ==
    [type |-> "Accept", from |-> n, id |-> iid, ballot |-> inst.ballot,
     seq |-> inst.seq, deps |-> inst.deps]

CommitRequest(n, iid, inst) ==
    [type |-> "Commit", from |-> n, id |-> iid, ballot |-> inst.ballot,
     seq |-> inst.seq, deps |-> inst.deps, noop |-> inst.noop]

PrepareRequest(n, iid, ballot) ==
    [type |-> "Prepare", from |-> n, id |-> iid, ballot |-> ballot]

\* The response of replica r to request m: inst is the view the replica
\* has of the instance, Nil when it has none.
Response(r, m, accepted, inst) ==
    [type |-> m.type, from |-> r, to |-> m.from, id |-> m.id, ballot |-> m.ballot,
     accepted |-> accepted, inst |-> inst]

Requests == { m \in msgs : "to" \notin DOMAIN m }

\* The responses to the request of this type node n sent for iid at ballot.
Responses(type, n, iid, ballot) ==
    { m \in msgs \ Requests :
        m.type = type /\ m.to = n /\ m.id = iid /\ m.ballot = ballot }

Answered(r, m) == \E x \in Responses(m.type, m.from, m.id, m.ballot) : x.from = r

\* mockNode.SendMessage: the message joins those sent.
Send(m) == msgs' = msgs \cup {m}

Reply(r, m, accepted, inst) == Send(Response(r, m, accepted, inst))

\* A request replica r has not answered, of a node other than r.
Receives(r, m, type) == m.type = type /\ r # m.from /\ ~Answered(r, m)

-----------------------------------------------------------------------------
\* The instance of node n under iid becomes inst: the maps of the scope
\* follow its status, and maxSeq the sequence numbers the node has seen.
store(n, iid, inst) ==
    /\ instances' = [instances EXCEPT ![n][iid] = inst]
    /\ inProgress' = [inProgress EXCEPT ![n] =
          IF inst.status < INSTANCE_COMMITTED THEN @ \cup {iid} ELSE @ \ {iid}]
    /\ committed' = [committed EXCEPT ![n] =
          IF inst.status = INSTANCE_COMMITTED THEN @ \cup {iid} ELSE @ \ {iid}]
    /\ maxSeq' = [maxSeq EXCEPT ![n] = Max({@, inst.seq})]
    /\ UNCHANGED <<executed, crashed>>

\* mergeAttributes on an instance whose dependencies are a set.
merged(inst, seq, deps) ==
    LET m == CHOOSE m \in mergeAttributes([inst EXCEPT !.deps = SetToSeq(@)],
                                          seq, SetToSeq(deps)) : TRUE
    IN  [m.instance EXCEPT !.deps = ToSet(@)]

\* The instance a replica has after request m, with this sequence number
\* and these dependencies: the leader is known from a preaccept only.
taken(local, m, status, seq, deps) ==
    [leader |-> IF local # Nil THEN local.leader
                ELSE IF "leader" \in DOMAIN m THEN m.leader ELSE Nil,
     seq |-> seq, deps |-> deps, status |-> status,
     ballot |-> IF local # Nil /\ local.ballot > m.ballot THEN local.ballot ELSE m.ballot,
     noop |-> IF "noop" \in DOMAIN m THEN m.noop
              ELSE IF local # Nil THEN local.noop ELSE FALSE]

\* Fault: a replica that knows the instance keeps the attributes it has.
updatedKeepsOwn(local, m, status) ==
    IF local = Nil THEN taken(local, m, status, m.seq, m.deps)
    ELSE taken(local, m, status, local.seq, local.deps)

\* A request that names the attributes overwrites those of the replica.
updated(local, m, status) == taken(local, m, status, m.seq, m.deps)

\* Fault: only the ballot is looked at.
RejectsByBallot(local, m, status) == local # Nil /\ local.ballot > m.ballot

\* A replica rejects a request of a ballot below the one it holds for the
\* instance, and one that would take the status of the instance back.
Rejects(local, m, status) ==
    /\ local # Nil
    /\ local.ballot > m.ballot \/ local.status > status

\* The sets of responses a phase of node n for iid can end with: a quorum
\* of this size, n itself counted, all of them accepted.
Quorums(type, n, iid, size) ==
    { Q \in SUBSET Responses(type, n, iid, instances[n][iid].ballot) :
        Cardinality(Q) + 1 = size /\ \A q \in Q : q.accepted }

\* commitInstance and the commit phase: the instance is committed here and
\* the commit announced; no response is waited for.
Commits(n, iid, inst) ==
    /\ store(n, iid, [inst EXCEPT !.status = INSTANCE_COMMITTED])
    /\ Send(CommitRequest(n, iid, inst))

\* acceptInstance and the start of the accept phase.
Accepts(n, iid, inst) ==
    /\ store(n, iid, [inst EXCEPT !.status = INSTANCE_ACCEPTED])
    /\ Send(AcceptRequest(n, iid, inst))

-----------------------------------------------------------------------------
\* Cluster.executeConsensusInstruction: a node that is not among the
\* replicas of the key panics; on a replica the function does nothing more.
executeConsensusInstruction(n, localReplicas) ==
    /\ n \notin ToSet(localReplicas)
    /\ Crash(n)
    /\ UNCHANGED msgs

\* A client request at node n, made while the model has an id left:
\* ExecuteInstructions, and the preaccept phase sends the instance it made
\* to the replicas.
Propose(n, replicas) ==
    /\ ExecuteInstructions(n, replicas)
    /\ msgs' = msgs \cup { PreAcceptRequest(n, i, instances'[n][i]) :
                              i \in { j \in Ids : instances'[n][j] # instances[n][j] } }

\* HandlePreAccept: the replica merges the sequence number and the
\* dependencies it would give the instance into the proposal, stores the
\* instance as preaccepted and answers with it.
HandlePreAccept(r, m) ==
    LET local == instances[r][m.id]
        mine  == merged(updated(local, m, INSTANCE_PREACCEPTED),
                        maxSeq[r] + 1, allInstances(r) \ {m.id})
    IN  /\ Receives(r, m, "PreAccept")
        /\ \/ /\ Rejects(local, m, INSTANCE_PREACCEPTED)
              /\ Reply(r, m, FALSE, local)
              /\ UNCHANGED vars
           \/ /\ ~Rejects(local, m, INSTANCE_PREACCEPTED)
              /\ store(r, m.id, mine)
              /\ Reply(r, m, TRUE, mine)

\* The fast path: a fast quorum answered with the sequence number and the
\* dependencies of the proposal.
FastPath(n, iid) ==
    LET inst == instances[n][iid]
    IN  /\ inst # Nil
        /\ inst.status = INSTANCE_PREACCEPTED
        /\ \E Q \in Quorums("PreAccept", n, iid, FastQuorumSize) :
              \A q \in Q : q.inst.seq = inst.seq /\ q.inst.deps = inst.deps
        /\ Commits(n, iid, inst)

\* The slow path: some response differs; the union of the dependencies and
\* the highest sequence number go to the accept phase.
SlowPath(n, iid) ==
    LET inst == instances[n][iid]
    IN  /\ inst # Nil
        /\ inst.status = INSTANCE_PREACCEPTED
        /\ \E Q \in Quorums("PreAccept", n, iid, FastQuorumSize) :
              /\ \E q \in Q : q.inst.seq # inst.seq \/ q.inst.deps # inst.deps
              /\ Accepts(n, iid, FoldSet(LAMBDA q, i : merged(i, q.inst.seq, q.inst.deps),
                                         inst, Q))

\* HandleAccept: the replica takes the sequence number and the
\* dependencies of the request.
HandleAccept(r, m) ==
    LET local == instances[r][m.id]
    IN  /\ Receives(r, m, "Accept")
        /\ \/ /\ Rejects(local, m, INSTANCE_ACCEPTED)
              /\ Reply(r, m, FALSE, local)
              /\ UNCHANGED vars
           \/ /\ ~Rejects(local, m, INSTANCE_ACCEPTED)
              /\ store(r, m.id, updated(local, m, INSTANCE_ACCEPTED))
              /\ Reply(r, m, TRUE, Nil)

\* The end of the accept phase: a majority accepted.
AcceptPhase(n, iid) ==
    LET inst == instances[n][iid]
    IN  /\ inst # Nil
        /\ inst.status = INSTANCE_ACCEPTED
        /\ Quorums("Accept", n, iid, QuorumSize) # {}
        /\ Commits(n, iid, inst)

\* HandleCommit: the replica commits the instance with the attributes of
\* the request, unless it has committed it already.
HandleCommit(r, m) ==
    LET local == instances[r][m.id]
    IN  /\ m.type = "Commit"
        /\ r # m.from
        /\ ~(local # Nil /\ local.status >= INSTANCE_COMMITTED)
        /\ store(r, m.id, updated(local, m, INSTANCE_COMMITTED))
        /\ UNCHANGED msgs

-----------------------------------------------------------------------------
\* Prepare.  The commit of an instance is overdue at a node that knows it,
\* because its leader has stopped or, with Timeouts, is slow: the node
\* takes the next ballot and asks the replicas what they know.
SendPrepare(n, iid) ==
    LET inst == instances[n][iid]
    IN  /\ inst # Nil
        /\ inst.status < INSTANCE_COMMITTED
        /\ Timeouts \/ inst.leader \in crashed
        /\ inst.ballot < MaxBallot
        /\ Cardinality({ m \in Requests : m.type = "Prepare" }) < MaxPrepares
        /\ store(n, iid, [inst EXCEPT !.ballot = @ + 1])
        /\ Send(PrepareRequest(n, iid, inst.ballot + 1))

\* HandlePrepare: an instance the replica does not know is accepted with
\* no instance; a higher ballot is accepted and kept; any other rejected.
HandlePrepare(r, m) ==
    LET local == instances[r][m.id]
    IN  /\ Receives(r, m, "Prepare")
        /\ \/ /\ local = Nil
              /\ Reply(r, m, TRUE, Nil)
              /\ UNCHANGED vars
           \/ /\ local # Nil
              /\ local.ballot < m.ballot
              /\ store(r, m.id, [local EXCEPT !.ballot = m.ballot])
              /\ Reply(r, m, TRUE, [local EXCEPT !.ballot = m.ballot])
           \/ /\ local # Nil
              /\ local.ballot >= m.ballot
              /\ Reply(r, m, FALSE, local)
              /\ UNCHANGED vars

\* The check of the responses: a rejection is a BallotError.  The node
\* takes the ballot of the replica when it is the higher one and, when the
\* replica is further with the instance and has accepted it at least, its
\* status and attributes; an executed instance is committed here.
BallotError(n, iid) ==
    LET inst == instances[n][iid]
    IN  /\ inst # Nil
        /\ inst.status < INSTANCE_COMMITTED
        /\ \E q \in Responses("Prepare", n, iid, inst.ballot) :
              /\ ~q.accepted
              /\ store(n, iid,
                    [ IF q.inst.status >= INSTANCE_ACCEPTED /\ q.inst.status > inst.status
                      THEN [q.inst EXCEPT !.status = Min({@, INSTANCE_COMMITTED})]
                      ELSE inst
                      EXCEPT !.ballot = Max({inst.ballot, q.inst.ballot}) ])
        /\ UNCHANGED msgs

\* The responses phase two of the prepare of node n works on: those of a
\* majority, n counted, none a rejection, while n has started no phase
\* on them yet.
Prepared(n, iid) ==
    LET inst == instances[n][iid]
        Sent(types) == \E m \in Requests : /\ m.type \in types /\ m.from = n
                                           /\ m.id = iid /\ m.ballot = inst.ballot
    IN  IF inst = Nil THEN {}
        ELSE IF ~Sent({"Prepare"}) \/ Sent({"PreAccept", "Accept", "Commit"}) THEN {}
        ELSE IF inst.status >= INSTANCE_COMMITTED THEN {}
        ELSE Quorums("Prepare", n, iid, QuorumSize)

\* analyzePrepareResponses: the responses of the highest status.  The
\* accepted responses of one prepare all carry its ballot.
Highest(Q) ==
    { q \in Q : q.inst # Nil /\ \A p \in Q : p.inst # Nil => p.inst.status <= q.inst.status }

\* The instance of a response at the ballot of the node that recovers.
recovered(n, iid, q) == [q.inst EXCEPT !.ballot = instances[n][iid].ballot]

\* Fault: the instance of the node that recovers is left out, further than
\* the responses or not.
LeadingOfResponses(n, iid, Q) ==
    IF Highest(Q) = {} THEN {instances[n][iid]}
    ELSE { recovered(n, iid, q) : q \in Highest(Q) }

\* The instance phase two goes on with: that of a response of the highest
\* status, and the node's own when it is further than every response.
Leading(n, iid, Q) ==
    LET further == { q \in Highest(Q) : q.inst.status >= instances[n][iid].status }
    IN  IF further = {} THEN {instances[n][iid]}
        ELSE { recovered(n, iid, q) : q \in further }

\* The start of a preaccept phase at a node that recovers: the node gives
\* the instance the sequence number and the dependencies it has for it, as
\* a replica does, and sends it to the replicas.  FastPath and SlowPath end
\* the phase.
PreAccepts(n, iid, inst) ==
    LET mine == merged([inst EXCEPT !.status = INSTANCE_PREACCEPTED],
                       maxSeq[n] + 1, allInstances(n) \ {iid})
    IN  /\ store(n, iid, mine)
        /\ Send(PreAcceptRequest(n, iid, mine))

\* No replica that answered knows the instance, and the node has not
\* accepted it: the instance becomes a no-op, and the preaccept phase runs.
PrepareNoop(n, iid) ==
    \E Q \in Prepared(n, iid) :
        /\ \A q \in Q : q.inst = Nil
        /\ instances[n][iid].status <= INSTANCE_PREACCEPTED
        /\ PreAccepts(n, iid, [instances[n][iid] EXCEPT !.noop = TRUE])

\* The instance is preaccepted and a replica knows it: the preaccept
\* phase runs on it.
PreparePreAccepted(n, iid) ==
    \E Q \in Prepared(n, iid) : \E inst \in Leading(n, iid, Q) :
        /\ \E q \in Q : q.inst # Nil
        /\ inst.status = INSTANCE_PREACCEPTED
        /\ PreAccepts(n, iid, inst)

\* The instance is accepted: the accept phase runs on it.
PrepareAccepted(n, iid) ==
    \E Q \in Prepared(n, iid) : \E inst \in Leading(n, iid, Q) :
        /\ inst.status = INSTANCE_ACCEPTED
        /\ Accepts(n, iid, inst)

\* A replica has committed or executed the instance: it is committed here.
PrepareCommitted(n, iid) ==
    \E Q \in Prepared(n, iid) : \E inst \in Leading(n, iid, Q) :
        /\ inst.status >= INSTANCE_COMMITTED
        /\ Commits(n, iid, inst)

-----------------------------------------------------------------------------
\* The execution of a committed instance, the environment of the phases.
Executes(n, iid) == Execute(n, iid) /\ UNCHANGED msgs

Stops(n) == Crash(n) /\ UNCHANGED msgs

CNext ==
    \/ \E n \in Alive : Stops(n)
    \/ \E replicas \in ReplicaLists, n \in Alive : executeConsensusInstruction(n, replicas)
    \/ Unused # {} /\ \E replicas \in ReplicaLists, n \in Alive : Propose(n, replicas)
    \/ \E n \in Alive, iid \in Ids : FastPath(n, iid)
    \/ \E n \in Alive, iid \in Ids : SlowPath(n, iid)
    \/ \E n \in Alive, iid \in Ids : AcceptPhase(n, iid)
    \/ \E n \in Alive, iid \in Ids : SendPrepare(n, iid)
    \/ \E n \in Alive, iid \in Ids : BallotError(n, iid)
    \/ \E n \in Alive, iid \in Ids : PrepareNoop(n, iid)
    \/ \E n \in Alive, iid \in Ids : PrepareCommitted(n, iid)
    \/ \E n \in Alive, iid \in Ids : PrepareAccepted(n, iid)
    \/ \E n \in Alive, iid \in Ids : PreparePreAccepted(n, iid)
    \/ \E n \in Alive, iid \in Ids : Executes(n, iid)
    \/ \E r \in Alive, m \in Requests : HandlePreAccept(r, m)
    \/ \E r \in Alive, m \in Requests : HandleAccept(r, m)
    \/ \E r \in Alive, m \in Requests : HandleCommit(r, m)
    \/ \E r \in Alive, m \in Requests : HandlePrepare(r, m)

CSpec == CInit /\ [][CNext]_cvars

-----------------------------------------------------------------------------
View == [leader : Nodes \cup {Nil}, deps : SUBSET (Ids \cup {ZeroID}),
         seq : Nat \ {0}, status : InstanceStatus,
         ballot : 0 .. MaxBallot, noop : BOOLEAN]

\* The maps of every scope say what its instances say, maxSeq is no
\* smaller than a sequence number the scope holds, and every message is
\* about an instance some scope has made: makeInstance and every handler
\* that stores an instance keep the maps and maxSeq with it.
TypeOK ==
    /\ instances \in [Nodes -> [Ids -> View \cup {Nil}]]
    /\ \A n \in Nodes :
          /\ inProgress[n] = { i \in Known(n) : instances[n][i].status < INSTANCE_COMMITTED }
          /\ committed[n] = { i \in Known(n) : instances[n][i].status = INSTANCE_COMMITTED }
          /\ ToSet(executed[n]) = { i \in Known(n) : instances[n][i].status = INSTANCE_EXECUTED }
          /\ \A i \in Known(n) : instances[n][i].seq <= maxSeq[n]
    /\ crashed \subseteq Nodes /\ Cardinality(crashed) <= MaxCrashes
    /\ \A m \in msgs : m.from \in Nodes /\ m.id \in Ids \ Unused /\ m.ballot \in 0 .. MaxBallot

\* The nodes that have committed or executed instance i.
Deciders(i) ==
    { n \in Nodes : instances[n][i] # Nil /\ instances[n][i].status >= INSTANCE_COMMITTED }

AgreeOn(i) ==
    \A n, m \in Deciders(i) :
        /\ instances[n][i].seq = instances[m][i].seq
        /\ instances[n][i].deps = instances[m][i].deps
        /\ instances[n][i].noop = instances[m][i].noop

\* Section 1 of the specification: the prepare phase reconstructs the state
\* of an instance from the responses of a majority without violating
\* safety.  The replicas that commit an instance, the leader in its commit
\* phase, a node that recovers it and the replicas their commits reach,
\* commit the same sequence number and dependencies, and the command or
\* the no-op alike, whichever messages were lost and in whatever order
\* the others arrived: a recovery runs the preaccept phase again, which
\* ends on the answers of a fast quorum as the phase of the leader does,
\* and HandleCommit takes the attributes of the commit whatever the
\* replica held.
Agreement == \A i \in Ids : AgreeOn(i)

\* The instances that are reached from those of S along the edges of deps.
RECURSIVE Before(_, _)
Before(deps, S) ==
    LET T == S \cup UNION { deps[a] : a \in S }
    IN  IF T = S THEN S ELSE Before(deps, T)

\* Section 3 of the specification: two committed instances that interfere,
\* as all instances of a scope do, are ordered by their dependencies,
\* no-ops aside.  makeInstance names of the executed instances only the
\* last, so the order of an instance and an older executed one is the
\* path over the executed instances between them; leaders that propose at
\* the same time each miss the instance of the other, and the replicas
\* that preaccept both must add the dependency, through recoveries too.
Ordered ==
    LET deps     == [a \in Ids |-> UNION { instances[n][a].deps \cap Ids : n \in Deciders(a) }]
        before   == [a \in Ids |-> Before(deps, {a})]
        commands == { a \in Ids : \E n \in Deciders(a) : ~instances[n][a].noop }
    IN  \A a, b \in commands : a \in before[b] \/ b \in before[a]

\* Section 3 of the specification, of every instance at every replica: the
\* status and the ballot never go back, and the sequence number and the
\* dependencies are frozen once the instance is committed.  HandleAccept
\* and HandlePreAccept meet requests that arrive after the commit.
InstancesAdvance ==
    [][\A n \in Nodes : \A i \in Known(n) :
          LET old == instances[n][i]
              new == instances'[n][i]
          IN  /\ new # Nil
              /\ new.status >= old.status
              /\ new.ballot >= old.ballot
              /\ old.status >= INSTANCE_COMMITTED =>
                    new.seq = old.seq /\ new.deps = old.deps /\ new.noop = old.noop]_cvars
=============================================================================
