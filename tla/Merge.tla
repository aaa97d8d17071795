-------------------------------- MODULE Merge --------------------------------
(***************************************************************************)
(* The attributes of one instance on the replicas that hear of it.  A      *)
(* message about the instance carries it in the form the serializers of    *)
(* src/consensus/instance.go give it; a replica reads the instance from    *)
(* its connection and merges the (sequence, dependencies) it carries with  *)
(* Instance.mergeAttributes, in whatever order the messages arrive, more   *)
(* than once when they are sent again.  A write may fail and leave part   *)
(* of an instance behind.  That a replica merges what it receives is the     *)
(* specification's (PreAccept, step 2); what the bytes are and what        *)
(* merging does is the code's.                                             *)
(***************************************************************************)
EXTENDS Wire

CONSTANTS
    Replicas,       \* the replicas that hold the instance
    Messages,       \* the instances a message about the instance may carry
    MaxUnread       \* bound: the instances written to the connection and not read

\* The attributes a message carries.
Attributes(instance) == [seq |-> instance.seq, deps |-> instance.deps]

Proposals == { Attributes(instance) : instance \in Messages }

ASSUME MergeConstantsAreSane ==
    /\ Proposals \subseteq [seq : Nat, deps : UNION { List(S) : S \in SUBSET Ids }]
    /\ MaxUnread \in Nat \ {0}

VARIABLES
    local,          \* local[r]: the instance as replica r holds it
    merged,         \* merged[r]: the proposals r has made or merged
    conn            \* the connection that carries the messages; bound: one
                    \* at a time, to one replica after the other

vars == <<local, merged, conn>>

\* A new connection to replica r: the bytes written and not yet read,
\* whether both ends use the serializers that carry the timeouts, and
\* whether it broke; unread are the instances written, for the properties.
Connected(r, full) ==
    [to |-> r, buf |-> <<>>, full |-> full, broken |-> FALSE, unread |-> <<>>]

\* Every replica holds the instance with the attributes it computed itself.
Init ==
    /\ \E own \in [Replicas -> Proposals] :
          /\ local = [r \in Replicas |->
                         [seq |-> own[r].seq, deps |-> own[r].deps, noop |-> FALSE,
                          status |-> INSTANCE_PREACCEPTED]]
          /\ merged = [r \in Replicas |-> {own[r]}]
    /\ conn \in { Connected(r, full) : r \in Replicas, full \in BOOLEAN }

Serialize(full, instance) ==
    IF full THEN instanceSerialize(instance) ELSE instanceLimitedSerialize(instance)

Deserialize(full, buf) ==
    IF full THEN instanceDeserialize(buf) ELSE instanceLimitedDeserialize(buf)

\* A message with the instance is written to the connection.
Send(instance) ==
    /\ ~conn.broken
    /\ Len(conn.unread) < MaxUnread
    /\ conn' = [conn EXCEPT !.buf = @ \o Serialize(conn.full, instance),
                            !.unread = Append(@, instance)]
    /\ UNCHANGED <<local, merged>>

\* A write of the serializer fails: what it wrote before is in the buffer,
\* and nothing is written to the connection after it.  Bound: the buffer
\* was empty; part of an instance after a whole one is read as the whole
\* one, and then as the part.
SendFails(instance) ==
    /\ ~conn.broken
    /\ conn.buf = <<>>
    /\ \E written \in Prefixes(Serialize(conn.full, instance)) :
          /\ written # Serialize(conn.full, instance)
          /\ conn' = [conn EXCEPT !.buf = @ \o written, !.broken = TRUE,
                                  !.unread = Append(@, instance)]
    /\ UNCHANGED <<local, merged>>

\* With nothing left to read, the next messages go to replica r.
Connect(r) ==
    /\ conn.buf = <<>>
    /\ conn.to # r
    /\ conn' = Connected(r, conn.full)
    /\ UNCHANGED <<local, merged>>

\* The replica reads an instance from the connection and merges its
\* attributes; when the read fails, it drops the connection for a new one.
Receive ==
    /\ conn.buf # <<>> \/ conn.broken
    /\ LET r    == conn.to
           read == Deserialize(conn.full, conn.buf)
       IN  \/ /\ read = Failed
              /\ conn' = Connected(r, conn.full)
              /\ UNCHANGED <<local, merged>>
           \/ /\ read # Failed
              /\ \E m \in mergeAttributes(local[r], read.val.seq, read.val.deps) :
                    /\ local' = [local EXCEPT ![r] = m.instance]
                    /\ merged' = [merged EXCEPT ![r] = @ \cup {Attributes(read.val)}]
              /\ conn' = [conn EXCEPT !.buf = read.rest, !.unread = Tail(@)]

Next ==
    \/ \E instance \in Messages : Send(instance) \/ SendFails(instance)
    \/ \E r \in Replicas : Connect(r)
    \/ Receive

Spec == Init /\ [][Next]_vars

-----------------------------------------------------------------------------
\* The attributes stay attributes: a sequence number, and dependencies
\* that name each instance once, however often a message is merged.
TypeOK ==
    /\ local \in [Replicas -> Instance]
    /\ merged \in [Replicas -> SUBSET Proposals]
    /\ conn.to \in Replicas /\ conn.full \in BOOLEAN /\ conn.broken \in BOOLEAN
    /\ conn.unread \in Seq(Messages)

\* Replicas that have merged the same proposals hold the same sequence
\* number and the same set of dependencies, whatever the order in which
\* the messages arrived and however often each was merged.
MergedInAnyOrder ==
    \A r, q \in Replicas :
        merged[r] = merged[q] =>
            /\ local[r].seq = local[q].seq
            /\ ToSet(local[r].deps) = ToSet(local[q].deps)

\* What instanceLimitedDeserialize or instanceDeserialize reads next from
\* a connection is the oldest instance written to it and not yet read,
\* whole (with its timeouts, or with none where the limited form is used),
\* however many instances follow it in the buffer; the read fails only on
\* a connection that broke, and never yields part of an instance or a
\* mixture of two.
ReadsWhatWasWritten ==
    LET read == Deserialize(conn.full, conn.buf)
        sent == Head(conn.unread)
    IN  conn.buf # <<>> =>
            IF read = Failed THEN conn.broken
            ELSE read.val = IF conn.full THEN sent
                            ELSE [sent EXCEPT !.commitTimeout = Nil,
                                              !.executeTimeout = Nil]
=============================================================================
